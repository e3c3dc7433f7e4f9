----------------------------- MODULE LinkedList -----------------------------
(***************************************************************************)
(* The list of neighbours of linked_list.c, as a sequence of entries from  *)
(* head on, and what its functions do to it when nothing comes between.    *)
(* The callers decide by linked_list_node_exists between an insertion and  *)
(* an update; the insertion itself does not look.                          *)
(***************************************************************************)
EXTENDS Naturals, Sequences

\* The positions that hold the address a, and the first of them.
Positions(l, a) == {i \in DOMAIN l : l[i].addr = a}

First(S) == CHOOSE i \in S : \A j \in S : i <= j

\* linked_list_node_exists, which returns 0 for a node that is there.
NodeExists(l, a) == Positions(l, a) # {}

\* linked_list_insert_node: the node becomes the head.
InsertNode(l, e) == <<e>> \o l

\* linked_list_update_latency changes two fields of the first such node.
UpdateLatency(l, e) ==
    IF NodeExists(l, e.addr)
    THEN [l EXCEPT ![First(Positions(l, e.addr))] =
            [@ EXCEPT !.latency = e.latency, !.packet_loss = e.packet_loss]]
    ELSE l

\* What _finish does with the result of a measurement (latency.c:392-397).
\* Mutant: the test of linked_list_node_exists is taken the wrong way round.
RecordLatencyInverted(l, e) ==
    IF NodeExists(l, e.addr) THEN InsertNode(l, e) ELSE UpdateLatency(l, e)

RecordLatency(l, e) ==
    IF NodeExists(l, e.addr) THEN UpdateLatency(l, e) ELSE InsertNode(l, e)

\* linked_list_update_throughput changes one field of the first such node.
\* Mutant: it overwrites the whole node.
UpdateThroughputWhole(l, e) ==
    IF NodeExists(l, e.addr)
    THEN [l EXCEPT ![First(Positions(l, e.addr))] = e]
    ELSE l

UpdateThroughput(l, e) ==
    IF NodeExists(l, e.addr)
    THEN [l EXCEPT ![First(Positions(l, e.addr))].throughput = e.throughput]
    ELSE l

\* What a throughput test does with its result (udp_throughput.c:210-215).
RecordThroughput(l, e) ==
    IF NodeExists(l, e.addr) THEN UpdateThroughput(l, e) ELSE InsertNode(l, e)
=============================================================================
