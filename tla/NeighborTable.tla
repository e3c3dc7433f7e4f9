--------------------------- MODULE NeighborTable ----------------------------
(***************************************************************************)
(* What the list of neighbours is for, as the rest of the DCA uses it: a   *)
(* table of what has been measured of every neighbour that is known.  The  *)
(* results of a measurement replace those of the measurement before and    *)
(* leave the others alone; no neighbour is forgotten.                      *)
(***************************************************************************)
CONSTANTS
    Addrs,     \* the addresses of neighbours
    Values     \* the results a measurement may have, 0 when it failed

VARIABLE table   \* what is known of every address

Unlisted == [listed |-> FALSE, latency |-> 0, throughput |-> 0]

Init == table = [a \in Addrs |-> Unlisted]

\* The row of a neighbour that is known.
Row(l, t) == [listed |-> TRUE, latency |-> l, throughput |-> t]

Add(a) ==
    /\ ~table[a].listed
    /\ table' = [table EXCEPT ![a] = Row(0, 0)]

RecordLatency(a, v) ==
    table' = [table EXCEPT ![a] = Row(v, table[a].throughput)]

RecordThroughput(a, v) ==
    table' = [table EXCEPT ![a] = Row(table[a].latency, v)]

Next ==
    \E a \in Addrs :
        \/ Add(a)
        \/ \E v \in Values : RecordLatency(a, v) \/ RecordThroughput(a, v)

Spec == Init /\ [][Next]_table
=============================================================================
