---------------------------- MODULE NeighborList ----------------------------
(***************************************************************************)
(* The list of neighbours as linked_list.c keeps it: nodes on the heap,    *)
(* linked from a global head, and the three places that extend it.         *)
(*                                                                         *)
(* The main thread records measurements (_finish of latency.c, the end of  *)
(* the loop of db_measure_network_throughput) and, when it reads           *)
(* num_neighbours, enters the neighbours it counts (_netif_node_add_list). *)
(* The gcoap thread may do the last, too: it has the higher priority and   *)
(* preempts the main thread between any two accesses, never the reverse.   *)
(*                                                                         *)
(* A step is one call of linked_list.c or, in linked_list_insert_node, one *)
(* of its two writes.  The walks are one step: a node is linked in at the  *)
(* head only and never moves, so that a walk sees what it would have seen  *)
(* at once when it read head.  Nothing is ever freed; the heap holds at    *)
(* most HeapSize nodes, after which the program would fail.                *)
(***************************************************************************)
EXTENDS Naturals, Sequences, FiniteSets, LinkedList

CONSTANTS
    Main, Coap,   \* the two threads
    Addrs,        \* the addresses of neighbours
    Values,       \* the results of a measurement, 0 when it failed
    Ops,          \* what each thread may do with the list
    HeapSize      \* bound: the nodes the heap has room for

Threads == {Main, Coap}

ASSUME ListAssumption ==
    /\ Main # Coap
    /\ Addrs # {}
    /\ Ops \in [Threads -> SUBSET {"add", "latency", "throughput"}]
    /\ Ops[Coap] \subseteq {"add"}
    /\ HeapSize \in Nat
    /\ Values \subseteq Nat
    /\ 0 \in Values

VARIABLES
    heap,       \* the nodes in the order of their allocation
    head,       \* the index of the first node on the list, NULL if it is empty
    thread,     \* the operation each thread executes, with its locals
    recorded    \* history: what the main thread has recorded of an address

vars == <<heap, head, thread, recorded>>

NULL == 0
NoOp == [pc |-> "idle", op |-> "add", addr |-> CHOOSE a \in Addrs : TRUE,
         val |-> 0, node |-> NULL]
Unlisted == [listed |-> FALSE, latency |-> 0, throughput |-> 0]

Init ==
    /\ heap = <<>>
    /\ head = NULL
    /\ thread = [t \in Threads |-> NoOp]
    /\ recorded = [a \in Addrs |-> Unlisted]

\* On a heap h: what ptr->next gives, and the node a walk from hd meets after k
\* links, NULL beyond the end.
After(h) == [n \in 0 .. Len(h) |-> IF n = NULL THEN NULL ELSE h[n].next]

Walk(h, hd) ==
    LET node[k \in 0 .. HeapSize] ==
            IF k = 0 THEN hd ELSE After(h)[node[k - 1]]
    IN  node

\* The nodes of the list, cut off where the walk has met more than there are.
ChainOf(h, hd) ==
    LET w == Walk(h, hd)
    IN  [k \in 1 .. Cardinality({j \in 0 .. HeapSize : w[j] # NULL})
            |-> w[k - 1]]

Chain == ChainOf(heap, head)

\* What they hold: the list as LinkedList has it.
EntriesOf(h, s) == [k \in DOMAIN s |-> h[s[k]]]

Entries == EntriesOf(heap, Chain)

\* linked_list_node_exists, and the node the update functions stop at.
\* Mutants: only the first node is looked at; the walk goes on to the last node
\* that matches.
ExistsAtHead(a) == head # NULL /\ heap[head].addr = a
Exists(a) == NodeExists(Entries, a)

FoundLast(a) ==
    Chain[CHOOSE i \in Positions(Entries, a) :
            \A j \in Positions(Entries, a) : j <= i]
Found(a) == Chain[First(Positions(Entries, a))]

-----------------------------------------------------------------------------
At(t, pc) ==
    /\ thread[t].pc = pc
    /\ t = Main => thread[Coap].pc = "idle"

Goto(t, pc) == thread' = [thread EXCEPT ![t].pc = pc]

\* A new node.  Mutant: a field is not cleared.
AllocateUncleared(op, a, v) ==
    Append(heap, [addr |-> a, next |-> NULL,
                  latency |-> IF op = "latency" THEN v ELSE 0,
                  throughput |-> IF op = "throughput" THEN v ELSE 255])

Allocate(op, a, v) ==
    Append(heap, [addr |-> a, next |-> NULL,
                  latency |-> IF op = "latency" THEN v ELSE 0,
                  throughput |-> IF op = "throughput" THEN v ELSE 0])

\* A measurement is recorded: its node was allocated in any case.
Measure(t) ==
    /\ At(t, "idle")
    /\ Len(heap) < HeapSize
    /\ \E op \in Ops[t] \ {"add"}, a \in Addrs, v \in Values :
         /\ heap' = Allocate(op, a, v)
         /\ thread' = [thread EXCEPT ![t] =
                [pc |-> "search", op |-> op, addr |-> a, val |-> v,
                 node |-> Len(heap) + 1]]
    /\ UNCHANGED <<head, recorded>>

\* A neighbour is counted.
Count(t) ==
    /\ At(t, "idle")
    /\ "add" \in Ops[t]
    /\ \E a \in Addrs :
         thread' = [thread EXCEPT ![t] =
                [pc |-> "search", op |-> "add", addr |-> a, val |-> 0,
                 node |-> NULL]]
    /\ UNCHANGED <<heap, head, recorded>>

\* linked_list_node_exists and the branch that is taken on its result;
\* _netif_node_add_list allocates its node only now.
Search(t) ==
    /\ At(t, "search")
    /\ LET r == thread[t]
       IN  CASE Exists(r.addr) ->
                  /\ Goto(t, IF r.op = "add" THEN "idle" ELSE "update")
                  /\ heap' = heap
             [] ~Exists(r.addr) /\ r.op # "add" ->
                  /\ Goto(t, "link")
                  /\ heap' = heap
             [] ~Exists(r.addr) /\ r.op = "add" ->
                  /\ Len(heap) < HeapSize
                  /\ heap' = Allocate(r.op, r.addr, r.val)
                  /\ thread' = [thread EXCEPT ![t].pc = "link",
                                              ![t].node = Len(heap) + 1]
    /\ UNCHANGED <<head, recorded>>

\* The main thread has recorded a result.
Recorded(t) ==
    LET r == thread[t]
    IN  recorded' = IF r.op = "add" THEN recorded
                    ELSE [recorded EXCEPT ![r.addr].listed = TRUE,
                                          ![r.addr][r.op] = r.val]

\* linked_list_update_latency (its two fields are one here) and
\* linked_list_update_throughput.
Update(t) ==
    /\ At(t, "update")
    /\ heap' = [heap EXCEPT ![Found(thread[t].addr)][thread[t].op] =
                                thread[t].val]
    /\ Goto(t, "idle")
    /\ Recorded(t)
    /\ UNCHANGED head

\* linked_list_insert_node: link->next = head.  Mutants: the link is left out;
\* it is made to the node itself.
LinkNothing(t) ==
    /\ At(t, "link")
    /\ Goto(t, "publish")
    /\ UNCHANGED <<heap, head, recorded>>

LinkSelf(t) ==
    /\ At(t, "link")
    /\ heap' = [heap EXCEPT ![thread[t].node].next = thread[t].node]
    /\ Goto(t, "publish")
    /\ UNCHANGED <<head, recorded>>

Link(t) ==
    /\ At(t, "link")
    /\ heap' = [heap EXCEPT ![thread[t].node].next = head]
    /\ Goto(t, "publish")
    /\ UNCHANGED <<head, recorded>>

\* head = link.
Publish(t) ==
    /\ At(t, "publish")
    /\ head' = thread[t].node
    /\ Goto(t, "idle")
    /\ Recorded(t)
    /\ UNCHANGED heap

Next ==
    \E t \in Threads :
        \/ Measure(t) \/ Count(t) \/ Search(t) \/ Update(t) \/ Link(t)
        \/ Publish(t)

Spec == Init /\ [][Next]_vars

-----------------------------------------------------------------------------
(* Properties.                                                             *)

\* The table the list stands for: a reader finds the first entry.
Told(e) == [listed |-> TRUE, latency |-> e.latency, throughput |-> e.throughput]

TableOf(l) ==
    [a \in Addrs |->
        IF NodeExists(l, a) THEN Told(l[First(Positions(l, a))]) ELSE Unlisted]

Table == TableOf(Entries)

\* Type invariant.
HeapNode == [addr : Addrs, next : 0 .. HeapSize, latency : Values,
             throughput : Values]

TypeOK ==
    /\ heap \in Seq(HeapNode)
    /\ Len(heap) <= HeapSize
    /\ head \in 0 .. Len(heap)
    /\ thread \in [Threads ->
            [pc : {"idle", "search", "update", "link", "publish"},
             op : {"add", "latency", "throughput"}, addr : Addrs,
             val : Values, node : 0 .. Len(heap)]]
    /\ recorded \in [Addrs ->
            [listed : BOOLEAN, latency : Values, throughput : Values]]

\* The walks of linked_list.c end, whenever they start and whatever has been
\* interrupted: there is no way around from a node to itself
\* (linked_list.c:85-92, 100-109, 116-124).
WalksEnd == Len(Chain) <= Len(heap)

\* A neighbour is on the list once: every insertion comes after a search that
\* has not found it (latency.c:392-397, netif.c:591-600).
ListedOnce ==
    \A i, j \in DOMAIN Entries : Entries[i].addr = Entries[j].addr => i = j

\* What the main thread has recorded last of a neighbour is what a reader finds
\* for it, although the gcoap thread may have come between the search and the
\* insertion or between the two writes of the insertion: its own entry for the
\* neighbour is never found before that of the main thread.
RecordedFound ==
    \A a \in Addrs : recorded[a].listed => Table[a] = recorded[a]

-----------------------------------------------------------------------------
(* The parts of the inductive invariants.                                  *)

\* What each thread executes is one of its operations; an update is none of
\* those that only add.
OpInv ==
    \A t \in Threads :
        /\ thread[t].pc # "idle" => thread[t].op \in Ops[t]
        /\ thread[t].pc = "update" => thread[t].op # "add"

\* The nodes s are linked, from hd on, in their order, and none of them is
\* there twice.
NodeAt(s, i) == IF i <= Len(s) THEN s[i] ELSE NULL

Linked(h, hd, s) ==
    /\ s \in Seq(1 .. Len(h))
    /\ hd = NodeAt(s, 1)
    /\ \A i \in 1 .. Len(s) : h[s[i]].next = NodeAt(s, i + 1)
    /\ \A i, j \in 1 .. Len(s) : s[i] = s[j] => i = j

ChainInv == Linked(heap, head, Chain)

\* A thread has allocated a node and not linked it in yet: it is on no list,
\* nobody else has it and it holds what is to be recorded.
Owns(t) ==
    \/ thread[t].pc \in {"link", "publish"}
    \/ thread[t].pc = "search" /\ thread[t].op # "add"

NodeInv ==
    /\ \A t \in Threads : Owns(t) =>
         LET r == thread[t]
         IN  /\ r.node \in 1 .. Len(heap)
             /\ \A i \in DOMAIN Chain : Chain[i] # r.node
             /\ heap[r.node].addr = r.addr
             /\ heap[r.node].latency = IF r.op = "latency" THEN r.val ELSE 0
             /\ heap[r.node].throughput =
                    IF r.op = "throughput" THEN r.val ELSE 0
    /\ Owns(Main) /\ Owns(Coap) => thread[Main].node # thread[Coap].node

\* Nothing comes between the steps of an insertion of the gcoap thread.
CoapInv ==
    /\ thread[Coap].pc \in {"link", "publish"} => ~Exists(thread[Coap].addr)
    /\ thread[Coap].pc = "publish" => heap[thread[Coap].node].next = head

\* What a list tells of every neighbour is what has been recorded of it.
Agrees(l) ==
    \A a \in Addrs :
        LET e == TableOf(l)[a]
        IN  /\ recorded[a].listed => e.listed
            /\ e.latency = recorded[a].latency
            /\ e.throughput = recorded[a].throughput

\* When the main thread links its node in, the part of the list it links to
\* tells as much as the whole: what the gcoap thread has entered since, and is
\* lost, is of neighbours nothing has been recorded of.
From(l, j) == SubSeq(l, j, Len(l))

MainInv ==
    /\ \A a \in Addrs : ~recorded[a].listed => recorded[a] = Unlisted
    /\ Agrees(Entries)
    /\ thread[Main].pc = "update" => Exists(thread[Main].addr)
    /\ thread[Main].pc \in {"link", "publish"} =>
         ~recorded[thread[Main].addr].listed
    /\ thread[Main].pc = "publish" =>
         \E j \in 1 .. Len(Chain) + 1 :
            /\ heap[thread[Main].node].next = NodeAt(Chain, j)
            /\ Agrees(From(Entries, j))

\* The inductive invariant for two threads.
IInv == TypeOK /\ OpInv /\ ChainInv /\ NodeInv /\ CoapInv /\ MainInv

\* With one thread alone, nothing comes between its steps either.
AloneInv ==
    /\ thread[Coap].pc = "idle"
    /\ thread[Main].pc \in {"link", "publish"} => ~Exists(thread[Main].addr)
    /\ thread[Main].pc = "publish" => heap[thread[Main].node].next = head
    /\ ListedOnce

-----------------------------------------------------------------------------
Abstract == INSTANCE NeighborTable WITH table <- Table

\* As long as one thread alone uses it, the list implements the table.
ImplementsTable == Abstract!Spec
=============================================================================
