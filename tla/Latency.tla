------------------------------ MODULE Latency -------------------------------
(***************************************************************************)
(* The latency and packet loss measurement, db_measure_network_latency of  *)
(* latency.c: for one neighbour after the other it sends echo requests,    *)
(* paced by a timer whose expiry is a message to the thread's own message  *)
(* queue, counts the replies that arrive in the same queue, records the    *)
(* result and clears the queue for the next neighbour.                     *)
(*                                                                         *)
(* The measuring thread is interleaved with the timer interrupt and with   *)
(* the network stack, which may lose, delay, reorder and duplicate the     *)
(* replies.  A step of the thread is the code between two of its calls     *)
(* into the message queue; _pinger is one step, as is what _finish does up *)
(* to its pause, the update of the list of neighbours included.            *)
(*                                                                         *)
(* Times are left out: the timer may expire at any moment after it was     *)
(* set.  A reply carries the identifier of the measurement that asked for  *)
(* it; identifiers are those of DEFAULT_ID ^ now (latency.c:191), taken to *)
(* differ between the measurements whose replies are still under way.      *)
(***************************************************************************)
EXTENDS Integers, Sequences, FiniteSets, LinkedList

CONSTANTS
    Runs,         \* how many measurements are made, one after the other
    Addresses,    \* the addresses of neighbours
    Address,      \* the neighbour each run measures
    Listed,       \* the neighbours on the list before, from head on
    Count,        \* DEFAULT_COUNT, the echo requests per neighbour
    CktabSize,    \* CKTAB_SIZE, the bits of the table of received replies
    Copies,       \* how many replies at most one request is answered with
    QueueSize,    \* the slots of the thread's message queue
    Others        \* the messages of other modules waiting in the queue

ASSUME LatencyAssumption ==
    /\ Runs \in Nat
    /\ Address \in [1 .. Runs -> Addresses]
    /\ Listed \in Seq(Addresses)
    /\ \A i, j \in DOMAIN Listed : Listed[i] = Listed[j] => i = j
    /\ Count \in Nat \ {0}
    /\ CktabSize \in Nat \ {0}
    /\ Copies \in Nat
    /\ QueueSize \in Nat \ {0}
    /\ Others \in 0 .. QueueSize

VARIABLES
    pc,           \* where the thread is in db_measure_network_latency
    run,          \* the iteration of its loop over the neighbours
    data,         \* _ping_data_t: the counters, cktab and whether tmin is set
    timer,        \* sched_timer: the type of the message it will send
    registered,   \* netreg is registered for echo replies
    queue,        \* the message queue of the thread
    held,         \* the message taken from the queue to be requeued
    drained,      \* i of the loop that clears the queue
    net,          \* the replies under way
    list,         \* the list of neighbours, from head on
    results       \* what _finish has recorded, in the order of the runs

vars == <<pc, run, data, timer, registered, queue, held, drained, net, list,
          results>>

\* Messages.  "of" is the run in which a timer message was set: it is not in
\* the code, which cannot tell.
Reply(i, s)   == [type |-> "RCV", id |-> i, seq |-> s]
TimerMsg(y)   == [type |-> y, of |-> run]
OtherMsg      == [type |-> "OTHER"]
NoMsg         == [type |-> "none"]
TimerTypes    == {"SEND_NEXT", "FINISH"}

\* Mutant: tmin does not start as UINT_MAX.
NewDataUnset == [num_sent |-> 0, num_recv |-> 0, num_rept |-> 0, cktab |-> {},
                 tmin |-> TRUE]

NewData == [num_sent |-> 0, num_recv |-> 0, num_rept |-> 0, cktab |-> {},
            tmin |-> FALSE]

Init ==
    /\ pc = "next"
    /\ run = 0
    /\ data = NewData
    /\ timer = "none"
    /\ registered = FALSE
    /\ queue = [i \in 1 .. Others |-> OtherMsg]
    /\ held = NoMsg
    /\ drained = 0
    /\ net = {}
    /\ list = [i \in DOMAIN Listed |->
                 [addr |-> Listed[i], latency |-> 0, packet_loss |-> 0]]
    /\ results = <<>>

\* msg_send and the message of a timer: a full queue drops the message.
Enqueue(q, m) == IF Len(q) < QueueSize THEN Append(q, m) ELSE q

-----------------------------------------------------------------------------
(* The measuring thread.                                                   *)

\* Which message the timer brings next.  Mutant: one request too early.
NextTimerEarly(d) ==
    IF d.num_sent + 2 < Count THEN "SEND_NEXT" ELSE "FINISH"

NextTimer(d) == IF d.num_sent + 1 < Count THEN "SEND_NEXT" ELSE "FINISH"

\* _pinger on the counters d of run r: the next timer message is chosen and
\* set (which cancels the one before), the slot of the reply is cleared and
\* the request is sent, unless the packet buffer is full.
Pinger(d, r) ==
    /\ timer' = NextTimer(d)
    /\ data' = [d EXCEPT !.cktab = @ \ {d.num_sent % CktabSize},
                         !.num_sent = @ + 1]
    /\ \/ net' = net \cup [id : {r}, seq : {d.num_sent}, copy : 1 .. Copies]
       \/ net' = net

\* The loop takes the next neighbour: _configure, gnrc_netreg_register and the
\* first call of _pinger.
Begin ==
    /\ pc = "next"
    /\ run < Runs
    /\ run' = run + 1
    /\ registered' = TRUE
    /\ Pinger(NewData, run + 1)
    /\ pc' = "receive"
    /\ UNCHANGED <<queue, held, drained, list, results>>

\* _configure fails and the function gives up the neighbours that are left
\* (latency.c:105-107).  It can only fail on text that is no address; it gets
\* one it has formatted itself.
ConfigureFails ==
    /\ pc = "next"
    /\ run < Runs
    /\ pc' = "done"
    /\ UNCHANGED <<run, data, timer, registered, queue, held, drained, net,
                   list, results>>

\* There is no further neighbour: the function returns.
Return ==
    /\ pc = "next"
    /\ run >= Runs
    /\ pc' = "done"
    /\ UNCHANGED <<run, data, timer, registered, queue, held, drained, net,
                   list, results>>

Receiving(type) ==
    pc = "receive" /\ queue # <<>> /\ Head(queue).type = type

\* _handle_reply and _print_reply: a reply to another run's request is not
\* ours; ours is a duplicate if the bit of its sequence number is set.
\* Mutant: duplicates are not told apart.
CountedTwice(d, m) ==
    [d EXCEPT !.tmin = TRUE, !.num_recv = @ + 1,
              !.cktab = @ \cup {m.seq % CktabSize}]

Counted(d, m) ==
    LET slot == m.seq % CktabSize
    IN  IF slot \in d.cktab
        THEN [d EXCEPT !.tmin = TRUE, !.num_rept = @ + 1]
        ELSE [d EXCEPT !.tmin = TRUE, !.num_recv = @ + 1,
                       !.cktab = @ \cup {slot}]

\* Mutant: the identifier of the reply is not compared.
ReceiveReplyOfAny ==
    /\ Receiving("RCV")
    /\ data' = Counted(data, Head(queue))
    /\ pc' = IF data'.num_recv < Count THEN "receive" ELSE "finish"
    /\ queue' = Tail(queue)
    /\ UNCHANGED <<run, timer, registered, held, drained, net, list, results>>

ReceiveReply ==
    /\ Receiving("RCV")
    /\ data' = IF Head(queue).id = run THEN Counted(data, Head(queue)) ELSE data
    /\ pc' = IF data'.num_recv < Count THEN "receive" ELSE "finish"
    /\ queue' = Tail(queue)
    /\ UNCHANGED <<run, timer, registered, held, drained, net, list, results>>

\* Mutant: the case falls through to the requeueing of other messages.
ReceiveSendNextFallsThrough ==
    /\ Receiving("SEND_NEXT")
    /\ Pinger(data, run)
    /\ queue' = Append(Tail(queue), Head(queue))
    /\ UNCHANGED <<pc, run, registered, held, drained, list, results>>

ReceiveSendNext ==
    /\ Receiving("SEND_NEXT")
    /\ Pinger(data, run)
    /\ queue' = Tail(queue)
    /\ UNCHANGED <<pc, run, registered, held, drained, list, results>>

\* Mutant: the loop goes on after _PING_FINISH.
ReceiveFinishGoesOn ==
    /\ Receiving("FINISH")
    /\ queue' = Tail(queue)
    /\ UNCHANGED <<pc, run, data, timer, registered, held, drained, net,
                   list, results>>

ReceiveFinish ==
    /\ Receiving("FINISH")
    /\ pc' = "finish"
    /\ queue' = Tail(queue)
    /\ held' = Head(queue)
    /\ UNCHANGED <<run, data, timer, registered, drained, net, list, results>>

\* Any other message goes back to the end of the queue.
ReceiveOther ==
    /\ Receiving("OTHER")
    /\ pc' = "requeue"
    /\ queue' = Tail(queue)
    /\ held' = Head(queue)
    /\ UNCHANGED <<run, data, timer, registered, drained, net, list, results>>

Requeue ==
    /\ pc = "requeue"
    /\ queue' = Enqueue(queue, held)
    /\ held' = NoMsg
    /\ pc' = "receive"
    /\ UNCHANGED <<run, data, timer, registered, drained, net, list, results>>

\* xtimer_remove and _finish up to its pause.  The average of the round trips is
\* named by the run they were made in, 0 if there was none.  A result keeps the
\* counters it was computed from and the timer message that ended the run, if
\* one did.
\* Mutant: duplicates count as received.
LossOfAll(d) ==
    ((d.num_sent - d.num_recv - d.num_rept) * 100) \div d.num_sent

Loss(d) == ((d.num_sent - d.num_recv) * 100) \div d.num_sent

Finish ==
    /\ pc = "finish"
    /\ timer' = "none"
    /\ results' = Append(results,
                    [sent |-> data.num_sent, recv |-> data.num_recv,
                     packet_loss |-> Loss(data), ended_by |-> held])
    /\ list' = RecordLatency(list,
                 [addr |-> Address[run], packet_loss |-> Loss(data),
                  latency |-> IF data.tmin THEN run ELSE 0])
    /\ held' = NoMsg
    /\ pc' = "unregister"
    /\ UNCHANGED <<run, data, registered, queue, drained, net>>

\* After the pause at the end of _finish.
Unregister ==
    /\ pc = "unregister"
    /\ registered' = FALSE
    /\ drained' = 0
    /\ pc' = "drain"
    /\ UNCHANGED <<run, data, timer, queue, held, net, list, results>>

\* One round of the loop that clears the queue; its bound is read anew in every
\* round.
Drain ==
    /\ pc = "drain"
    /\ drained < Len(queue)
    /\ queue' = Tail(queue)
    /\ IF Head(queue).type = "RCV"
       THEN held' = NoMsg /\ pc' = "drain" /\ drained' = drained + 1
       ELSE held' = Head(queue) /\ pc' = "putback" /\ drained' = drained
    /\ UNCHANGED <<run, data, timer, registered, net, list, results>>

\* Mutant: the message that is not a reply is dropped like one.
PutBackNothing ==
    /\ pc = "putback"
    /\ held' = NoMsg
    /\ drained' = drained + 1
    /\ pc' = "drain"
    /\ UNCHANGED <<run, data, timer, registered, queue, net, list, results>>

PutBack ==
    /\ pc = "putback"
    /\ queue' = Enqueue(queue, held)
    /\ held' = NoMsg
    /\ drained' = drained + 1
    /\ pc' = "drain"
    /\ UNCHANGED <<run, data, timer, registered, net, list, results>>

Drained ==
    /\ pc = "drain"
    /\ drained >= Len(queue)
    /\ pc' = "next"
    /\ UNCHANGED <<run, data, timer, registered, queue, held, drained, net,
                   list, results>>

Thread ==
    \/ Begin \/ ConfigureFails \/ Return
    \/ ReceiveReply \/ ReceiveSendNext \/ ReceiveFinish \/ ReceiveOther
    \/ Requeue \/ Finish \/ Unregister \/ Drain \/ PutBack \/ Drained

-----------------------------------------------------------------------------
(* The timer interrupt and the network stack.                              *)

TimerExpires ==
    /\ timer \in TimerTypes
    /\ queue' = Enqueue(queue, TimerMsg(timer))
    /\ timer' = "none"
    /\ UNCHANGED <<pc, run, data, registered, held, drained, net, list,
                   results>>

\* A reply arrives.  The stack hands it to whoever is registered for echo
\* replies, or drops it; a reply that never arrives is one that is lost.
Deliver ==
    /\ pc # "done"
    /\ \E p \in net :
         /\ net' = net \ {p}
         /\ queue' = IF registered THEN Enqueue(queue, Reply(p.id, p.seq))
                     ELSE queue
    /\ UNCHANGED <<pc, run, data, timer, registered, held, drained, list,
                   results>>

Done == pc = "done" /\ UNCHANGED vars

Next == Thread \/ TimerExpires \/ Deliver \/ Done

Spec == Init /\ [][Next]_vars

\* The thread is scheduled and a timer that is set expires.  Nothing is
\* assumed of the network.
FairSpec == Spec /\ WF_vars(Thread) /\ WF_vars(TimerExpires)

-----------------------------------------------------------------------------
(* Properties.                                                             *)

PingSet   == [id : Nat, seq : Nat, copy : 1 .. Copies]
ReplySet  == [type : {"RCV"}, id : Nat, seq : Nat]
TimerSet  == [type : TimerTypes, of : Nat]
MsgSet    == ReplySet \cup TimerSet \cup {OtherMsg}
DataSet   == [num_sent : Nat, num_recv : Nat, num_rept : Nat,
              cktab : SUBSET (0 .. CktabSize - 1), tmin : BOOLEAN]
EntrySet  == [addr : Addresses, latency : Nat, packet_loss : Int]
ResultSet == [sent : Nat, recv : Nat, packet_loss : Int,
              ended_by : MsgSet \cup {NoMsg}]

\* Type invariant.
TypeOK ==
    /\ pc \in {"next", "receive", "requeue", "finish", "unregister", "drain",
               "putback", "done"}
    /\ run \in Nat
    /\ data \in DataSet
    /\ timer \in TimerTypes \cup {"none"}
    /\ registered \in BOOLEAN
    /\ queue \in Seq(MsgSet)
    /\ held \in MsgSet \cup {NoMsg}
    /\ drained \in Nat
    /\ net \subseteq PingSet
    /\ list \in Seq(EntrySet)
    /\ results \in Seq(ResultSet)

\* The part of the inductive invariant that ties the place in the code to the
\* locals: a request has been sent before the first message is received, a
\* message is held exactly where one is about to be put back or has just ended
\* the measurement, and tmin is set by the first reply that was counted, before
\* which no reply can be a duplicate.
ThreadInv ==
    /\ run <= Runs
    /\ pc \in {"receive", "requeue", "finish"} => data.num_sent > 0 /\ run > 0
    /\ pc \in {"requeue", "putback"} => held \in MsgSet
    /\ pc = "finish" => held = NoMsg \/ held.type = "FINISH"
    /\ pc \in {"next", "receive", "unregister", "drain"} => held = NoMsg
    /\ data.tmin <=> data.num_recv > 0
    /\ data.cktab # {} => data.num_recv > 0

\* No reply is counted twice and no reply of another measurement is counted,
\* however replies are duplicated or delayed: a measurement never counts more
\* replies than it has sent requests, so that the unsigned difference from
\* which _finish computes the loss does not wrap (latency.c:374).
RecvNeverExceedsSent == data.num_recv <= data.num_sent

\* When _finish divides by the number of replies, there was one, and when it
\* divides by the number of requests, there was one (latency.c:374, 378).
FinishDividesSafely ==
    pc = "finish" => /\ data.num_sent > 0
                     /\ data.tmin => data.num_recv + data.num_rept > 0

\* What is recorded as the loss is a percentage.
LossIsPercentage ==
    \A i \in DOMAIN results : results[i].packet_loss \in 0 .. 100

\* A measurement that ends before it has sent all its requests was ended by the
\* expired timer of an earlier one (latency.c:120-124): its own timer never
\* ends it early.
CutShortByEarlierRun ==
    \A i \in DOMAIN results :
        results[i].sent < Count => /\ results[i].ended_by # NoMsg
                                   /\ results[i].ended_by.of < i

\* The last result of every neighbour measured is on the list, in its only
\* entry: it is the loss computed last, and a latency that was measured in no
\* other run (latency.c:392-397 with the functions of linked_list.c).
LastResultListed ==
    \A i \in DOMAIN results :
        (\A j \in DOMAIN results : Address[j] = Address[i] => j <= i) =>
            \E k \in DOMAIN list :
                /\ Positions(list, Address[i]) = {k}
                /\ list[k].packet_loss = results[i].packet_loss
                /\ list[k].latency = IF results[i].recv > 0 THEN i ELSE 0

\* The messages of other modules are put back, by the loop that measures as by
\* the loop that clears the queue, and none is lost or doubled
\* (latency.c:125-129 and 146-149).
OthersKept ==
    Cardinality({i \in DOMAIN queue : queue[i] = OtherMsg})
      + (IF held = OtherMsg THEN 1 ELSE 0) = Others

\* Timer messages that outlive their measurement can pile up, but each
\* measurement leaves at most one more than it found: _pinger sets the timer
\* once for every such message it is called for, and once to begin with.
LeftOvers == Cardinality({i \in DOMAIN queue : queue[i].type \in TimerTypes})

LeftOversBounded == pc = "next" => LeftOvers <= run

\* The bits of cktab that stand for requests sent so far.
Slots(n) == {q % CktabSize : q \in 0 .. n - 1}

\* Of the requests sent, as many are not counted as answered as there are bits
\* that stand for one and are clear.
SlotsInv(d) ==
    /\ d.cktab \subseteq Slots(d.num_sent)
    /\ d.num_recv + Cardinality(Slots(d.num_sent) \ d.cktab) <= d.num_sent

CountInv == SlotsInv(data)

\* A message is none of the future when run r has sent n requests: a reply of
\* this run answers a request it has sent, its _PING_FINISH means that it has
\* sent them all.
Known(m, r, n) ==
    /\ m.type = "RCV" => m.id <= r /\ (m.id = r => m.seq < n)
    /\ m.type \in TimerTypes =>
         m.of <= r /\ (m.of = r /\ m.type = "FINISH" => n >= Count)

MsgInv ==
    /\ \A i \in 1 .. Len(queue) : Known(queue[i], run, data.num_sent)
    /\ Known(held, run, data.num_sent)
    /\ \A p \in net : Known(Reply(p.id, p.seq), run, data.num_sent)
    /\ timer = "FINISH" => data.num_sent >= Count

\* A measurement ends with all its replies or with a message; its result is the
\* next one recorded.
EndInv ==
    /\ pc = "finish" /\ held = NoMsg => data.num_recv >= Count
    /\ Len(results) = IF pc \in {"receive", "requeue", "finish"}
                      THEN run - 1 ELSE run

\* The timer message that is set, and the one that has just been taken from the
\* queue, are among those of which no measurement brings more than one.
TimerInv ==
    LeftOvers + (IF held.type \in TimerTypes THEN 1 ELSE 0)
              + (IF timer \in TimerTypes THEN 1 ELSE 0) <= run

\* Every neighbour is listed once, with its last result if it was measured.
ListInv ==
    /\ \A i, j \in DOMAIN list : list[i].addr = list[j].addr => i = j
    /\ LastResultListed

\* The inductive invariant.
IInv ==
    /\ TypeOK /\ ThreadInv /\ CountInv /\ MsgInv /\ EndInv
    /\ LossIsPercentage /\ CutShortByEarlierRun
    /\ TimerInv /\ ListInv

\* All measurements come to an end, even if no reply ever arrives, as long as
\* the queue has room for the timer's message.
MeasurementsEnd == <>(pc = "done")
=============================================================================
