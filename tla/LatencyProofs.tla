---------------------------- MODULE LatencyProofs ----------------------------
(***************************************************************************)
(* Proofs about Latency, for every number of measurements, every count of  *)
(* requests, every size of the table of received replies, every capacity   *)
(* of the message queue and every number of duplicates.                    *)
(***************************************************************************)
EXTENDS Latency, LinkedListProofs

-----------------------------------------------------------------------------
(* Operators.                                                              *)

\* A message sent to the queue of the thread is appended or dropped: a queue
\* of messages stays one (the full queue of msg_send).
LEMMA EnqueueType ==
    ASSUME NEW S, NEW q \in Seq(S), NEW m \in S
    PROVE  Enqueue(q, m) \in Seq(S)
  BY DEF Enqueue

\* Receiving a message takes it from the queue and leaves the others.
LEMMA ReceiveType ==
    ASSUME NEW S, NEW q \in Seq(S), q # <<>>
    PROVE  /\ Head(q) \in S
           /\ Head(q) = q[1]
           /\ 1 \in 1 .. Len(q)
           /\ Tail(q) \in Seq(S)
           /\ \A i \in 1 .. Len(Tail(q)) :
                 /\ i + 1 \in 1 .. Len(q)
                 /\ Tail(q)[i] = q[i + 1]
  OBVIOUS

\* How many of the messages in a queue are among those of M.
Having(q, M) == {i \in DOMAIN q : q[i] \in M}

LEMMA HavingType ==
    ASSUME NEW S, NEW q \in Seq(S), NEW M
    PROVE  /\ IsFiniteSet(Having(q, M))
           /\ Cardinality(Having(q, M)) \in Nat
  <1>1. Having(q, M) \in SUBSET (1 .. Len(q)) /\ Len(q) \in Nat
    BY DEF Having
  <1>2. IsFiniteSet(1 .. Len(q))
    BY <1>1, FS_Interval
  <1>3. QED  BY <1>1, <1>2, FS_Subset, FS_CardinalityType

\* Receiving a message takes it from them.
LEMMA HavingTail ==
    ASSUME NEW S, NEW q \in Seq(S), NEW M, q # <<>>
    PROVE  Cardinality(Having(q, M))
             = Cardinality(Having(Tail(q), M)) + (IF Head(q) \in M THEN 1 ELSE 0)
  <1> DEFINE A == Having(Tail(q), M)
             B == Having(q, M) \ {1}
             f == [i \in A |-> i + 1]
  <1>1. /\ Tail(q) \in Seq(S)
        /\ Head(q) = q[1]
        /\ 1 \in DOMAIN q
        /\ DOMAIN Tail(q) = 1 .. Len(q) - 1
        /\ DOMAIN q = 1 .. Len(q)
        /\ \A i \in 1 .. Len(q) - 1 : Tail(q)[i] = q[i + 1]
    OBVIOUS
  <1>2. \A i \in A : i \in 1 .. Len(q) - 1 /\ i + 1 \in B
    BY <1>1 DEF Having
  <1>3. \A j \in B : j - 1 \in A /\ (j - 1) + 1 = j
    <2>1. ASSUME NEW j \in B  PROVE j - 1 \in A /\ (j - 1) + 1 = j
      <3>1. j \in 1 .. Len(q) /\ j # 1 /\ q[j] \in M
        BY <1>1 DEF Having
      <3>2. j - 1 \in 1 .. Len(q) - 1 /\ (j - 1) + 1 = j
        BY <3>1
      <3>3. Tail(q)[j - 1] = q[j]
        BY <1>1, <3>2
      <3>4. QED  BY <1>1, <3>1, <3>2, <3>3 DEF Having
    <2>2. QED  BY <2>1
  <1>4. f \in Bijection(A, B)
    <2>1. f \in [A -> B]  BY <1>2
    <2>2. \A i, j \in A : f[i] = f[j] => i = j
      <3>1. \A i \in A : i \in Int  BY <1>2
      <3> HIDE DEF A, B
      <3>2. QED  BY <3>1
    <2>3. \A j \in B : \E i \in A : f[i] = j
      <3> HIDE DEF A, B
      <3>1. QED  BY <1>3
    <2> HIDE DEF A, B, f
    <2>4. QED
      BY <2>1, <2>2, <2>3 DEF Bijection, Injection, IsInjective, Surjection
  <1>5. IsFiniteSet(A) /\ Cardinality(A) \in Nat
    BY <1>1, HavingType
  <1>6. Cardinality(B) = Cardinality(A)
    <2> HIDE DEF A, B, f
    <2>1. QED  BY <1>4, <1>5, FS_Bijection DEF ExistsBijection
  <1>7. Cardinality(B) = IF 1 \in Having(q, M)
                         THEN Cardinality(Having(q, M)) - 1
                         ELSE Cardinality(Having(q, M))
    BY HavingType, FS_RemoveElement
  <1>8. 1 \in Having(q, M) <=> Head(q) \in M
    BY <1>1 DEF Having
  <1>9. Cardinality(Having(q, M)) \in Nat
    BY HavingType
  <1> HIDE DEF A, B, f
  <1>10. Cardinality(Having(q, M))
           = Cardinality(A) + (IF Head(q) \in M THEN 1 ELSE 0)
    BY <1>5, <1>6, <1>7, <1>8, <1>9
  <1>11. QED  BY <1>10 DEF A

\* Sending one adds it to them, if there is room.
LEMMA HavingEnqueue ==
    ASSUME NEW S, NEW q \in Seq(S), NEW m \in S, NEW M
    PROVE  LET before == Cardinality(Having(q, M))
               after  == Cardinality(Having(Enqueue(q, m), M))
           IN  /\ after <= before + (IF m \in M THEN 1 ELSE 0)
               /\ Len(q) < QueueSize
                    => after = before + (IF m \in M THEN 1 ELSE 0)
  <1>1. IsFiniteSet(Having(q, M)) /\ Cardinality(Having(q, M)) \in Nat
    BY HavingType
  <1>2. Len(q) \in Nat /\ Len(q) + 1 \notin Having(q, M)
    BY DEF Having
  <1>3. Cardinality(Having(q, M) \cup {Len(q) + 1})
          = Cardinality(Having(q, M)) + 1
    BY <1>1, <1>2, FS_AddElement
  <1>4. Having(Append(q, m), M)
          = IF m \in M THEN Having(q, M) \cup {Len(q) + 1} ELSE Having(q, M)
    <2>1. /\ DOMAIN Append(q, m) = 1 .. Len(q) + 1
          /\ DOMAIN q = 1 .. Len(q)
          /\ Append(q, m)[Len(q) + 1] = m
          /\ \A i \in 1 .. Len(q) : Append(q, m)[i] = q[i]
      OBVIOUS
    <2>2. 1 .. Len(q) + 1 = (1 .. Len(q)) \cup {Len(q) + 1}
      BY <1>2
    <2>3. Len(q) + 1 \notin 1 .. Len(q)
      BY <1>2
    <2>4. QED  BY <2>1, <2>2, <2>3 DEF Having
  <1>5. CASE Enqueue(q, m) = q /\ ~(Len(q) < QueueSize)
    BY <1>1, <1>5
  <1>6. CASE Enqueue(q, m) = Append(q, m)
    <2>1. CASE m \in M
      <3>1. Cardinality(Having(Enqueue(q, m), M))
              = Cardinality(Having(q, M)) + 1
        BY <1>3, <1>4, <1>6, <2>1
      <3>2. QED  BY <1>1, <2>1, <3>1
    <2>2. CASE m \notin M
      BY <1>1, <1>4, <1>6, <2>2
    <2>3. QED  BY <2>1, <2>2
  <1>7. QED  BY <1>5, <1>6 DEF Enqueue

-----------------------------------------------------------------------------
(* Type correctness.                                                       *)

\* _pinger keeps the types of what it changes.
LEMMA PingerType ==
    ASSUME NEW d \in DataSet, NEW r \in Nat, net \subseteq PingSet, Pinger(d, r)
    PROVE  /\ timer' \in TimerTypes
           /\ data' \in DataSet
           /\ net' \subseteq PingSet
  <1>1. /\ d.num_sent \in Nat
        /\ d.cktab \in SUBSET (0 .. CktabSize - 1)
    BY DEF DataSet
  <1>2. /\ d.num_sent + 1 \in Nat
        /\ d.cktab \ {d.num_sent % CktabSize} \in SUBSET (0 .. CktabSize - 1)
    BY <1>1
  <1>3. data' = [d EXCEPT !.cktab = d.cktab \ {d.num_sent % CktabSize},
                          !.num_sent = d.num_sent + 1]
    BY DEF Pinger
  <1>4. data' \in DataSet  BY <1>2, <1>3 DEF DataSet
  <1>5. net' \subseteq PingSet  BY <1>1 DEF Pinger, PingSet
  <1>6. QED  BY <1>4, <1>5 DEF Pinger, NextTimer, TimerTypes

\* So does the counting of a reply.
LEMMA CountedType ==
    ASSUME NEW d \in DataSet, NEW m \in ReplySet
    PROVE  Counted(d, m) \in DataSet
  <1> DEFINE slot == m.seq % CktabSize
  <1>1. slot \in 0 .. CktabSize - 1  BY LatencyAssumption DEF ReplySet
  <1>2. /\ d.num_recv + 1 \in Nat /\ d.num_rept + 1 \in Nat
        /\ d.cktab \cup {slot} \in SUBSET (0 .. CktabSize - 1)
    BY <1>1 DEF DataSet
  <1>3. [d EXCEPT !.tmin = TRUE, !.num_rept = d.num_rept + 1] \in DataSet
    BY <1>2 DEF DataSet
  <1>4. [d EXCEPT !.tmin = TRUE, !.num_recv = d.num_recv + 1,
                  !.cktab = d.cktab \cup {slot}] \in DataSet
    BY <1>2 DEF DataSet
  <1>5. QED  BY <1>3, <1>4 DEF Counted

\* A loss that is computed when a request has been sent is a number.
LEMMA LossType ==
    ASSUME NEW d \in DataSet, d.num_sent > 0
    PROVE  Loss(d) \in Int
  <1>1. /\ d.num_sent \in Nat \ {0}
        /\ (d.num_sent - d.num_recv) * 100 \in Int
    BY DEF DataSet
  <1>2. \A x \in Int, y \in Nat \ {0} : x \div y \in Int  OBVIOUS
  <1>3. QED  BY <1>1, <1>2 DEF Loss

\* Recording a result on the list of neighbours leaves it such a list.
LEMMA RecordType ==
    ASSUME NEW l \in Seq(EntrySet), NEW e \in EntrySet
    PROVE  RecordLatency(l, e) \in Seq(EntrySet)
  <1>1. InsertNode(l, e) \in Seq(EntrySet)
    BY DEF InsertNode
  <1>2. UpdateLatency(l, e) \in Seq(EntrySet)
    <2> DEFINE k == First(Positions(l, e.addr))
               v == [l[k] EXCEPT !.latency = e.latency,
                                 !.packet_loss = e.packet_loss]
    <2>1. k \in DOMAIN l => v \in EntrySet
      <3>1. HAVE k \in DOMAIN l
      <3>2. l[k] \in EntrySet  BY <3>1
      <3> HIDE DEF k
      <3>3. QED  BY <3>2 DEF EntrySet
    <2> HIDE DEF k, v
    <2>2. [l EXCEPT ![k] = v] \in Seq(EntrySet)
      <3>1. \A i \in 1 .. Len(l) : l[i] \in EntrySet  OBVIOUS
      <3>2. [i \in 1 .. Len(l) |-> IF i = k THEN v ELSE l[i]] \in Seq(EntrySet)
        BY <2>1, <3>1
      <3>3. [l EXCEPT ![k] = v]
              = [i \in 1 .. Len(l) |-> IF i = k THEN v ELSE l[i]]
        OBVIOUS
      <3>4. QED  BY <3>2, <3>3
    <2>3. QED  BY <2>2 DEF UpdateLatency, k, v
  <1>3. QED  BY <1>1, <1>2 DEF RecordLatency

\* Receiving a message from a queue of messages.
LEMMA Received ==
    ASSUME TypeOK, NEW type, Receiving(type)
    PROVE  /\ Head(queue) \in MsgSet
           /\ Head(queue).type = type
           /\ Tail(queue) \in Seq(MsgSet)
           /\ pc = "receive"
  BY ReceiveType DEF Receiving, TypeOK

\* The types, and what the place of the thread says about its locals, are kept
\* by every step.
LEMMA TypeStep ==
    ASSUME TypeOK, ThreadInv, [Next]_vars
    PROVE  TypeOK'
  <1> USE DEF TypeOK
  <1>1. CASE Begin
    <2>1. NewData \in DataSet  BY DEF NewData, DataSet
    <2>2. Pinger(NewData, run + 1) /\ run + 1 \in Nat  BY <1>1 DEF Begin
    <2>3. QED  BY <1>1, <2>1, <2>2, PingerType DEF Begin
  <1>2. CASE Return \/ ConfigureFails
    BY <1>2 DEF Return, ConfigureFails
  <1>3. CASE ReceiveReply
    <2>1. Head(queue) \in MsgSet /\ Tail(queue) \in Seq(MsgSet)
          /\ Head(queue).type = "RCV"
      BY <1>3, Received DEF ReceiveReply
    <2>2. Head(queue) \in ReplySet
      BY <2>1 DEF MsgSet, TimerSet, TimerTypes, OtherMsg
    <2>3. data' \in DataSet  BY <1>3, <2>2, CountedType DEF ReceiveReply
    <2>4. QED  BY <1>3, <2>1, <2>3 DEF ReceiveReply
  <1>4. CASE ReceiveSendNext
    <2>1. Tail(queue) \in Seq(MsgSet)  BY <1>4, Received DEF ReceiveSendNext
    <2>2. QED  BY <1>4, <2>1, PingerType DEF ReceiveSendNext
  <1>5. CASE ReceiveFinish \/ ReceiveOther
    <2>1. Head(queue) \in MsgSet /\ Tail(queue) \in Seq(MsgSet)
      BY <1>5, Received DEF ReceiveFinish, ReceiveOther
    <2>2. QED  BY <1>5, <2>1 DEF ReceiveFinish, ReceiveOther
  <1>6. CASE Requeue \/ PutBack
    <2>1. held \in MsgSet  BY <1>6 DEF Requeue, PutBack, ThreadInv
    <2>2. queue' \in Seq(MsgSet)
      BY <1>6, <2>1, EnqueueType DEF Requeue, PutBack
    <2>3. QED  BY <1>6, <2>2 DEF Requeue, PutBack
  <1>7. CASE Finish
    <2>1. Loss(data) \in Int  BY <1>7, LossType DEF Finish, ThreadInv
    <2> DEFINE r == [sent |-> data.num_sent, recv |-> data.num_recv,
                     packet_loss |-> Loss(data), ended_by |-> held]
    <2>2. r \in ResultSet  BY <2>1 DEF ResultSet, DataSet
    <2>3. results' \in Seq(ResultSet)  BY <1>7, <2>2 DEF Finish
    <2> DEFINE e == [addr |-> Address[run], packet_loss |-> Loss(data),
                     latency |-> IF data.tmin THEN run ELSE 0]
    <2>4. Address[run] \in Addresses
      BY <1>7, LatencyAssumption DEF Finish, ThreadInv
    <2>5. e \in EntrySet  BY <2>1, <2>4 DEF EntrySet
    <2>6. list' \in Seq(EntrySet)  BY <1>7, <2>5, RecordType DEF Finish
    <2>7. QED  BY <1>7, <2>3, <2>6 DEF Finish
  <1>8. CASE Unregister
    BY <1>8 DEF Unregister
  <1>9. CASE Drain
    <2>1. queue # <<>> /\ drained \in Nat  BY <1>9 DEF Drain
    <2>2. Head(queue) \in MsgSet /\ Tail(queue) \in Seq(MsgSet)
      BY <2>1, ReceiveType
    <2>3. QED  BY <1>9, <2>2 DEF Drain
  <1>10. CASE Drained
    BY <1>10 DEF Drained
  <1>11. CASE TimerExpires
    <2>1. TimerMsg(timer) \in MsgSet
      BY <1>11 DEF TimerExpires, TimerMsg, MsgSet, TimerSet
    <2>2. queue' \in Seq(MsgSet)  BY <1>11, <2>1, EnqueueType DEF TimerExpires
    <2>3. QED  BY <1>11, <2>2 DEF TimerExpires
  <1>12. CASE Deliver
    <2>1. PICK p \in net :
            /\ net' = net \ {p}
            /\ queue' = IF registered THEN Enqueue(queue, Reply(p.id, p.seq))
                        ELSE queue
      BY <1>12 DEF Deliver
    <2>2. Reply(p.id, p.seq) \in MsgSet
      BY DEF Reply, MsgSet, ReplySet, PingSet
    <2>3. queue' \in Seq(MsgSet)  BY <2>1, <2>2, EnqueueType
    <2>4. QED  BY <1>12, <2>1, <2>3 DEF Deliver
  <1>13. CASE UNCHANGED vars
    BY <1>13 DEF vars
  <1>14. QED
    BY <1>1, <1>2, <1>3, <1>4, <1>5, <1>6, <1>7, <1>8, <1>9, <1>10, <1>11,
       <1>12, <1>13 DEF Next, Thread, Done

-----------------------------------------------------------------------------
(* The counters and cktab.                                                 *)

\* The bits that can be set are finitely many, and one more request adds the
\* bit of its sequence number.
LEMMA SlotsFinite ==
    ASSUME NEW n \in Nat
    PROVE  /\ IsFiniteSet(Slots(n))
           /\ Slots(n + 1) = Slots(n) \cup {n % CktabSize}
  <1>1. \A q \in Nat : q % CktabSize \in 0 .. CktabSize - 1
    BY LatencyAssumption
  <1>2. Slots(n) \in SUBSET (0 .. CktabSize - 1)  BY <1>1 DEF Slots
  <1>3. CktabSize - 1 \in Int  BY LatencyAssumption
  <1>4. IsFiniteSet(0 .. CktabSize - 1)  BY <1>3, FS_Interval
  <1>5. IsFiniteSet(Slots(n))  BY <1>2, <1>4, FS_Subset
  <1>6. 0 .. (n + 1) - 1 = (0 .. n - 1) \cup {n}  OBVIOUS
  <1>7. Slots(n + 1) = Slots(n) \cup {n % CktabSize}  BY <1>6 DEF Slots
  <1>8. QED  BY <1>5, <1>7

\* Before the first request there is nothing to answer.
LEMMA NewDataSlots == SlotsInv(NewData)
  <1>1. Slots(0) = {}  BY DEF Slots
  <1>2. Slots(0) \ {} = {}  BY <1>1
  <1>3. QED  BY <1>2, FS_EmptySet DEF SlotsInv, NewData

\* _pinger sends one request and clears at most one bit.
LEMMA PingerSlots ==
    ASSUME NEW d \in DataSet, NEW r \in Nat, Pinger(d, r), SlotsInv(d)
    PROVE  SlotsInv(data')
  <1> DEFINE n == d.num_sent
             s == n % CktabSize
             open == Slots(n) \ d.cktab
             openNext == Slots(n + 1) \ (d.cktab \ {s})
  <1>1. n \in Nat /\ d.num_recv \in Nat  BY DEF DataSet
  <1>2. /\ data'.num_sent = n + 1
        /\ data'.num_recv = d.num_recv
        /\ data'.cktab = d.cktab \ {s}
    BY DEF Pinger, DataSet
  <1>3. /\ IsFiniteSet(Slots(n))
        /\ Slots(n + 1) = Slots(n) \cup {s}
    BY <1>1, SlotsFinite
  <1>4. IsFiniteSet(open) /\ Cardinality(open) \in Nat
    BY <1>3, FS_Subset, FS_CardinalityType
  <1>5. openNext \in SUBSET (open \cup {s})  BY <1>3
  <1>6. /\ IsFiniteSet(open \cup {s})
        /\ Cardinality(open \cup {s}) <= Cardinality(open) + 1
    <2>1. /\ IsFiniteSet(open \cup {s})
          /\ \/ Cardinality(open \cup {s}) = Cardinality(open)
             \/ Cardinality(open \cup {s}) = Cardinality(open) + 1
      <3> HIDE DEF open, s
      <3>1. QED  BY <1>4, FS_AddElement
    <2> HIDE DEF open, s
    <2>2. QED  BY <1>4, <2>1
  <1>7. /\ Cardinality(openNext) <= Cardinality(open) + 1
        /\ Cardinality(openNext) \in Nat
    <2>1. IsFiniteSet(openNext)
          /\ Cardinality(openNext) <= Cardinality(open \cup {s})
      BY <1>5, <1>6, FS_Subset
    <2>2. Cardinality(openNext) \in Nat  BY <2>1, FS_CardinalityType
    <2>3. Cardinality(open \cup {s}) \in Nat  BY <1>6, FS_CardinalityType
    <2>4. QED  BY <1>4, <1>6, <2>1, <2>2, <2>3
  <1>8. d.num_recv + Cardinality(open) <= n  BY DEF SlotsInv
  <1>9. d.num_recv + Cardinality(openNext) <= n + 1
    BY <1>1, <1>4, <1>7, <1>8
  <1>10. d.cktab \ {s} \subseteq Slots(n + 1)  BY <1>3 DEF SlotsInv
  <1>11. QED  BY <1>2, <1>9, <1>10 DEF SlotsInv

\* Counting the reply to a request that was sent sets a bit that was clear, or
\* leaves the number of received replies alone.
LEMMA CountedSlots ==
    ASSUME NEW d \in DataSet, NEW m \in ReplySet, m.seq < d.num_sent,
           SlotsInv(d)
    PROVE  SlotsInv(Counted(d, m))
  <1> DEFINE n == d.num_sent
             s == m.seq % CktabSize
             open == Slots(n) \ d.cktab
  <1>1. n \in Nat /\ d.num_recv \in Nat /\ m.seq \in 0 .. n - 1
    BY DEF DataSet, ReplySet
  <1>2. s \in Slots(n)  BY <1>1 DEF Slots
  <1>3. CASE s \in d.cktab
    <2>1. /\ Counted(d, m).cktab = d.cktab
          /\ Counted(d, m).num_sent = d.num_sent
          /\ Counted(d, m).num_recv = d.num_recv
      BY <1>3 DEF Counted, DataSet
    <2>2. QED  BY <2>1 DEF SlotsInv
  <1>4. CASE s \notin d.cktab
    <2>1. /\ Counted(d, m).cktab = d.cktab \cup {s}
          /\ Counted(d, m).num_sent = n
          /\ Counted(d, m).num_recv = d.num_recv + 1
      BY <1>4 DEF Counted, DataSet
    <2>2. IsFiniteSet(open)  BY <1>1, SlotsFinite, FS_Subset
    <2>3. Cardinality(open) \in Nat  BY <2>2, FS_CardinalityType
    <2>4. Cardinality(open \ {s}) = Cardinality(open) - 1
      BY <1>2, <1>4, <2>2, FS_RemoveElement
    <2>5. Slots(n) \ (d.cktab \cup {s}) = open \ {s}  OBVIOUS
    <2>6. d.num_recv + Cardinality(open) <= n  BY DEF SlotsInv
    <2>7. (d.num_recv + 1) + Cardinality(Slots(n) \ (d.cktab \cup {s})) <= n
      <3>1. Cardinality(Slots(n) \ (d.cktab \cup {s})) = Cardinality(open) - 1
        BY <2>4, <2>5
      <3> HIDE DEF open
      <3>2. QED  BY <1>1, <2>3, <2>6, <3>1
    <2>8. d.cktab \cup {s} \subseteq Slots(n)  BY <1>2 DEF SlotsInv
    <2>9. QED  BY <2>1, <2>7, <2>8 DEF SlotsInv
  <1>5. QED  BY <1>3, <1>4

\* What the counters say is what the invariant is for.
LEMMA SlotsBound ==
    ASSUME NEW d \in DataSet, SlotsInv(d)
    PROVE  d.num_recv <= d.num_sent
  <1>1. d.num_sent \in Nat /\ d.num_recv \in Nat  BY DEF DataSet
  <1>2. IsFiniteSet(Slots(d.num_sent) \ d.cktab)
    BY <1>1, SlotsFinite, FS_Subset
  <1>3. Cardinality(Slots(d.num_sent) \ d.cktab) \in Nat
    BY <1>2, FS_CardinalityType
  <1>4. QED  BY <1>1, <1>3 DEF SlotsInv

-----------------------------------------------------------------------------
(* The conjuncts of the inductive invariant.                               *)

\* Where the thread is and what its locals hold go together.
LEMMA ThreadStep ==
    ASSUME TypeOK, ThreadInv, [Next]_vars
    PROVE  ThreadInv'
  <1> USE DEF ThreadInv
  <1>1. CASE Begin
    <2>1. /\ data'.num_sent = 1
          /\ data'.num_recv = 0
          /\ data'.tmin = FALSE
          /\ data'.cktab = {}
      BY <1>1 DEF Begin, Pinger, NewData
    <2>2. run' \in Nat /\ run' <= Runs /\ run' > 0
      BY <1>1, LatencyAssumption DEF Begin, TypeOK
    <2>3. QED  BY <1>1, <2>1, <2>2 DEF Begin
  <1>2. CASE ReceiveReply
    <2>1. Head(queue) \in ReplySet
      BY <1>2, Received DEF ReceiveReply, MsgSet, TimerSet, TimerTypes, OtherMsg
    <2>2. /\ data'.num_sent > 0
          /\ data'.tmin <=> data'.num_recv > 0
          /\ data'.cktab # {} => data'.num_recv > 0
      BY <1>2 DEF ReceiveReply, Receiving, Counted, TypeOK, DataSet
    <2>3. pc' \in {"receive", "finish"}  BY <1>2 DEF ReceiveReply
    <2>4. held' = NoMsg /\ run' = run /\ run > 0
      BY <1>2 DEF ReceiveReply, Receiving
    <2>5. QED  BY <2>2, <2>3, <2>4
  <1>3. CASE ReceiveSendNext
    <2>1. /\ data'.num_sent = data.num_sent + 1
          /\ data'.tmin = data.tmin
          /\ data'.num_recv = data.num_recv
          /\ data'.cktab \in SUBSET data.cktab
      BY <1>3 DEF ReceiveSendNext, Pinger, TypeOK, DataSet
    <2>2. QED  BY <1>3, <2>1 DEF ReceiveSendNext, Receiving, TypeOK, DataSet
  <1>4. CASE ReceiveFinish \/ ReceiveOther
    <2>1. /\ Head(queue) \in MsgSet
          /\ pc = "receive"
          /\ pc' = "finish" => Head(queue).type = "FINISH"
      BY <1>4, Received DEF ReceiveFinish, ReceiveOther
    <2>2. QED  BY <1>4, <2>1 DEF ReceiveFinish, ReceiveOther
  <1>5. CASE Requeue \/ PutBack
    BY <1>5 DEF Requeue, PutBack
  <1>6. CASE Finish \/ Unregister \/ Drained \/ Return \/ ConfigureFails
    BY <1>6 DEF Finish, Unregister, Drained, Return, ConfigureFails
  <1>7. CASE Drain
    <2>1. queue # <<>>  BY <1>7 DEF Drain, TypeOK
    <2>2. Head(queue) \in MsgSet  BY <2>1, ReceiveType DEF TypeOK
    <2>3. QED  BY <1>7, <2>2 DEF Drain
  <1>8. CASE TimerExpires \/ Deliver \/ UNCHANGED vars
    BY <1>8 DEF TimerExpires, Deliver, vars
  <1>9. QED
    BY <1>1, <1>2, <1>3, <1>4, <1>5, <1>6, <1>7, <1>8 DEF Next, Thread, Done

\* The counters and the table of received replies: a reply is counted for a
\* request that was sent, and no more than once.
LEMMA CountStep ==
    ASSUME TypeOK, MsgInv, CountInv, [Next]_vars
    PROVE  CountInv'
  <1>1. CASE Begin
    <2>1. /\ Pinger(NewData, run + 1)
          /\ run + 1 \in Nat
          /\ NewData \in DataSet
      BY <1>1 DEF Begin, TypeOK, NewData, DataSet
    <2>2. SlotsInv(data')  BY <2>1, NewDataSlots, PingerSlots
    <2>3. QED  BY <2>2 DEF CountInv, SlotsInv
  <1>2. CASE ReceiveReply
    <2>1. /\ queue # <<>>
          /\ Head(queue).type = "RCV"
      BY <1>2 DEF ReceiveReply, Receiving
    <2>2. /\ Head(queue) \in ReplySet
          /\ Known(Head(queue), run, data.num_sent)
      BY <2>1, ReceiveType
         DEF TypeOK, MsgInv, MsgSet, TimerSet, TimerTypes, OtherMsg
    <2>3. CASE Head(queue).id = run
      <3>1. Head(queue).seq < data.num_sent  BY <2>1, <2>2, <2>3 DEF Known
      <3>2. SlotsInv(Counted(data, Head(queue)))
        BY <2>2, <3>1, CountedSlots DEF CountInv, TypeOK
      <3>3. data' = Counted(data, Head(queue))
        BY <1>2, <2>3 DEF ReceiveReply
      <3>4. QED  BY <3>2, <3>3 DEF CountInv, SlotsInv
    <2>4. CASE Head(queue).id # run
      BY <1>2, <2>4 DEF ReceiveReply, CountInv, SlotsInv
    <2>5. QED  BY <2>3, <2>4
  <1>3. CASE ReceiveSendNext
    <2>1. Pinger(data, run)  BY <1>3 DEF ReceiveSendNext
    <2>2. SlotsInv(data')  BY <2>1, PingerSlots DEF TypeOK, CountInv
    <2>3. QED  BY <2>2 DEF CountInv, SlotsInv
  <1>4. CASE data' = data
    BY <1>4 DEF CountInv, SlotsInv
  <1>5. QED
    BY <1>1, <1>2, <1>3, <1>4
       DEF Next, Thread, Done, Return, ConfigureFails, ReceiveFinish, ReceiveOther,
           Requeue,
           Finish, Unregister, Drain, PutBack, Drained, TimerExpires, Deliver,
           vars

\* A step goes on with the measurement, which has sent no fewer requests
\* afterwards, or begins the next one.
LEMMA Growth ==
    ASSUME TypeOK, [Next]_vars
    PROVE  \/ run' = run /\ data'.num_sent >= data.num_sent
           \/ run' = run + 1
  <1>1. CASE Begin
    BY <1>1 DEF Begin
  <1>2. CASE ReceiveReply
    BY <1>2 DEF ReceiveReply, Counted, TypeOK, DataSet
  <1>3. CASE ReceiveSendNext
    BY <1>3 DEF ReceiveSendNext, Pinger, TypeOK, DataSet
  <1>4. CASE run' = run /\ data' = data
    BY <1>4 DEF TypeOK, DataSet
  <1>5. QED
    BY <1>1, <1>2, <1>3, <1>4
       DEF Next, Thread, Done, Return, ConfigureFails, ReceiveFinish, ReceiveOther,
           Requeue,
           Finish, Unregister, Drain, PutBack, Drained, TimerExpires, Deliver,
           vars

\* A message that is none of the future stays so.
LEMMA KnownGrows ==
    ASSUME NEW m \in MsgSet \cup {NoMsg}, NEW r \in Nat, NEW n \in Nat,
           NEW r2 \in Nat, NEW n2 \in Nat,
           (r2 = r /\ n2 >= n) \/ r2 = r + 1, Known(m, r, n)
    PROVE  Known(m, r2, n2)
  <1>1. CASE m \in ReplySet
    BY <1>1, LatencyAssumption DEF Known, ReplySet, TimerTypes
  <1>2. CASE m \in TimerSet
    BY <1>2, LatencyAssumption DEF Known, TimerSet, TimerTypes
  <1>3. CASE m \in {OtherMsg, NoMsg}
    BY <1>3 DEF Known, OtherMsg, NoMsg, TimerTypes
  <1>4. QED  BY <1>1, <1>2, <1>3 DEF MsgSet

\* What is sent by _pinger, as run r, is known to that run.
LEMMA PingerKnown ==
    ASSUME NEW d \in DataSet, NEW r \in Nat, Pinger(d, r)
    PROVE  /\ timer' = "FINISH" => data'.num_sent >= Count
           /\ \A p \in net' : p \notin net
                => Known(Reply(p.id, p.seq), r, data'.num_sent)
  <1>1. d.num_sent \in Nat /\ data'.num_sent = d.num_sent + 1
    BY DEF Pinger, DataSet
  <1>2. timer' = "FINISH" => d.num_sent + 1 >= Count
    BY <1>1, LatencyAssumption DEF Pinger, NextTimer
  <1>3. ASSUME NEW p \in net', p \notin net
        PROVE  Known(Reply(p.id, p.seq), r, d.num_sent + 1)
    <2>1. p.id = r /\ p.seq = d.num_sent  BY <1>3 DEF Pinger
    <2>2. QED  BY <1>1, <2>1 DEF Known, Reply, TimerTypes
  <1>4. QED  BY <1>1, <1>2, <1>3

\* No message comes from the future.
LEMMA MsgStep ==
    ASSUME TypeOK, TypeOK', ThreadInv, MsgInv, [Next]_vars
    PROVE  MsgInv'
  <1> DEFINE K(m) == Known(m, run', data'.num_sent)
  <1>1. ASSUME NEW m \in MsgSet \cup {NoMsg}, Known(m, run, data.num_sent)
        PROVE  K(m)
    <2>1. /\ run \in Nat /\ data.num_sent \in Nat
          /\ run' \in Nat /\ data'.num_sent \in Nat
      BY DEF TypeOK, DataSet
    <2>2. QED  BY <1>1, <2>1, Growth, KnownGrows
  <1>2. \A i \in 1 .. Len(queue) : K(queue[i])
    BY <1>1 DEF MsgInv, TypeOK
  <1>3. K(held)
    BY <1>1 DEF MsgInv, TypeOK
  <1>4. \A p \in net : K(Reply(p.id, p.seq))
    BY <1>1 DEF MsgInv, TypeOK, Reply, MsgSet, ReplySet, PingSet
  <1>5. K(NoMsg)
    BY DEF Known, NoMsg, TimerTypes
  <1>6. ASSUME queue # <<>>
        PROVE  /\ K(Head(queue))
               /\ \A i \in 1 .. Len(Tail(queue)) : K(Tail(queue)[i])
    BY <1>2, <1>6, ReceiveType DEF TypeOK
  <1>7. ASSUME NEW m \in MsgSet, K(m)
        PROVE  \A i \in 1 .. Len(Enqueue(queue, m)) : K(Enqueue(queue, m)[i])
    <2> HIDE DEF K
    <2>1. queue \in Seq(MsgSet)  BY DEF TypeOK
    <2>2. Enqueue(queue, m) \in {queue, Append(queue, m)}  BY DEF Enqueue
    <2>3. \A i \in 1 .. Len(Append(queue, m)) :
             \/ Append(queue, m)[i] = m
             \/ i \in 1 .. Len(queue) /\ Append(queue, m)[i] = queue[i]
      BY <2>1, <1>7
    <2>4. CASE Enqueue(queue, m) = queue  BY <2>4, <1>2
    <2>5. CASE Enqueue(queue, m) = Append(queue, m)  BY <2>5, <2>3, <1>2, <1>7
    <2>6. QED  BY <2>2, <2>4, <2>5
  <1> HIDE DEF K
  <1>8. /\ \A i \in 1 .. Len(queue') : K(queue'[i])
        /\ K(held')
    <2>1. CASE ReceiveReply \/ ReceiveSendNext
      BY <2>1, <1>3, <1>6 DEF ReceiveReply, ReceiveSendNext, Receiving
    <2>2. CASE ReceiveFinish \/ ReceiveOther
      BY <2>2, <1>6 DEF ReceiveFinish, ReceiveOther, Receiving
    <2>3. CASE Requeue \/ PutBack
      <3>1. held \in MsgSet  BY <2>3 DEF Requeue, PutBack, ThreadInv
      <3>2. QED  BY <2>3, <3>1, <1>3, <1>5, <1>7 DEF Requeue, PutBack
    <2>4. CASE Drain
      <3>1. queue # <<>>  BY <2>4 DEF Drain, TypeOK
      <3>2. held' = NoMsg \/ held' = Head(queue)  BY <2>4 DEF Drain
      <3>3. QED  BY <2>4, <3>1, <3>2, <1>5, <1>6 DEF Drain
    <2>5. CASE TimerExpires
      <3>1. /\ TimerMsg(timer) \in MsgSet
            /\ run' = run /\ data' = data
        BY <2>5 DEF TimerExpires, TimerMsg, MsgSet, TimerSet, TypeOK
      <3>2. K(TimerMsg(timer))
        BY <2>5, <3>1 DEF K, Known, TimerMsg, TimerExpires, TimerTypes, MsgInv,
                          TypeOK
      <3>3. QED  BY <2>5, <3>1, <3>2, <1>3, <1>7 DEF TimerExpires
    <2>6. CASE Deliver
      <3>1. PICK p \in net :
              queue' = IF registered THEN Enqueue(queue, Reply(p.id, p.seq))
                       ELSE queue
        BY <2>6 DEF Deliver
      <3>2. Reply(p.id, p.seq) \in MsgSet
        BY DEF Reply, MsgSet, ReplySet, PingSet, TypeOK
      <3>3. K(Reply(p.id, p.seq))  BY <1>4
      <3>4. QED  BY <2>6, <3>1, <3>2, <3>3, <1>2, <1>3, <1>7 DEF Deliver
    <2>7. CASE queue' = queue /\ held' \in {held, NoMsg}
      BY <2>7, <1>2, <1>3, <1>5
    <2>8. QED
      BY <2>1, <2>2, <2>3, <2>4, <2>5, <2>6, <2>7
         DEF Next, Thread, Done, Begin, Return, ConfigureFails, Finish, Unregister,
             Drained, vars
  <1>9. /\ \A p \in net' : K(Reply(p.id, p.seq))
        /\ timer' = "FINISH" => data'.num_sent >= Count
    <2>1. CASE Begin
      <3>1. /\ Pinger(NewData, run + 1) /\ run' = run + 1 /\ run + 1 \in Nat
            /\ NewData \in DataSet
        BY <2>1 DEF Begin, TypeOK, NewData, DataSet
      <3>2. QED  BY <3>1, <1>4, PingerKnown DEF K
    <2>2. CASE ReceiveSendNext
      <3>1. Pinger(data, run) /\ run' = run  BY <2>2 DEF ReceiveSendNext
      <3>2. QED  BY <3>1, <1>4, PingerKnown DEF K, TypeOK
    <2>3. CASE /\ net' \subseteq net
               /\ timer' = "none" \/ (timer' = timer /\ data' = data)
      BY <2>3, <1>4 DEF MsgInv
    <2>4. CASE ReceiveReply
      <3>1. data'.num_sent = data.num_sent
        BY <2>4 DEF ReceiveReply, Counted, TypeOK, DataSet
      <3>2. QED  BY <2>4, <3>1, <1>4 DEF ReceiveReply, MsgInv
    <2>5. QED
      BY <2>1, <2>2, <2>3, <2>4
         DEF Next, Thread, Done, Return, ConfigureFails, ReceiveFinish, ReceiveOther,
             Requeue,
             Finish, Unregister, Drain, PutBack, Drained, TimerExpires, Deliver,
             vars
  <1>10. QED  BY <1>8, <1>9 DEF MsgInv, K

\* A measurement ends with all its replies or with a message, and its result is
\* the next one recorded.
LEMMA EndStep ==
    ASSUME TypeOK, TypeOK', EndInv, ThreadInv, [Next]_vars
    PROVE  EndInv'
  <1> USE DEF EndInv
  <1>1. CASE Begin
    BY <1>1 DEF Begin, TypeOK
  <1>2. CASE ReceiveReply
    <2>1. /\ pc' \in {"receive", "finish"}
          /\ pc' = "finish" => data'.num_recv >= Count
      BY <1>2, LatencyAssumption DEF ReceiveReply, TypeOK, DataSet
    <2>2. QED  BY <1>2, <2>1 DEF ReceiveReply, Receiving
  <1>3. CASE ReceiveSendNext \/ ReceiveOther \/ Requeue
    BY <1>3 DEF ReceiveSendNext, ReceiveOther, Receiving, Requeue
  <1>4. CASE ReceiveFinish
    <2>1. Head(queue) \in MsgSet  BY <1>4, Received DEF ReceiveFinish
    <2>2. held' # NoMsg
      BY <1>4, <2>1
         DEF ReceiveFinish, MsgSet, ReplySet, TimerSet, TimerTypes, OtherMsg,
             NoMsg
    <2>3. QED  BY <1>4, <2>2 DEF ReceiveFinish, Receiving
  <1>5. CASE Finish
    <2>1. Len(results') = Len(results) + 1  BY <1>5 DEF Finish, TypeOK
    <2>2. QED  BY <1>5, <2>1 DEF Finish, TypeOK
  <1>6. CASE Return \/ ConfigureFails \/ Unregister \/ Drain \/ PutBack \/ Drained
    BY <1>6 DEF Return, ConfigureFails, Unregister, Drain, PutBack, Drained
  <1>7. CASE TimerExpires \/ Deliver \/ UNCHANGED vars
    BY <1>7 DEF TimerExpires, Deliver, vars
  <1>8. QED
    BY <1>1, <1>2, <1>3, <1>4, <1>5, <1>6, <1>7 DEF Next, Thread, Done

\* The loss of a measurement that counted no more replies than it sent requests
\* is a percentage.
LEMMA LossBound ==
    ASSUME NEW d \in DataSet, d.num_sent > 0, d.num_recv <= d.num_sent
    PROVE  Loss(d) \in 0 .. 100
  <1> DEFINE s == d.num_sent
             x == (d.num_sent - d.num_recv) * 100
  <1>1. /\ s \in Nat \ {0}
        /\ x \in Nat
        /\ x <= 100 * s
    BY DEF DataSet
  <1>2. \A a \in Nat, b \in Nat \ {0} :
           a <= 100 * b => a \div b \in 0 .. 100
    <2> TAKE a \in Nat, b \in Nat \ {0}
    <2> HAVE a <= 100 * b
    <2>1. a \div b \in Int /\ a = b * (a \div b) + (a % b) /\ a % b \in 0 .. b - 1
      OBVIOUS
    <2>2. \A q \in Int : b * q <= 100 * b => q <= 100  OBVIOUS
    <2>3. \A q \in Int : b * q + (b - 1) >= 0 => q >= 0  OBVIOUS
    <2>4. QED  BY <2>1, <2>2, <2>3
  <1> HIDE DEF x
  <1>3. x \div s \in 0 .. 100  BY <1>1, <1>2
  <1>4. QED  BY <1>3 DEF Loss, x

\* What is recorded.
LEMMA ResultStep ==
    ASSUME IInv, [Next]_vars
    PROVE  LossIsPercentage' /\ CutShortByEarlierRun'
  <1>1. CASE Finish
    <2> DEFINE r == [sent |-> data.num_sent, recv |-> data.num_recv,
                     packet_loss |-> Loss(data), ended_by |-> held]
    <2>1. /\ results' = Append(results, r)
          /\ results \in Seq(ResultSet)
          /\ Len(results) = run - 1
          /\ run \in Nat
          /\ data \in DataSet
          /\ data.num_sent > 0
      BY <1>1 DEF Finish, IInv, TypeOK, EndInv, ThreadInv
    <2>2. r.packet_loss \in 0 .. 100
      <3>1. data.num_recv <= data.num_sent
        BY <2>1, SlotsBound DEF IInv, CountInv
      <3>2. QED  BY <2>1, <3>1, LossBound
    <2>3. r.sent < Count => r.ended_by # NoMsg /\ r.ended_by.of < run
      <3>1. HAVE data.num_sent < Count
      <3>2. held # NoMsg
        <4>1. data.num_recv <= data.num_sent
          BY <2>1, SlotsBound DEF IInv, CountInv
        <4>2. data.num_sent \in Nat /\ data.num_recv \in Nat
          BY <2>1 DEF DataSet
        <4>3. ~ (data.num_recv >= Count)
          BY <3>1, <4>1, <4>2, LatencyAssumption
        <4>4. QED  BY <1>1, <4>3 DEF Finish, IInv, EndInv
      <3>3. held.type = "FINISH"
        BY <1>1, <3>2 DEF Finish, IInv, ThreadInv
      <3>4. held \in TimerSet
        BY <3>2, <3>3 DEF IInv, TypeOK, MsgSet, ReplySet, OtherMsg
      <3>5. held.of <= run /\ (held.of = run => data.num_sent >= Count)
        BY <3>3 DEF IInv, MsgInv, Known, TimerTypes
      <3>6. held.of # run
        BY <2>1, <3>1, <3>5, LatencyAssumption DEF DataSet
      <3>7. QED  BY <2>1, <3>2, <3>4, <3>5, <3>6 DEF TimerSet
    <2> HIDE DEF r
    <2>4. /\ DOMAIN results' = 1 .. run
          /\ \A i \in 1 .. run :
               results'[i] = IF i = run THEN r ELSE results[i]
          /\ DOMAIN results = 1 .. run - 1
      BY <2>1
    <2>5. LossIsPercentage'
      <3>1. \A i \in 1 .. run - 1 : results[i].packet_loss \in 0 .. 100
        BY <2>4 DEF IInv, LossIsPercentage
      <3>2. \A i \in 1 .. run : i = run \/ i \in 1 .. run - 1
        BY <2>1
      <3>3. ASSUME NEW i \in 1 .. run
            PROVE  results'[i].packet_loss \in 0 .. 100
        <4>1. CASE i = run
          <5>1. results'[i] = r  BY <2>4, <4>1
          <5>2. QED  BY <5>1, <2>2
        <4>2. CASE i # run
          <5>1. results'[i] = results[i] /\ i \in 1 .. run - 1
            BY <2>4, <3>2, <4>2
          <5>2. QED  BY <5>1, <3>1
        <4>3. QED  BY <4>1, <4>2
      <3>4. QED  BY <2>4, <3>3 DEF LossIsPercentage
    <2>6. CutShortByEarlierRun'
      BY <2>1, <2>3, <2>4 DEF IInv, CutShortByEarlierRun
    <2>7. QED  BY <2>5, <2>6
  <1>2. CASE results' = results
    BY <1>2 DEF IInv, LossIsPercentage, CutShortByEarlierRun
  <1>3. QED
    BY <1>1, <1>2
       DEF Next, Thread, Done, Begin, Pinger, Return, ConfigureFails, ReceiveReply,
           ReceiveSendNext, ReceiveFinish, ReceiveOther, Requeue, Unregister,
           Drain, PutBack, Drained, TimerExpires, Deliver, vars

-----------------------------------------------------------------------------
(* The messages of the timer and the list of neighbours.                   *)

\* Which messages are those of a timer.
LEMMA TimerMessages ==
    /\ \A m \in MsgSet \cup {NoMsg} : m.type \in TimerTypes <=> m \in TimerSet
    /\ \A q \in Seq(MsgSet) :
         {i \in DOMAIN q : q[i].type \in TimerTypes} = Having(q, TimerSet)
  <1>1. \A m \in MsgSet \cup {NoMsg} : m.type \in TimerTypes <=> m \in TimerSet
    BY DEF MsgSet, ReplySet, TimerSet, TimerTypes, OtherMsg, NoMsg
  <1>2. QED  BY <1>1 DEF Having

\* A timer message is set when a measurement begins or when one is received.
LEMMA TimerStep ==
    ASSUME TypeOK, TypeOK', ThreadInv, TimerInv, [Next]_vars
    PROVE  TimerInv'
  <1> DEFINE n(q) == Cardinality(Having(q, TimerSet))
             one(m) == IF m \in TimerSet THEN 1 ELSE 0
             set(y) == IF y \in TimerTypes THEN 1 ELSE 0
  <1>1. /\ queue \in Seq(MsgSet) /\ queue' \in Seq(MsgSet)
        /\ run \in Nat /\ run' \in Nat
        /\ held \in MsgSet \cup {NoMsg} /\ held' \in MsgSet \cup {NoMsg}
    BY DEF TypeOK
  <1>2. n(queue) + one(held) + set(timer) <= run
    BY <1>1, TimerMessages DEF TimerInv, LeftOvers
  <1>3. SUFFICES n(queue') + one(held') + set(timer') <= run'
    BY <1>1, TimerMessages DEF TimerInv, LeftOvers
  <1>4. n(queue) \in Nat /\ n(queue') \in Nat
    BY <1>1, HavingType
  <1>5. /\ \A m : one(m) \in 0 .. 1
        /\ \A y : set(y) \in 0 .. 1
        /\ one(NoMsg) = 0
        /\ set("none") = 0
    BY DEF TimerSet, TimerTypes, NoMsg
  <1>6. queue # <<>> => n(queue) = n(Tail(queue)) + one(Head(queue))
    BY <1>1, HavingTail
  <1>7. \A m \in MsgSet : n(Enqueue(queue, m)) <= n(queue) + one(m)
    BY <1>1, HavingEnqueue
  <1>8. \A m \in MsgSet : n(Enqueue(queue, m)) \in Nat
    BY <1>1, EnqueueType, HavingType
  <1> HIDE DEF n, one, set
  <1>9. CASE Begin
    BY <1>1, <1>2, <1>4, <1>5, <1>9 DEF Begin
  <1>10. CASE ReceiveReply
    <2>1. queue # <<>> /\ queue' = Tail(queue) /\ held' = held
          /\ timer' = timer /\ run' = run
      BY <1>10 DEF ReceiveReply, Receiving
    <2>2. QED  BY <1>1, <1>2, <1>4, <1>5, <1>6, <2>1
  <1>11. CASE ReceiveSendNext
    <2>1. queue # <<>> /\ queue' = Tail(queue) /\ held' = held /\ run' = run
      BY <1>11 DEF ReceiveSendNext, Receiving
    <2>2. one(Head(queue)) = 1
      BY <1>1, <1>11, Received, TimerMessages
         DEF ReceiveSendNext, TimerTypes, one
    <2>3. QED  BY <1>1, <1>2, <1>4, <1>5, <1>6, <2>1, <2>2
  <1>12. CASE ReceiveFinish \/ ReceiveOther
    <2>1. queue # <<>> /\ queue' = Tail(queue) /\ held' = Head(queue)
          /\ timer' = timer /\ run' = run /\ held = NoMsg
      BY <1>12 DEF ReceiveFinish, ReceiveOther, Receiving, ThreadInv
    <2>2. QED  BY <1>1, <1>2, <1>4, <1>5, <1>6, <2>1
  <1>13. CASE Requeue \/ PutBack
    <2>1. held \in MsgSet /\ queue' = Enqueue(queue, held) /\ held' = NoMsg
          /\ timer' = timer /\ run' = run
      BY <1>13 DEF Requeue, PutBack, ThreadInv
    <2>2. QED  BY <1>1, <1>2, <1>4, <1>5, <1>7, <2>1
  <1>14. CASE Finish
    BY <1>1, <1>2, <1>4, <1>5, <1>14 DEF Finish
  <1>15. CASE Drain
    <2>1. queue # <<>> /\ queue' = Tail(queue) /\ held = NoMsg
          /\ held' \in {NoMsg, Head(queue)} /\ timer' = timer /\ run' = run
      BY <1>1, <1>15 DEF Drain, TypeOK, ThreadInv
    <2>2. QED  BY <1>1, <1>2, <1>4, <1>5, <1>6, <2>1
  <1>16. CASE TimerExpires
    <2>1. /\ TimerMsg(timer) \in MsgSet
          /\ queue' = Enqueue(queue, TimerMsg(timer)) /\ held' = held
          /\ timer' = "none" /\ run' = run
      BY <1>16 DEF TimerExpires, TimerMsg, MsgSet, TimerSet, TypeOK
    <2>2. set(timer) = 1
      BY <1>16 DEF TimerExpires, set
    <2>3. QED  BY <1>1, <1>2, <1>4, <1>5, <1>7, <2>1, <2>2
  <1>17. CASE Deliver
    <2>1. PICK p \in net :
            queue' = IF registered THEN Enqueue(queue, Reply(p.id, p.seq))
                     ELSE queue
      BY <1>17 DEF Deliver
    <2>2. Reply(p.id, p.seq) \in MsgSet
      BY DEF Reply, MsgSet, ReplySet, PingSet, TypeOK
    <2>3. one(Reply(p.id, p.seq)) = 0
      BY DEF one, Reply, TimerSet, TimerTypes
    <2>4. n(queue') <= n(queue)
      BY <1>4, <1>7, <1>8, <2>1, <2>2, <2>3
    <2>5. held' = held /\ timer' = timer /\ run' = run
      BY <1>17 DEF Deliver
    <2>6. QED  BY <1>1, <1>2, <1>4, <1>5, <2>4, <2>5
  <1>18. CASE UNCHANGED <<queue, held, timer, run>>
    BY <1>2, <1>18
  <1>19. QED
    BY <1>9, <1>10, <1>11, <1>12, <1>13, <1>14, <1>15, <1>16, <1>17, <1>18
       DEF Next, Thread, Done, Return, ConfigureFails, Unregister, Drained, vars

\* Recording a result changes the entry of its neighbour, or makes it one at
\* the head of the list.
LEMMA RecordEntered ==
    ASSUME NEW l \in Seq(EntrySet), NEW e \in EntrySet
    PROVE  EntryPut(l, e, RecordLatency(l, e))
  <1>1. CASE NodeExists(l, e.addr)
    <2>1. PICK k : k = First(Positions(l, e.addr))
      OBVIOUS
    <2>2. k \in 1 .. Len(l) /\ l[k].addr = e.addr
      BY <1>1, <2>1, FirstFound
    <2>3. RecordLatency(l, e)
            = [l EXCEPT ![k] = [l[k] EXCEPT !.latency = e.latency,
                                            !.packet_loss = e.packet_loss]]
      BY <1>1, <2>1 DEF RecordLatency, UpdateLatency
    <2>4. [l[k] EXCEPT !.latency = e.latency, !.packet_loss = e.packet_loss] = e
      <3>1. l[k] \in EntrySet  BY <2>2
      <3>2. PICK x \in EntrySet : x = l[k]  BY <3>1
      <3>3. x.addr = e.addr  BY <2>2, <3>2
      <3>4. [x EXCEPT !.latency = e.latency, !.packet_loss = e.packet_loss] = e
        BY <3>3 DEF EntrySet
      <3>5. QED  BY <3>2, <3>4
    <2>5. RecordLatency(l, e) = [l EXCEPT ![k] = e]
      BY <2>3, <2>4
    <2>6. QED  BY <1>1, <2>1, <2>2, <2>5 DEF EntryPut
  <1>2. CASE ~NodeExists(l, e.addr)
    BY <1>2 DEF EntryPut, RecordLatency
  <1>3. QED  BY <1>1, <1>2

\* The list of neighbours and what has been recorded.
LEMMA ListStep ==
    ASSUME IInv, TypeOK', [Next]_vars
    PROVE  ListInv'
  <1> USE DEF ListInv
  <1>1. CASE Finish
    <2> DEFINE loss == Loss(data)
               lat  == IF data.tmin THEN run ELSE 0
               r == [sent |-> data.num_sent, recv |-> data.num_recv,
                     packet_loss |-> loss, ended_by |-> held]
    <2>1. PICK e : e = [addr |-> Address[run], packet_loss |-> loss,
                        latency |-> lat]
      OBVIOUS
    <2>2. /\ results' = Append(results, r)
          /\ results \in Seq(ResultSet)
          /\ Len(results) = run - 1
          /\ run \in 1 .. Runs
          /\ data \in DataSet
          /\ data.num_sent > 0
          /\ data.tmin <=> data.num_recv > 0
          /\ list \in Seq(EntrySet) /\ list' \in Seq(EntrySet)
          /\ list' = RecordLatency(list, e)
      BY <1>1, <2>1, LatencyAssumption
         DEF Finish, IInv, TypeOK, EndInv, ThreadInv
    <2>3. Address \in [1 .. Runs -> Addresses]
      BY LatencyAssumption
    <2>4. e \in EntrySet
      BY <2>1, <2>2, <2>3, LossType DEF EntrySet
    <2>5. Once(list) /\ EntryPut(list, e, list')
      BY <2>2, <2>4, RecordEntered DEF Once, IInv
    <2>6. /\ \A k \in 1 .. Len(list') : Positions(list', list'[k].addr) = {k}
          /\ Once(list')
          /\ \E k \in 1 .. Len(list') : list'[k] = e
          /\ \A j \in 1 .. Len(list) :
                list[j].addr # e.addr =>
                    \E i \in 1 .. Len(list') : list'[i] = list[j]
      <3>1. PICK l \in Seq(EntrySet), m \in Seq(EntrySet) :
              l = list /\ m = list'
        BY <2>2
      <3>2. Once(l) /\ EntryPut(l, e, m)
        BY <2>5, <3>1
      <3>3. /\ Once(m)
            /\ \E k \in 1 .. Len(m) : m[k] = e
            /\ \A j \in 1 .. Len(l) :
                  l[j].addr # e.addr => \E i \in 1 .. Len(m) : m[i] = l[j]
        BY <2>4, <3>2, EnteredOnce
      <3>4. \A k \in 1 .. Len(m) : Positions(m, m[k].addr) = {k}
        BY <3>3, OnlyPosition
      <3>5. QED  BY <3>1, <3>3, <3>4
    <2>7. /\ DOMAIN results' = 1 .. run
          /\ DOMAIN results = 1 .. run - 1
          /\ results'[run].packet_loss = loss
          /\ results'[run].recv = data.num_recv
          /\ \A i \in 1 .. run - 1 : results'[i] = results[i]
      BY <2>2
    <2> HIDE DEF loss, r
    <2>8. ASSUME NEW i \in 1 .. run,
                 \A j \in 1 .. run : Address[j] = Address[i] => j <= i
          PROVE  \E k \in DOMAIN list' :
                    /\ Positions(list', Address[i]) = {k}
                    /\ list'[k].packet_loss = results'[i].packet_loss
                    /\ list'[k].latency = IF results'[i].recv > 0 THEN i ELSE 0
      <3>1. CASE i = run
        <4>1. PICK k \in 1 .. Len(list') : list'[k] = e
          BY <2>6
        <4>2. /\ list'[k].addr = Address[i]
              /\ list'[k].packet_loss = loss
              /\ list'[k].latency = lat
          BY <2>1, <3>1, <4>1
        <4>3. Positions(list', Address[i]) = {k}
          BY <2>6, <4>1, <4>2
        <4>4. /\ results'[i].packet_loss = loss
              /\ lat = IF results'[i].recv > 0 THEN i ELSE 0
          BY <2>2, <2>7, <3>1
        <4>5. DOMAIN list' = 1 .. Len(list')
          BY <2>2
        <4>6. QED  BY <4>1, <4>2, <4>3, <4>4, <4>5
      <3>2. CASE i # run
        <4>1. i \in 1 .. run - 1 /\ run \in 1 .. run
          BY <2>2, <3>2
        <4>2. Address[run] # Address[i]
          BY <2>2, <2>8, <4>1
        <4>3. \A j \in DOMAIN results : Address[j] = Address[i] => j <= i
          BY <2>2, <2>7, <2>8
        <4>4. PICK k \in DOMAIN list :
                /\ Positions(list, Address[i]) = {k}
                /\ list[k].packet_loss = results[i].packet_loss
                /\ list[k].latency = IF results[i].recv > 0 THEN i ELSE 0
          BY <2>7, <4>1, <4>3 DEF IInv, LastResultListed
        <4>5. k \in 1 .. Len(list) /\ list[k].addr = Address[i]
          BY <2>2, <4>4 DEF Positions
        <4>6. PICK n \in 1 .. Len(list') : list'[n] = list[k]
          BY <2>1, <2>6, <4>2, <4>5
        <4>7. Positions(list', Address[i]) = {n}
          BY <2>6, <4>5, <4>6
        <4>8. results'[i] = results[i] /\ DOMAIN list' = 1 .. Len(list')
          BY <2>2, <2>7, <4>1
        <4>9. QED  BY <4>4, <4>6, <4>7, <4>8
      <3>3. QED  BY <3>1, <3>2
    <2>9. QED  BY <2>6, <2>7, <2>8 DEF Once, LastResultListed
  <1>2. CASE results' = results /\ list' = list
    BY <1>2 DEF IInv, LastResultListed
  <1>3. QED
    BY <1>1, <1>2
       DEF Next, Thread, Done, Begin, Pinger, Return, ConfigureFails, ReceiveReply,
           ReceiveSendNext, ReceiveFinish, ReceiveOther, Requeue, Unregister,
           Drain, PutBack, Drained, TimerExpires, Deliver, vars

-----------------------------------------------------------------------------
(* The theorems.                                                           *)

\* The invariant holds when the thread enters the loop over the neighbours.
LEMMA InitInv == Init => IInv
  <1> SUFFICES ASSUME Init PROVE IInv
    OBVIOUS
  <1> USE DEF Init
  <1>1. TypeOK
    <2>1. NewData \in DataSet  BY DEF NewData, DataSet
    <2>2. [i \in 1 .. Others |-> OtherMsg] \in Seq(MsgSet)
      BY LatencyAssumption DEF MsgSet
    <2>3. <<>> \in Seq(ResultSet) /\ {} \subseteq PingSet  OBVIOUS
    <2>4. list \in Seq(EntrySet)
      <3> DEFINE entry(i) == [addr |-> Listed[i], latency |-> 0,
                              packet_loss |-> 0]
      <3>1. \A i \in 1 .. Len(Listed) : entry(i) \in EntrySet
        BY LatencyAssumption DEF EntrySet
      <3>2. /\ list = [i \in 1 .. Len(Listed) |-> entry(i)]
            /\ Len(Listed) \in Nat
        BY LatencyAssumption
      <3> HIDE DEF entry
      <3>3. QED  BY <3>1, <3>2
    <2>5. QED  BY <2>1, <2>2, <2>3, <2>4 DEF TypeOK
  <1>2. ThreadInv  BY LatencyAssumption DEF ThreadInv, NewData
  <1>3. CountInv  BY NewDataSlots DEF CountInv
  <1>4. MsgInv
    <2>1. /\ Known(OtherMsg, run, data.num_sent)
          /\ Known(NoMsg, run, data.num_sent)
      BY DEF Known, OtherMsg, NoMsg, TimerTypes
    <2>2. \A i \in 1 .. Len(queue) : queue[i] = OtherMsg
      BY LatencyAssumption
    <2>3. QED  BY <2>1, <2>2 DEF MsgInv
  <1>5. EndInv /\ LossIsPercentage /\ CutShortByEarlierRun
    BY DEF EndInv, LossIsPercentage, CutShortByEarlierRun
  <1>6. TimerInv
    <2>1. queue \in Seq(MsgSet) /\ \A i \in DOMAIN queue : queue[i] = OtherMsg
      BY <1>1, LatencyAssumption DEF TypeOK
    <2>2. LeftOvers = 0
      <3>1. {i \in DOMAIN queue : queue[i].type \in TimerTypes} = {}
        BY <2>1 DEF OtherMsg, TimerTypes
      <3>2. QED  BY <3>1, FS_EmptySet DEF LeftOvers
    <2>3. QED  BY <2>2 DEF TimerInv, NoMsg, TimerTypes
  <1>7. ListInv  BY LatencyAssumption DEF ListInv, LastResultListed
  <1>8. QED  BY <1>1, <1>2, <1>3, <1>4, <1>5, <1>6, <1>7 DEF IInv

\* Every step of the thread, of the timer and of the network keeps it.
LEMMA StepInv == IInv /\ [Next]_vars => IInv'
  <1> SUFFICES ASSUME IInv, [Next]_vars PROVE IInv'
    OBVIOUS
  <1>1. TypeOK' /\ ThreadInv'  BY TypeStep, ThreadStep DEF IInv
  <1>2. CountInv' /\ MsgInv' /\ EndInv'
    BY <1>1, CountStep, MsgStep, EndStep DEF IInv
  <1>3. LossIsPercentage' /\ CutShortByEarlierRun'  BY ResultStep
  <1>4. TimerInv' /\ ListInv'  BY <1>1, TimerStep, ListStep DEF IInv
  <1>5. QED  BY <1>1, <1>2, <1>3, <1>4 DEF IInv

\* The inductive invariant holds in every state of the measurement, whatever
\* the network and the timer do.
THEOREM Invariance == Spec => []IInv
  BY InitInv, StepInv, PTL DEF Spec

\* Type correctness of the measurement (latency.c:85-153).
THEOREM TypeCorrect == Spec => []TypeOK
  <1>1. IInv => TypeOK  BY DEF IInv
  <1>2. QED  BY <1>1, Invariance, PTL

\* No measurement counts more replies than it sent requests, for every number
\* of duplicates, every delay and every capacity of the queue: the unsigned
\* subtraction of _finish (latency.c:374) never wraps.
THEOREM CountCorrect == Spec => []RecvNeverExceedsSent
  <1>1. IInv => RecvNeverExceedsSent
    BY SlotsBound DEF IInv, TypeOK, CountInv, RecvNeverExceedsSent
  <1>2. QED  BY <1>1, Invariance, PTL

\* _finish never divides by zero (latency.c:374, 378).
THEOREM DivisionCorrect == Spec => []FinishDividesSafely
  <1>1. IInv => FinishDividesSafely
    BY DEF IInv, ThreadInv, TypeOK, DataSet, FinishDividesSafely
  <1>2. QED  BY <1>1, Invariance, PTL

\* Every loss that is recorded is a percentage.
THEOREM LossCorrect == Spec => []LossIsPercentage
  <1>1. IInv => LossIsPercentage  BY DEF IInv
  <1>2. QED  BY <1>1, Invariance, PTL

\* Only a message that the clearing of the queue left behind can end a
\* measurement before it has sent all its requests.
THEOREM CutShortCorrect == Spec => []CutShortByEarlierRun
  <1>1. IInv => CutShortByEarlierRun  BY DEF IInv
  <1>2. QED  BY <1>1, Invariance, PTL

\* Of the timer messages that outlive their measurements, there is at most one
\* for each measurement that has been made, for every queue and every network.
THEOREM LeftOversCorrect == Spec => []LeftOversBounded
  <1>1. IInv => LeftOversBounded
    <2> SUFFICES ASSUME IInv PROVE LeftOvers <= run
      BY DEF LeftOversBounded
    <2>1. queue \in Seq(MsgSet) /\ run \in Nat
      BY DEF IInv, TypeOK
    <2>2. LeftOvers \in Nat
      BY <2>1, TimerMessages, HavingType DEF LeftOvers
    <2>3. QED  BY <2>1, <2>2 DEF IInv, TimerInv
  <1>2. QED  BY <1>1, Invariance, PTL

\* Of every neighbour that was measured, the list holds the last result, in its
\* only entry, for every list to begin with and every sequence of measurements.
THEOREM LastResultCorrect == Spec => []LastResultListed
  <1>1. IInv => LastResultListed  BY DEF IInv, ListInv
  <1>2. QED  BY <1>1, Invariance, PTL

-----------------------------------------------------------------------------
(* Messages of other modules.                                              *)

\* There is room when a message that was taken from the queue is put back.
RoomToPutBack == pc \in {"requeue", "putback"} => Len(queue) < QueueSize

\* They are the messages that are as OtherMsg is.
LEMMA OtherMessages ==
    /\ \A q : {i \in DOMAIN q : q[i] = OtherMsg} = Having(q, {OtherMsg})
    /\ OtherMsg \in MsgSet /\ OtherMsg # NoMsg
    /\ \A m \in MsgSet : m.type = "OTHER" <=> m = OtherMsg
    /\ \A m \in MsgSet \cup {NoMsg} : m.type = "FINISH" => m # OtherMsg
  BY DEF Having, MsgSet, ReplySet, TimerSet, TimerTypes, OtherMsg, NoMsg

\* One of them that is received is held until it is put back.
LEMMA OthersStep ==
    ASSUME TypeOK, TypeOK', ThreadInv, OthersKept, RoomToPutBack, [Next]_vars
    PROVE  OthersKept'
  <1> DEFINE n(q) == Cardinality(Having(q, {OtherMsg}))
             one(m) == IF m = OtherMsg THEN 1 ELSE 0
  <1>1. /\ queue \in Seq(MsgSet) /\ queue' \in Seq(MsgSet)
        /\ held \in MsgSet \cup {NoMsg} /\ held' \in MsgSet \cup {NoMsg}
    BY DEF TypeOK
  <1>2. n(queue) + one(held) = Others
    BY OtherMessages DEF OthersKept
  <1>3. SUFFICES n(queue') + one(held') = Others
    BY OtherMessages DEF OthersKept
  <1>4. n(queue) \in Nat /\ n(queue') \in Nat
    BY <1>1, HavingType
  <1>5. (\A m : one(m) \in 0 .. 1) /\ one(NoMsg) = 0
    BY OtherMessages
  <1>6. queue # <<>> => n(queue) = n(Tail(queue)) + one(Head(queue))
    <2>1. \A m : m \in {OtherMsg} <=> m = OtherMsg
      OBVIOUS
    <2>2. QED  BY <1>1, <2>1, HavingTail
  <1>7. \A m \in MsgSet : Len(queue) < QueueSize \/ one(m) = 0 =>
                           n(Enqueue(queue, m)) = n(queue) + one(m)
    <2>1. \A m : m \in {OtherMsg} <=> m = OtherMsg
      OBVIOUS
    <2>2. \A m : ~(Len(queue) < QueueSize) => Enqueue(queue, m) = queue
      BY DEF Enqueue
    <2>3. QED  BY <1>1, <1>4, <2>1, <2>2, HavingEnqueue
  <1>8. \A m \in MsgSet \cup {NoMsg} :
            m.type \in {"RCV", "SEND_NEXT", "FINISH"} => one(m) = 0
    BY OtherMessages DEF OtherMsg
  <1> HIDE DEF n, one
  <1>9. CASE ReceiveReply \/ ReceiveSendNext
    <2>1. /\ queue # <<>> /\ queue' = Tail(queue) /\ held' = held
          /\ Head(queue).type \in {"RCV", "SEND_NEXT"}
      BY <1>9 DEF ReceiveReply, ReceiveSendNext, Receiving
    <2>2. Head(queue) \in MsgSet
      BY <1>1, <2>1, ReceiveType
    <2>3. one(Head(queue)) = 0
      BY <1>8, <2>1, <2>2
    <2>4. QED  BY <1>2, <1>4, <1>5, <1>6, <2>1, <2>3
  <1>10. CASE ReceiveFinish \/ ReceiveOther
    <2>1. queue # <<>> /\ queue' = Tail(queue) /\ held' = Head(queue) /\ held = NoMsg
      BY <1>10 DEF ReceiveFinish, ReceiveOther, Receiving, ThreadInv
    <2>2. QED  BY <1>2, <1>4, <1>5, <1>6, <2>1
  <1>11. CASE Requeue \/ PutBack
    <2>1. /\ held \in MsgSet /\ queue' = Enqueue(queue, held) /\ held' = NoMsg
          /\ Len(queue) < QueueSize
      BY <1>11 DEF Requeue, PutBack, ThreadInv, RoomToPutBack
    <2>2. QED  BY <1>2, <1>4, <1>5, <1>7, <2>1
  <1>12. CASE Finish
    <2>1. queue' = queue /\ held' = NoMsg /\ (held = NoMsg \/ held.type = "FINISH")
      BY <1>12 DEF Finish, ThreadInv
    <2>2. one(held) = 0
      BY <1>1, <1>5, <1>8, <2>1
    <2>3. QED  BY <1>2, <1>4, <1>5, <2>1, <2>2
  <1>13. CASE Drain
    <2>1. queue # <<>> /\ queue' = Tail(queue) /\ held = NoMsg
      BY <1>1, <1>13 DEF Drain, TypeOK, ThreadInv
    <2>2. \/ held' = NoMsg /\ Head(queue).type = "RCV"
          \/ held' = Head(queue)
      BY <1>13 DEF Drain
    <2>3. Head(queue) \in MsgSet
      BY <1>1, <2>1, ReceiveType
    <2>4. one(held') = one(Head(queue))
      BY <1>5, <1>8, <2>2, <2>3
    <2>5. QED  BY <1>2, <1>4, <1>5, <1>6, <2>1, <2>4
  <1>14. CASE TimerExpires
    <2>1. /\ TimerMsg(timer) \in MsgSet
          /\ queue' = Enqueue(queue, TimerMsg(timer)) /\ held' = held
      BY <1>14 DEF TimerExpires, TimerMsg, MsgSet, TimerSet, TypeOK
    <2>2. TimerMsg(timer).type \in {"SEND_NEXT", "FINISH"}
      BY <1>14 DEF TimerExpires, TimerMsg, TimerTypes
    <2>3. one(TimerMsg(timer)) = 0
      BY <1>8, <2>1, <2>2
    <2>4. QED  BY <1>2, <1>4, <1>5, <1>7, <2>1, <2>3
  <1>15. CASE Deliver
    <2>1. PICK p \in net :
            queue' = IF registered THEN Enqueue(queue, Reply(p.id, p.seq))
                     ELSE queue
      BY <1>15 DEF Deliver
    <2>2. Reply(p.id, p.seq) \in MsgSet /\ Reply(p.id, p.seq).type = "RCV"
      BY DEF Reply, MsgSet, ReplySet, PingSet, TypeOK
    <2>3. one(Reply(p.id, p.seq)) = 0
      BY <1>8, <2>2
    <2>4. n(queue') = n(queue)
      BY <1>4, <1>7, <2>1, <2>2, <2>3
    <2>5. held' = held
      BY <1>15 DEF Deliver
    <2>6. QED  BY <1>2, <1>4, <1>5, <2>4, <2>5
  <1>16. CASE UNCHANGED <<queue, held>>
    BY <1>2, <1>16
  <1>17. QED
    BY <1>9, <1>10, <1>11, <1>12, <1>13, <1>14, <1>15, <1>16
       DEF Next, Thread, Begin, Done, Return, ConfigureFails, Unregister, Drained, vars

\* A message of another module is lost in one way only: the queue has filled up
\* between its removal and its return.  Else every one is given back once, by the
\* loop that measures as by the loop that clears the queue, for any number of
\* measurements and of messages and whatever the timer and the network do.
THEOREM OthersCorrect == Spec /\ []RoomToPutBack => []OthersKept
  <1>1. Init => OthersKept
    <2>1. SUFFICES ASSUME Init PROVE OthersKept
      OBVIOUS
    <2>2. {i \in DOMAIN queue : queue[i] = OtherMsg} = 1 .. Others
      BY <2>1 DEF Init
    <2>3. held # OtherMsg
      BY <2>1, OtherMessages DEF Init
    <2>4. Others \in Nat /\ Cardinality(1 .. Others) = Others
      BY LatencyAssumption, FS_Interval
    <2>5. Cardinality({i \in DOMAIN queue : queue[i] = OtherMsg}) = Others
      BY <2>2, <2>4
    <2>6. Others + 0 = Others
      BY <2>4
    <2>7. QED  BY <2>3, <2>5, <2>6 DEF OthersKept
  <1>2. IInv /\ IInv' /\ OthersKept /\ RoomToPutBack /\ [Next]_vars => OthersKept'
    BY OthersStep DEF IInv
  <1>3. QED  BY <1>1, <1>2, Invariance, PTL DEF Spec

=============================================================================
