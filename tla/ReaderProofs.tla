---------------------------- MODULE ReaderProofs -----------------------------
(***************************************************************************)
(* More theorems about DbQuery, for every board, every set of requests and *)
(* every prefix relation of names.  First, what a reader never does:       *)
(* _num_neighbours, by which the list of neighbours is walked, never       *)
(* points past the end of it, and, where no thread exits, one reader never *)
(* stops the board.  Then, what it always finds: the fields of an          *)
(* interface, and those of a thread at the second attempt.                 *)
(***************************************************************************)
EXTENDS LookupProofs

-----------------------------------------------------------------------------
(* The steps of a task between two of which nothing has preempted it.      *)

\* A command goes on to pc.
To(r, q, pc) ==
    /\ DOMAIN q = TaskFields /\ q.cmd = r.cmd /\ q.seen = <<>> /\ q.pc = pc
    /\ q.slot \in {r.slot, 0}

\* A value is printed: only a dump goes on.
Prints(r, q) ==
    \/ q.pc = "idle" /\ q.seen = <<>>
    \/ To(r, q, "list") /\ q.stack = r.stack /\ r.cmd = "dcadump"

\* The node enumerated is n, its child c: get_next_child returns s.
NextOf(r) ==
    LET n == Len(r.stack)
    IN  NextChild(r.stack[n - 1], r.stack[n], cursor, cursor)

\* The stack st after that.
Replaces(st, old, s) ==
    LET n == Len(old)
    IN  /\ Len(st) = n
        /\ \A i \in 1 .. n - 2 : st[i] = old[i]
        /\ st[n - 1] = s.node /\ st[n] = s.child

\* db_find_node_by_path: the search ends, or has a child whose name is next.
LEMMA LookupIs ==
    ASSUME ShapeInv, NEW t \in Tasks, task[t].seen = <<>>, Lookup(t)
    PROVE  LET r == task[t]
               q == task'[t]
               s == NextOf(r)
           IN  /\ cursor' = s.cursor /\ list' = list
               /\ \/ q.pc = "idle" /\ q.seen = <<>>
                  \/ s.child # NullNode /\ To(r, q, "match") /\ Replaces(q.stack, r.stack, s)
  <1>1. PICK r : r = task[t] /\ Shape(r) /\ r.pc = "lookup" /\ DOMAIN task = Tasks
    BY DEF ShapeInv, Lookup, At
  <1>2. PICK s : s = NextOf(r)
    OBVIOUS
  <1>3. Outcomes(t) = {s}
    BY <1>1, <1>2, TopOfStack DEF Outcomes, NextOf
  <1>4. /\ cursor' = s.cursor /\ list' = list
        /\ Update(t, IF s.child = NullNode THEN Finished(task[t], <<"enoent">>)
                     ELSE [Enumerated(t, s) EXCEPT !.pc = "match"])
    BY <1>3 DEF Lookup
  <1>5. CASE s.child = NullNode
    <2>1. task'[t] = Finished(r, <<"enoent">>)
      BY <1>1, <1>4, <1>5 DEF Update
    <2>2. task'[t].pc = "idle" /\ task'[t].seen = <<>>
      BY <2>1 DEF Finished, Idle
    <2>3. QED  BY <1>1, <1>2, <1>4, <2>2
  <1>6. CASE s.child # NullNode
    <2>1. PICK e : e = Enumerated(t, s)
      OBVIOUS
    <2>2. Returns(s, Node(t), Child(t))
      BY <1>1, <1>3, OutcomesReturn
    <2>3. DOMAIN e = TaskFields /\ e.cmd = r.cmd /\ e.seen = <<>>
          /\ Replaces(e.stack, r.stack, s)
      BY <1>1, <2>1, <2>2, EnumeratedStack DEF Replaces
    <2>4. e.slot = r.slot
      BY <1>1, <2>1 DEF Shape, Enumerated, TaskFields
    <2>5. PICK q : q = [e EXCEPT !.pc = "match"]
      OBVIOUS
    <2>6. task'[t] = q
      BY <1>1, <1>4, <1>6, <2>1, <2>5 DEF Update
    <2>7. To(r, q, "match") /\ q.stack = e.stack
      BY <2>3, <2>5, <2>4 DEF TaskFields, To
    <2>8. QED  BY <1>1, <1>2, <1>4, <1>6, <2>3, <2>6, <2>7
  <1>7. QED  BY <1>5, <1>6

\* A listing ends, has a child to show or, in a dump, leaves the folder.
LEMMA ListIs ==
    ASSUME ShapeInv, NEW t \in Tasks, task[t].seen = <<>>, List(t)
    PROVE  LET r == task[t]
               q == task'[t]
               s == NextOf(r)
               n == Len(r.stack)
           IN  /\ cursor' = s.cursor /\ list' = list
               /\ s.child # Uninitialised
               /\ \/ q.pc = "idle" /\ q.seen = <<>>
                  \/ s.child # NullNode /\ To(r, q, "show") /\ Replaces(q.stack, r.stack, s)
                  \/ /\ s.child = NullNode /\ To(r, q, "list") /\ n > 2
                     /\ Len(q.stack) = n - 1
                     /\ \A i \in 1 .. n - 2 : q.stack[i] = r.stack[i]
                     /\ q.stack[n - 1] = s.node
  <1>1. PICK r : r = task[t] /\ Shape(r) /\ r.pc = "list" /\ DOMAIN task = Tasks
    BY DEF ShapeInv, List, At
  <1>2. PICK s : s = NextOf(r)
    OBVIOUS
  <1>3. Outcomes(t) = {s}
    BY <1>1, <1>2, TopOfStack DEF Outcomes, NextOf
  <1>4. /\ cursor' = s.cursor /\ list' = list /\ s.child # Uninitialised
        /\ Update(t, IF s.child = NullNode THEN Leave(Enumerated(t, s))
                      ELSE [Enumerated(t, s) EXCEPT !.pc = "show"])
    BY <1>3 DEF List
  <1>5. PICK e, n : e = Enumerated(t, s) /\ n = Len(r.stack) /\ n \in Nat
    <2>1. Len(r.stack) \in Nat
      BY <1>1 DEF Shape
    <2>2. QED  BY <2>1
  <1>6. Returns(s, Node(t), Child(t))
    BY <1>1, <1>3, OutcomesReturn
  <1>7. e.slot = r.slot
    BY <1>1, <1>5 DEF Shape, Enumerated, TaskFields
  <1>8. DOMAIN e = TaskFields /\ e.cmd = r.cmd /\ e.seen = <<>> /\ e.pc = "list"
        /\ Replaces(e.stack, r.stack, s) /\ n >= 2
        /\ e.stack \in Seq(NodeSet) /\ Len(e.stack) = n
    BY <1>1, <1>5, <1>6, EnumeratedStack DEF Replaces
  <1>9. CASE s.child # NullNode
    <2>1. PICK q : q = [e EXCEPT !.pc = "show"]
      OBVIOUS
    <2>2. task'[t] = q
      BY <1>1, <1>4, <1>5, <1>9, <2>1 DEF Update
    <2>3. To(r, q, "show") /\ q.stack = e.stack
      BY <1>8, <1>7, <2>1 DEF TaskFields, To
    <2>4. QED  BY <1>1, <1>2, <1>4, <1>8, <1>9, <2>2, <2>3
  <1>10. CASE s.child = NullNode /\ n = 2
    <2>1. task'[t] = Finished(e, <<"listed">>)
      BY <1>1, <1>4, <1>5, <1>8, <1>10 DEF Update, Leave
    <2>2. task'[t].pc = "idle" /\ task'[t].seen = <<>>
      BY <2>1 DEF Finished, Idle
    <2>3. QED  BY <1>1, <1>2, <1>4, <2>2
  <1>11. CASE s.child = NullNode /\ n # 2
    <2>1. PICK fq, q : fq = Front(e.stack) /\ q = [e EXCEPT !.stack = fq]
      OBVIOUS
    <2>2. task'[t] = q
      BY <1>1, <1>4, <1>5, <1>8, <1>11, <2>1 DEF Update, Leave
    <2>3. To(r, q, "list") /\ q.stack = fq
      BY <1>8, <1>7, <2>1 DEF TaskFields, To
    <2>4. PICK m \in Nat : m = n - 1 /\ m >= 1
      BY <1>8
    <2>5. Len(fq) = m /\ \A i \in 1 .. m : fq[i] = e.stack[i]
      BY <1>8, <2>1, <2>4 DEF Front
    <2>6. /\ \A i \in 1 .. n - 2 : fq[i] = r.stack[i]
          /\ fq[n - 1] = s.node /\ Len(fq) = n - 1 /\ n > 2
      <3>1. /\ \A i \in 1 .. n - 2 : e.stack[i] = r.stack[i]
            /\ e.stack[n - 1] = s.node
        BY <1>5, <1>8 DEF Replaces
      <3>2. n \in Nat /\ n >= 2 /\ n # 2 /\ m = n - 1 /\ m \in 1 .. m
        BY <1>5, <1>8, <1>11, <2>4
      <3>3. fq[n - 1] = e.stack[n - 1]
        BY <2>5, <3>2
      <3>4. QED  BY <2>5, <3>1, <3>2, <3>3
    <2>7. QED  BY <1>1, <1>2, <1>4, <1>5, <1>11, <2>2, <2>3, <2>6
  <1>12. QED  BY <1>9, <1>10, <1>11

\* The search goes on among the nodes of a folder or below the child, or ends there.
LEMMA MatchIs ==
    ASSUME ShapeInv, NEW t \in Tasks, task[t].seen = <<>>, Match(t)
    PROVE  LET r == task[t]
               q == task'[t]
               c == r.stack[Len(r.stack)]
           IN  /\ cursor' = cursor /\ list' = list /\ ~NameFaults(c)
               /\ \/ To(r, q, "lookup") /\ q.stack \in {r.stack, <<c, c>>}
                  \/ To(r, q, "type") /\ q.stack = <<c>>
  <1>1. PICK r : r = task[t] /\ Shape(r) /\ r.pc = "match" /\ DOMAIN task = Tasks
    BY DEF ShapeInv, Match, At
  <1>2. PICK c : c = Child(t) /\ c = r.stack[Len(r.stack)]
    BY <1>1, TopOfStack
  <1>3. r.cmd \in {"dcaq", "dcadump", "get"} /\ DOMAIN r = TaskFields
    BY <1>1 DEF Shape
  <1>4. PICK name, rest :
          \/ task'[t] = [r EXCEPT !.pc = "lookup", !.name = name]
          \/ task'[t] = [r EXCEPT !.pc = "lookup", !.todo = rest, !.name = name,
                                !.stack = <<c, c>>]
          \/ task'[t] = FoundNode(r, c)
    BY <1>1, <1>2 DEF Match, Update
  <1>5. \/ To(r, task'[t], "lookup") /\ task'[t].stack \in {r.stack, <<c, c>>}
        \/ To(r, task'[t], "type") /\ task'[t].stack = <<c>>
    <2>1. CASE task'[t] = [r EXCEPT !.pc = "lookup", !.name = name]
      BY <1>1, <1>3, <2>1 DEF To, TaskFields
    <2>2. CASE task'[t] = [r EXCEPT !.pc = "lookup", !.todo = rest, !.name = name,
                                !.stack = <<c, c>>]
      BY <1>1, <1>3, <2>2 DEF To, TaskFields
    <2>3. CASE task'[t] = FoundNode(r, c)
      BY <1>1, <1>3, <2>3 DEF To, TaskFields, FoundNode
    <2>4. QED  BY <1>4, <2>1, <2>2, <2>3
  <1>6. QED  BY <1>1, <1>2, <1>5 DEF Match, db

\* A dump goes on with the type of the child, a listing with the next one.
LEMMA ShowIs ==
    ASSUME ShapeInv, NEW t \in Tasks, task[t].seen = <<>>, Show(t)
    PROVE  LET r == task[t]
               q == task'[t]
           IN  /\ cursor' = cursor /\ list' = list
               /\ ~NameFaults(r.stack[Len(r.stack)]) /\ q.stack = r.stack
               /\ \/ To(r, q, "type") /\ r.cmd = "dcadump"
                  \/ To(r, q, "list") /\ r.cmd # "dcadump"
  <1>1. PICK r : r = task[t] /\ Shape(r) /\ r.pc = "show" /\ DOMAIN task = Tasks
    BY DEF ShapeInv, Show, At
  <1>2. Child(t) = r.stack[Len(r.stack)]
    BY <1>1, TopOfStack
  <1>3. DOMAIN r = TaskFields
    BY <1>1 DEF Shape
  <1>4. PICK name : task'[t] = [r EXCEPT
            !.pc = IF r.cmd = "dcadump" THEN "type" ELSE "list", !.name = name]
    BY <1>1 DEF Show, Update
  <1>5. /\ task'[t].stack = r.stack
        /\ \/ To(r, task'[t], "type") /\ r.cmd = "dcadump"
           \/ To(r, task'[t], "list") /\ r.cmd # "dcadump"
    BY <1>1, <1>3, <1>4 DEF To, TaskFields
  <1>6. QED  BY <1>1, <1>2, <1>5 DEF Show, db

\* A leaf is read, a folder entered.
LEMMA TypeIs ==
    ASSUME ShapeInv, NEW t \in Tasks, task[t].seen = <<>>, Type(t)
    PROVE  LET r == task[t]
               q == task'[t]
               n == Len(r.stack)
           IN  /\ cursor' = cursor /\ list' = list
               /\ \/ To(r, q, "print") /\ q.stack = r.stack
                  \/ /\ To(r, q, "list") /\ GetType(r.stack[n]) = "inner"
                     /\ Len(q.stack) = n + 1 /\ q.stack[n + 1] = Uninitialised
                     /\ \A i \in 1 .. n : q.stack[i] = r.stack[i]
  <1>1. PICK r : r = task[t] /\ Shape(r) /\ r.pc = "type" /\ DOMAIN task = Tasks
    BY DEF ShapeInv, Type, At
  <1>2. Child(t) = r.stack[Len(r.stack)]
    BY <1>1, TopOfStack
  <1>3. DOMAIN r = TaskFields
    BY <1>1 DEF Shape
  <1>4. PICK st \in Seq(NodeSet), n \in Nat : st = r.stack /\ n = Len(st)
    BY <1>1 DEF Shape
  <1>5. PICK aq : aq = Append(st, Uninitialised)
    OBVIOUS
  <1>6. Len(aq) = n + 1 /\ aq[n + 1] = Uninitialised /\ \A i \in 1 .. n : aq[i] = st[i]
    BY <1>4, <1>5
  <1>7. CASE GetType(Child(t)) = "inner"
    <2>1. task'[t] = [r EXCEPT !.pc = "list", !.stack = aq]
      BY <1>1, <1>4, <1>5, <1>7 DEF Type, Update
    <2>2. To(r, task'[t], "list") /\ task'[t].stack = aq
      BY <1>1, <1>3, <2>1 DEF To, TaskFields
    <2>3. QED  BY <1>1, <1>2, <1>4, <1>6, <1>7, <2>2 DEF Type, db
  <1>8. CASE GetType(Child(t)) # "inner"
    <2>1. task'[t] = [r EXCEPT !.pc = "print"]
      BY <1>1, <1>8 DEF Type, Update
    <2>2. To(r, task'[t], "print") /\ task'[t].stack = r.stack
      BY <1>1, <1>3, <2>1 DEF To, TaskFields
    <2>3. QED  BY <1>1, <2>2 DEF Type, db
  <1>9. QED  BY <1>7, <1>8

\* A node that has become a folder is an error, any other has a getter.
LEMMA ValueToStrIs ==
    ASSUME ShapeInv, NEW t \in Tasks, task[t].seen = <<>>, ValueToStr(t)
    PROVE  LET r == task[t]
               q == task'[t]
               type == GetType(r.stack[Len(r.stack)])
           IN  /\ cursor' = cursor /\ list' = list
               /\ \/ Prints(r, q)
                  \/ /\ To(r, q, "assert") /\ q.stack = r.stack
                     /\ q.type = type /\ type # "inner"
  <1>1. PICK r : r = task[t] /\ Shape(r) /\ r.pc = "print" /\ DOMAIN task = Tasks
    BY DEF ShapeInv, ValueToStr, At
  <1>2. Child(t) = r.stack[Len(r.stack)]
    BY <1>1, TopOfStack DEF Reading
  <1>3. DOMAIN r = TaskFields
    BY <1>1 DEF Shape
  <1>4. PICK type : type = GetType(Child(t))
    OBVIOUS
  <1>5. cursor' = cursor /\ list' = list
    BY DEF ValueToStr, db
  <1>6. CASE type = "inner"
    <2>1. PICK res : task'[t] = Printed(r, res)
      BY <1>1, <1>4, <1>6 DEF ValueToStr, Update
    <2>2. Prints(r, task'[t])
      BY <1>1, <1>3, <2>1 DEF Printed, Finished, Idle, To, Prints, TaskFields
    <2>3. QED  BY <1>1, <1>5, <2>2
  <1>7. CASE type # "inner"
    <2>1. task'[t] = [r EXCEPT !.pc = "assert", !.type = type]
      BY <1>1, <1>4, <1>7 DEF ValueToStr, Update
    <2>2. /\ To(r, task'[t], "assert") /\ task'[t].stack = r.stack
          /\ task'[t].type = type
      BY <1>1, <1>3, <2>1 DEF To, TaskFields
    <2>3. QED  BY <1>1, <1>2, <1>4, <1>5, <1>7, <2>2
  <1>8. QED  BY <1>6, <1>7

\* The wrapper of the getter finds the type it is for.
LEMMA CheckTypeIs ==
    ASSUME ShapeInv, NEW t \in Tasks, task[t].seen = <<>>, CheckType(t)
    PROVE  LET r == task[t]
               q == task'[t]
           IN  /\ cursor' = cursor /\ list' = list
               /\ To(r, q, "read") /\ q.stack = r.stack /\ q.type = r.type
  <1>1. PICK r : r = task[t] /\ DOMAIN r = TaskFields /\ DOMAIN task = Tasks
    BY DEF ShapeInv, Shape
  <1>2. task'[t] = [r EXCEPT !.pc = "read"]
    BY <1>1 DEF CheckType, Update
  <1>3. To(r, task'[t], "read") /\ task'[t].stack = r.stack /\ task'[t].type = r.type
    BY <1>1, <1>2 DEF To, TaskFields
  <1>4. QED  BY <1>1, <1>3 DEF CheckType, db

\* All getters but the one that counts the neighbours are done at once.
LEMMA GetValueIs ==
    ASSUME ShapeInv, NEW t \in Tasks, task[t].seen = <<>>, GetValue(t)
    PROVE  LET r == task[t]
               q == task'[t]
           IN  /\ list' = list /\ ~ReadFaults(r.stack[Len(r.stack)], r.type)
               /\ \/ cursor' = cursor /\ Prints(r, q) /\ count' = count
                  \/ /\ cursor' = [cursor EXCEPT !.num = 0] /\ count' = NewCount
                     /\ To(r, q, "count") /\ q.stack = r.stack
  <1>1. PICK r : r = task[t] /\ Shape(r) /\ r.pc = "read" /\ DOMAIN task = Tasks
    BY DEF ShapeInv, GetValue, At
  <1>2. PICK c : c = Child(t) /\ c = r.stack[Len(r.stack)]
    BY <1>1, TopOfStack DEF Reading
  <1>3. DOMAIN r = TaskFields
    BY <1>1 DEF Shape
  <1>4. list' = list /\ ~ReadFaults(c, r.type)
    BY <1>1, <1>2 DEF GetValue
  <1>5. CASE CountsNeighbours(c, r.type)
    <2>1. /\ task'[t] = [r EXCEPT !.pc = "count"]
          /\ cursor' = [cursor EXCEPT !.num = 0] /\ count' = NewCount
      BY <1>1, <1>2, <1>5 DEF GetValue, Update
    <2>2. To(r, task'[t], "count") /\ task'[t].stack = r.stack
      BY <1>1, <1>3, <2>1 DEF To, TaskFields
    <2>3. QED  BY <1>1, <1>2, <1>4, <2>1, <2>2
  <1>6. CASE ~CountsNeighbours(c, r.type)
    <2>1. /\ cursor' = cursor /\ count' = count
          /\ task'[t] = Printed(r, <<"value", Datum(c, r.type)>>)
      BY <1>1, <1>2, <1>6 DEF GetValue, Update
    <2>2. Prints(r, task'[t])
      BY <1>1, <1>3, <2>1 DEF Printed, Finished, Idle, To, Prints, TaskFields
    <2>3. QED  BY <1>1, <1>2, <1>4, <2>1, <2>2
  <1>7. QED  BY <1>5, <1>6

\* The next neighbour of the interface is counted.
LEMMA CountIs ==
    ASSUME ShapeInv, AddressInv, NEW t \in Tasks, task[t].seen = <<>>, Count(t)
    PROVE  LET r == task[t]
               q == task'[t]
               x == r.stack[Len(r.stack)].iface
           IN  /\ list' = list
               /\ cursor' = [cursor EXCEPT !.num = IncUint8(@)]
               /\ q.pc = "add" /\ q.cmd = r.cmd /\ q.seen = <<>> /\ q.stack = r.stack
               /\ x \in DOMAIN IfaceName
               /\ q.slot \in DOMAIN nib[x] /\ q.slot > r.slot
               /\ q.nce = nib[x][q.slot] /\ q.nce # Free
  <1>1. PICK r : r = task[t] /\ Shape(r) /\ r.pc = "count" /\ DOMAIN task = Tasks
    BY DEF ShapeInv, Count, At
  <1>2. PICK c : c = Child(t) /\ c = r.stack[Len(r.stack)]
    BY <1>1, TopOfStack DEF Reading
  <1>3. DOMAIN r = TaskFields /\ c.iface \in DOMAIN IfaceName
    BY <1>1, <1>2 DEF Shape, AddressInv, Counts
  <1>4. PICK i : /\ i = Min(NextSlots(t))
                 /\ task'[t] = [r EXCEPT !.pc = "add", !.slot = i,
                                         !.nce = nib[c.iface][i]]
    BY <1>1, <1>2 DEF Count, Update
  <1>5. i \in NextSlots(t)
    <2>1. nib[c.iface] \in Seq(STRING)
      BY <1>3, QueryAssumption DEF ShapeInv
    <2>2. NextSlots(t) \subseteq DOMAIN nib[c.iface]
      BY <1>2 DEF NextSlots
    <2>3. DOMAIN nib[c.iface] \subseteq Nat
      BY <2>1
    <2>4. NextSlots(t) # {}
      BY DEF Count
    <2>5. NextSlots(t) \in SUBSET Nat
      BY <2>2, <2>3
    <2>6. QED  BY <1>4, <2>4, <2>5, MinIs
  <1>6. i \in DOMAIN nib[c.iface] /\ i > r.slot /\ nib[c.iface][i] # Free
    BY <1>1, <1>2, <1>5 DEF NextSlots
  <1>7. /\ task'[t].pc = "add" /\ task'[t].cmd = r.cmd /\ task'[t].seen = <<>>
        /\ task'[t].stack = r.stack /\ task'[t].slot = i /\ task'[t].nce = nib[c.iface][i]
    BY <1>1, <1>3, <1>4 DEF TaskFields
  <1>8. list' = list /\ cursor' = [cursor EXCEPT !.num = IncUint8(@)]
    BY DEF Count
  <1>9. QED  BY <1>1, <1>2, <1>3, <1>6, <1>7, <1>8

\* It has gone on the list.
LEMMA EnteredIs ==
    ASSUME ShapeInv, NEW t \in Tasks, task[t].seen = <<>>, Entered(t)
    PROVE  LET r == task[t]
               q == task'[t]
           IN  /\ cursor' = cursor
               /\ To(r, q, "count") /\ q.stack = r.stack /\ q.slot = r.slot
  <1>1. PICK r : r = task[t] /\ DOMAIN r = TaskFields /\ DOMAIN task = Tasks
    BY DEF ShapeInv, Shape
  <1>2. task'[t] = [r EXCEPT !.pc = "count", !.nce = Free]
    BY <1>1 DEF Entered, CountOn, Update
  <1>3. /\ To(r, task'[t], "count") /\ task'[t].stack = r.stack
        /\ task'[t].slot = r.slot
    BY <1>1, <1>2 DEF To, TaskFields
  <1>4. QED  BY <1>1, <1>3 DEF Entered

\* There is no further one.
LEMMA CountedIs ==
    ASSUME ShapeInv, NEW t \in Tasks, task[t].seen = <<>>, Counted(t)
    PROVE  cursor' = cursor /\ list' = list /\ Prints(task[t], task'[t])
  <1>1. PICK r : r = task[t] /\ DOMAIN r = TaskFields /\ DOMAIN task = Tasks
    BY DEF ShapeInv, Shape
  <1>2. PICK res : task'[t] = Printed(r, res)
    BY <1>1 DEF Counted, Update
  <1>3. Prints(r, task'[t])
    BY <1>1, <1>2 DEF Printed, Finished, Idle, To, Prints, TaskFields
  <1>4. QED  BY <1>1, <1>3 DEF Counted, db

\* A command comes in.
LEMMA RequestIs ==
    ASSUME ShapeInv, NEW t \in Tasks, Request(t)
    PROVE  LET q == task'[t]
           IN  /\ cursor' = cursor /\ list' = list /\ task[t].pc = "idle"
               /\ \/ q.pc = "idle" /\ q.seen = <<>>
                  \/ /\ DOMAIN q = TaskFields /\ q.seen = <<>> /\ q.slot = 0
                     /\ \/ /\ q.pc = "show" /\ q.cmd = "dcadump" /\ q.stack = <<Root>>
                           /\ \E w \in Requests[t] : w.cmd = "dcadump"
                        \/ /\ q.pc = "lookup" /\ q.cmd # "dcadump"
                           /\ q.stack = <<Root, Uninitialised>>
                           /\ q.path # <<>> /\ q.todo = q.path
                           /\ \E w \in Requests[t] : w.path = q.path
                        \/ q.pc = "type" /\ q.cmd # "dcadump" /\ q.stack = <<Root>>
  <1>1. PICK w, x, short :
            /\ x = [Idle EXCEPT !.cmd = w.cmd, !.path = w.path, !.todo = w.path]
            /\ w \in Requests[t]
            /\ Update(t, CASE w.cmd = "get" /\ w.path = <<>> /\ short ->
                                       Finished(x, <<"enoent">>)
                           [] w.cmd = "dcadump" ->
                                       [x EXCEPT !.pc = "show", !.stack = <<Root>>]
                           [] w.cmd # "dcadump" /\ w.path # <<>> ->
                                       [x EXCEPT !.pc = "lookup",
                                                 !.stack = <<Root, Uninitialised>>]
                           [] OTHER -> [x EXCEPT !.pc = "type", !.stack = <<Root>>])
    BY DEF Request
  <1>2. DOMAIN x = TaskFields /\ x.cmd = w.cmd /\ x.seen = <<>> /\ x.slot = 0
        /\ x.path = w.path /\ x.todo = w.path
    BY <1>1 DEF Idle, TaskFields
  <1>3. \A pc, st : LET y == [x EXCEPT !.pc = pc, !.stack = st]
                    IN  /\ DOMAIN y = TaskFields /\ y.seen = <<>> /\ y.cmd = w.cmd
                        /\ y.slot = 0 /\ y.path = w.path /\ y.todo = w.path
                        /\ y.pc = pc /\ y.stack = st
    BY <1>2 DEF TaskFields
  <1>4. DOMAIN task = Tasks
    BY DEF ShapeInv
  <1>5. PICK q : q = task'[t]
    OBVIOUS
  <1>6. \/ q.pc = "idle" /\ q.seen = <<>>
        \/ /\ DOMAIN q = TaskFields /\ q.seen = <<>> /\ q.slot = 0
           /\ \/ /\ q.pc = "show" /\ q.cmd = "dcadump" /\ q.stack = <<Root>>
                 /\ w.cmd = "dcadump"
              \/ /\ q.pc = "lookup" /\ q.cmd # "dcadump"
                 /\ q.stack = <<Root, Uninitialised>>
                 /\ q.path # <<>> /\ q.todo = q.path /\ q.path = w.path
              \/ q.pc = "type" /\ q.cmd # "dcadump" /\ q.stack = <<Root>>
    <2>1. CASE w.cmd = "get" /\ w.path = <<>> /\ short
      <3>1. q = Finished(x, <<"enoent">>)
        BY <1>1, <1>4, <1>5, <2>1 DEF Update
      <3>2. QED  BY <3>1 DEF Finished, Idle
    <2>2. CASE w.cmd = "dcadump"
      <3>1. q = [x EXCEPT !.pc = "show", !.stack = <<Root>>]
        BY <1>1, <1>4, <1>5, <2>2 DEF Update
      <3>2. QED  BY <1>3, <2>2, <3>1
    <2>3. CASE w.cmd # "dcadump" /\ w.path # <<>>
      <3>1. q = [x EXCEPT !.pc = "lookup", !.stack = <<Root, Uninitialised>>]
        BY <1>1, <1>4, <1>5, <2>3 DEF Update
      <3>2. QED  BY <1>3, <2>3, <3>1
    <2>4. CASE w.cmd # "dcadump" /\ ~(w.cmd = "get" /\ short) /\ w.path = <<>>
      <3>1. q = [x EXCEPT !.pc = "type", !.stack = <<Root>>]
        BY <1>1, <1>4, <1>5, <2>4 DEF Update
      <3>2. QED  BY <1>3, <2>4, <3>1
    <2>5. QED  BY <2>1, <2>2, <2>3, <2>4
  <1>7. QED  BY <1>1, <1>5, <1>6 DEF Request, At, db

-----------------------------------------------------------------------------
(* What get_next_child returns outside netif.c.                            *)

\* The root has the branches for its children...
LEMMA RootNextIs ==
    ASSUME NEW n, n.ops = "root", NEW c, NEW seen, NEW cur,
           NEW s, s = NextChild(n, c, seen, cur)
    PROVE  \/ s.node = [n EXCEPT !.idx = @ + 1] /\ s.cursor = cur
                /\ s.child = FlNode(n.idx, 0, 1)
           \/ s.node = n /\ s.child = NullNode /\ s.cursor = cur
  BY DEF NextChild, RootNextChild, Step

\* ...a branch its entries, and then its subtree...
LEMMA FlNextIs ==
    ASSUME NEW n \in WrittenNodes, n.ops = "fl", NEW c, NEW seen, NEW cur,
           NEW s, s = NextChild(n, c, seen, cur)
    PROVE  \/ s.node = n /\ s.child = NullNode /\ s.cursor = cur
           \/ /\ n.is_root = 1 /\ s.node = [n EXCEPT !.sub_idx = @ + 1]
              /\ \/ s.child = FlNode(n.fl_idx, n.sub_idx, 0) /\ s.cursor = cur
                 \/ \E kind \in {"ps", "netif", "devices"} :
                        /\ s.child = DynamicNode(kind)
                        /\ s.cursor = DynamicCursor(kind, cur)
                        /\ kind \in ToSet(FlEntry(n).dynamic)
  <1>1. PICK e : e = FlEntry(n)
    OBVIOUS
  <1>2. PICK i \in 0 .. Len(db_index) - 1, k \in 0 .. 6, r \in 0 .. 1 :
            n = FlNode(i, k, r)
    BY Kinds
  <1>3. r \in {0, 1} /\ n.is_root = r
    BY <1>2 DEF FlNode
  <1>4. e \in Branches
    BY <1>1, <1>2, Index DEF FlEntry, FlNode
  <1>5. \A d \in 1 .. Len(e.dynamic) :
            e.dynamic[d] \in {"ps", "netif", "devices"} /\ e.dynamic[d] \in ToSet(e.dynamic)
    <2>1. PICK len \in 0 .. 1 : len = Len(e.dynamic)
      BY <1>4, Entries
    <2>2. e.dynamic \in {<<>>, <<"ps">>, <<"netif">>, <<"devices">>}
      BY <1>4 DEF Branches, Board, Runtime, Network, Saul
    <2>3. \A d \in 1 .. Len(e.dynamic) : e.dynamic[d] \in ToSet(e.dynamic)
      BY <2>2 DEF ToSet
    <2>4. QED  BY <1>4, <2>1, <2>3, Entries
  <1>6. s = FlNextChild(n, cur)
    BY DEF NextChild
  <1>7. PICK dyn, next :
          /\ dyn = n.sub_idx - Len(e.static) + 1
          /\ next = [n EXCEPT !.sub_idx = @ + 1]
    OBVIOUS
  <1>8. /\ r = 0 => s = Step(n, NullNode, cur)
        /\ r = 1 /\ dyn <= 0 => s = Step(next, FlNode(n.fl_idx, n.sub_idx, 0), cur)
        /\ r = 1 /\ dyn \in 1 .. Len(e.dynamic) =>
              s = Step(next, DynamicNode(e.dynamic[dyn]),
                       DynamicCursor(e.dynamic[dyn], cur))
        /\ r = 1 /\ ~(dyn <= 0) /\ dyn \notin 1 .. Len(e.dynamic) =>
              s = Step(n, NullNode, cur)
    <2>1. dyn \in Int
      <3>1. n.sub_idx \in Int
        BY <1>2 DEF FlNode
      <3>2. PICK len \in 1 .. 5 : len = Len(e.static)
        BY <1>4, Entries
      <3>3. QED  BY <1>7, <3>1, <3>2
    <2>2. dyn <= 0 => dyn \notin 1 .. Len(e.dynamic)
      BY <2>1
    <2>3. QED  BY <1>1, <1>3, <1>6, <1>7, <2>2 DEF FlNextChild
  <1>9. ASSUME NEW a, NEW b, NEW x, s = Step(a, b, x)
        PROVE  s.node = a /\ s.child = b /\ s.cursor = x
    BY <1>9 DEF Step
  <1>10. CASE r = 0 \/ (~(dyn <= 0) /\ dyn \notin 1 .. Len(e.dynamic))
    BY <1>3, <1>8, <1>9, <1>10
  <1>11. CASE r = 1 /\ dyn <= 0
    BY <1>3, <1>7, <1>8, <1>9, <1>11
  <1>12. CASE r = 1 /\ dyn \in 1 .. Len(e.dynamic)
    <2>1. PICK kind : kind = e.dynamic[dyn]
      OBVIOUS
    <2>2. /\ s.node = next /\ s.child = DynamicNode(kind)
          /\ s.cursor = DynamicCursor(kind, cur)
      BY <1>8, <1>9, <1>12, <2>1
    <2>3. kind \in {"ps", "netif", "devices"} /\ kind \in ToSet(e.dynamic)
      BY <1>5, <1>12, <2>1
    <2>4. n.is_root = 1
      BY <1>3, <1>12
    <2>5. QED  BY <1>1, <1>7, <2>2, <2>3, <2>4
  <1>13. QED  BY <1>3, <1>10, <1>11, <1>12

\* ...a subtree of /runtime/ps the threads, a thread its fields...
LEMMA PsLevels ==
    ASSUME NEW p \in Int, NEW c, NEW seen, NEW cur
    PROVE  /\ NextChild(PsNode(p, 2), c, seen, cur) =
                  IF p <= PidLast THEN Step(PsNode(NextPid(p), 2), PsNode(p, 1), cur)
                  ELSE Step(PsNode(p, 2), NullNode, cur)
           /\ NextChild(PsNode(p, 1), c, seen, cur) =
                  IF p <= PidLast /\ seen.ps < 5
                  THEN Step(PsNode(NextPid(p), 0), PsNode(p, 0), cur)
                  ELSE Step(PsNode(p, 1), c, cur)
           /\ NextChild(PsNode(p, 0), c, seen, cur) =
                  IF seen.ps = 4 THEN Step(PsNode(p, 0), NullNode, WithPs(cur, 0))
                  ELSE Step(PsNode(p, 0), c, WithPs(cur, IncInt8(cur.ps)))
  <1>1. \A r : /\ PsNode(p, r).ops = "ps" /\ PsNode(p, r).is_root = r
               /\ PsNode(p, r).pid = p
               /\ [PsNode(p, r) EXCEPT !.pid = NextPid(@)] = PsNode(NextPid(p), r)
    BY DEF PsNode
  <1>2. \A r : NextChild(PsNode(p, r), c, seen, cur) = PsNextChild(PsNode(p, r), c, seen, cur)
    BY <1>1 DEF NextChild
  <1>3. Len(PsFields) = 5
    BY DEF PsFields
  <1>4. AtLastField(seen) <=> seen.ps = 4
    BY <1>3 DEF AtLastField
  <1>5. PsNextChild(PsNode(p, 2), c, seen, cur) =
            IF p <= PidLast THEN Step(PsNode(NextPid(p), 2), PsNode(p, 1), cur)
            ELSE Step(PsNode(p, 2), NullNode, cur)
    <2>1. PidLast \in Nat
      BY DbAssumption
    <2>2. p > PidLast <=> ~(p <= PidLast)
      BY <2>1
    <2>3. QED  BY <1>1, <2>2 DEF PsNextChild
  <1>6. PsNextChild(PsNode(p, 1), c, seen, cur) =
            IF p <= PidLast /\ seen.ps < 5
            THEN Step(PsNode(NextPid(p), 0), PsNode(p, 0), cur)
            ELSE Step(PsNode(p, 1), c, cur)
    BY <1>1, <1>3 DEF PsNextChild, PsFieldsBegin
  <1>7. PsNextChild(PsNode(p, 0), c, seen, cur) =
            IF seen.ps = 4 THEN Step(PsNode(p, 0), NullNode, WithPs(cur, 0))
            ELSE Step(PsNode(p, 0), c, WithPs(cur, IncInt8(cur.ps)))
    BY <1>1, <1>4 DEF PsNextChild, PsFieldsEnd, WithPs
  <1>8. QED  BY <1>2, <1>5, <1>6, <1>7

\* ...and that of /saul/devices the devices, a device its one field.
LEMMA SaulLevels ==
    ASSUME NEW d, NEW c, NEW seen, NEW cur
    PROVE  /\ NextChild(SaulNode(d, 2), c, seen, cur) =
                  IF d # NULL THEN Step(SaulNode(DeviceNext(d), 2), SaulNode(d, 1), cur)
                  ELSE Step(SaulNode(d, 2), NullNode, cur)
           /\ NextChild(SaulNode(d, 1), c, seen, cur) =
                  IF d # NULL /\ seen.saul < 1
                  THEN Step(SaulNode(DeviceNext(d), 0), SaulNode(d, 0), cur)
                  ELSE Step(SaulNode(d, 1), c, cur)
           /\ NextChild(SaulNode(d, 0), c, seen, cur) =
                  IF seen.saul = 0 THEN Step(SaulNode(d, 0), NullNode, WithSaul(cur, 0))
                  ELSE Step(SaulNode(d, 0), c, WithSaul(cur, IncInt8(cur.saul)))
  <1>1. \A r : /\ SaulNode(d, r).ops = "saul" /\ SaulNode(d, r).is_root = r
               /\ SaulNode(d, r).dev = d
               /\ [SaulNode(d, r) EXCEPT !.dev = DeviceNext(@)] = SaulNode(DeviceNext(d), r)
    BY DEF SaulNode
  <1>2. \A r : NextChild(SaulNode(d, r), c, seen, cur) =
                  SaulNextChild(SaulNode(d, r), c, seen, cur)
    BY <1>1 DEF NextChild
  <1>3. SaulNextChild(SaulNode(d, 2), c, seen, cur) =
            IF d # NULL THEN Step(SaulNode(DeviceNext(d), 2), SaulNode(d, 1), cur)
            ELSE Step(SaulNode(d, 2), NullNode, cur)
    BY <1>1 DEF SaulNextChild
  <1>4. SaulNextChild(SaulNode(d, 1), c, seen, cur) =
            IF d # NULL /\ seen.saul < 1
            THEN Step(SaulNode(DeviceNext(d), 0), SaulNode(d, 0), cur)
            ELSE Step(SaulNode(d, 1), c, cur)
    BY <1>1 DEF SaulNextChild
  <1>5. SaulNextChild(SaulNode(d, 0), c, seen, cur) =
            IF seen.saul = 0 THEN Step(SaulNode(d, 0), NullNode, WithSaul(cur, 0))
            ELSE Step(SaulNode(d, 0), c, WithSaul(cur, IncInt8(cur.saul)))
    BY <1>1 DEF SaulNextChild, WithSaul
  <1>6. QED  BY <1>2, <1>3, <1>4, <1>5

-----------------------------------------------------------------------------
(* The neighbours counted.                                                 *)

\* Outside netif.c a call leaves _num_neighbours alone.
AtQos(n) == OfNetif(n) /\ n.is_root = 0

\* A call outside netif.c leaves _num_neighbours alone and makes no field of a
\* neighbour.
LEMMA OutsideNum ==
    ASSUME NEW n \in WrittenNodes, ~OfNetif(n), NEW c, NEW seen, NEW cur \in CursorSet,
           NEW s, s = NextChild(n, c, seen, cur)
    PROVE  s.cursor.num = cur.num /\ ~OfNetif(s.node) /\ (s.child = c \/ ~AtQos(s.child))
  <1>1. n.ops \in {"root", "fl", "ps", "saul"}
    BY Kinds DEF OfNetif
  <1>2. /\ ~AtQos(NullNode)
        /\ \A i, k, r : ~AtQos(FlNode(i, k, r))
        /\ \A p, r : ~AtQos(PsNode(p, r)) /\ ~AtQos(SaulNode(p, r))
        /\ \A p, r : ~OfNetif(PsNode(p, r)) /\ ~OfNetif(SaulNode(p, r))
    BY DEF AtQos, OfNetif, NullNode, FlNode, PsNode, SaulNode
  <1>3. /\ \A x : WithPs(cur, x).num = cur.num
        /\ \A x : WithSaul(cur, x).num = cur.num
        /\ \A kind : DynamicCursor(kind, cur).num = cur.num
    BY DEF CursorSet, WithPs, WithSaul, DynamicCursor
  <1>4. CASE n.ops = "root"
    <2>1. PICK i : n = RootNode(i)
      BY <1>4, Kinds
    <2>2. ~OfNetif([n EXCEPT !.idx = @ + 1])
      BY <2>1 DEF RootNode, OfNetif
    <2>3. QED  BY <1>2, <1>4, <2>2, RootNextIs
  <1>5. CASE n.ops = "fl"
    <2>1. PICK i, k, r : n = FlNode(i, k, r)
      BY <1>5, Kinds
    <2>2. ~OfNetif([n EXCEPT !.sub_idx = @ + 1])
      BY <2>1 DEF FlNode, OfNetif
    <2>3. \A kind \in {"ps", "netif", "devices"} : ~AtQos(DynamicNode(kind))
      BY <1>2 DEF DynamicNode, NetifNode, AtQos
    <2>4. \/ s.node = n /\ s.child = NullNode /\ s.cursor = cur
          \/ /\ s.node = [n EXCEPT !.sub_idx = @ + 1]
             /\ \/ s.child = FlNode(n.fl_idx, n.sub_idx, 0) /\ s.cursor = cur
                \/ \E kind \in {"ps", "netif", "devices"} :
                       /\ s.child = DynamicNode(kind)
                       /\ s.cursor = DynamicCursor(kind, cur)
      BY <1>5, FlNextIs
    <2>5. QED  BY <1>2, <1>3, <2>2, <2>3, <2>4
  <1>6. CASE n.ops = "ps"
    <2>1. PICK p \in 1 .. PidLast + 1, r \in 0 .. 2 : n = PsNode(p, r)
      BY <1>6, Kinds
    <2>2. s = NextChild(PsNode(p, r), c, seen, cur) /\ p \in Int
      BY <2>1
    <2>3. CASE r = 2
      BY <1>2, <2>2, <2>3, PsLevels, StepIs
    <2>4. CASE r = 1
      BY <1>2, <2>2, <2>4, PsLevels, StepIs
    <2>5. CASE r = 0
      BY <1>2, <1>3, <2>2, <2>5, PsLevels, StepIs
    <2>6. QED  BY <2>1, <2>3, <2>4, <2>5
  <1>7. CASE n.ops = "saul"
    <2>1. PICK d \in 0 .. Len(DeviceName), r \in 0 .. 2 : n = SaulNode(d, r)
      BY <1>7, Kinds
    <2>2. s = NextChild(SaulNode(d, r), c, seen, cur)
      BY <2>1
    <2>3. CASE r = 2
      BY <1>2, <2>2, <2>3, SaulLevels, StepIs
    <2>4. CASE r = 1
      BY <1>2, <2>2, <2>4, SaulLevels, StepIs
    <2>5. CASE r = 0
      BY <1>2, <1>3, <2>2, <2>5, SaulLevels, StepIs
    <2>6. QED  BY <2>1, <2>3, <2>4, <2>5
  <1>8. QED  BY <1>1, <1>4, <1>5, <1>6, <1>7

\* Below it, it is only counted down, and not below 0: a call that works on the
\* fields of a neighbour has one to count.
LEMMA NetifNum ==
    ASSUME NEW n \in WrittenNodes, OfNetif(n), NEW c, NEW cur \in CursorSet,
           AtQos(n) => cur.num > 0, NEW s, s = NextChild(n, c, cur, cur)
    PROVE  /\ s.cursor.num <= cur.num
           /\ s.child # NullNode =>
                 \/ s.cursor.num > 0
                 \/ /\ ~AtQos(s.node)
                    /\ ~AtQos(s.child) \/ (s.child = c /\ s.cursor.num = cur.num)
  <1>1. s = NetifNextChild(n, c, cur, cur)
    BY DEF NextChild, OfNetif
  <1>2. PICK i, k : n = NetifNode(i, k) /\ k \in 0 .. 4
    BY Kinds DEF OfNetif
  <1>3. /\ \A j, r : AtQos(NetifNode(j, r)) <=> r = 0
        /\ ~AtQos(NullNode)
    BY DEF AtQos, OfNetif, NetifNode, NullNode
  <1>4. /\ \A x : WithSub(cur, x).num = cur.num /\ WithField(cur, x).num = cur.num
        /\ \A x, y : WithNum(cur, x, y).num = x
        /\ cur.num \in Nat
    <2>1. PICK v \in 0 .. 255 : v = cur.num
      BY CursorFields DEF Uint8
    <2>2. \A x : WithSub(cur, x).num = cur.num /\ WithField(cur, x).num = cur.num
      BY DEF CursorSet, WithSub, WithField
    <2>3. \A x, y : WithNum(cur, x, y).num = x
      BY DEF CursorSet, WithNum
    <2>4. v \in Nat
      BY <2>1
    <2>5. cur.num \in Nat
      BY <2>1, <2>4
    <2>6. QED  BY ONLY <2>2, <2>3, <2>5, Zenon
  <1>5. cur.num > 0 => DecUint8(cur.num) = cur.num - 1
    <2>1. PICK v \in 0 .. 255 : v = cur.num
      BY CursorFields DEF Uint8
    <2>2. \A x \in 1 .. 255 : DecUint8(x) = x - 1
      BY DEF DecUint8
    <2>3. v > 0 => v \in 1 .. 255
      BY <2>1
    <2>4. QED  BY <2>1, <2>2, <2>3
  <1>6. ASSUME cur.num > 0, NEW r, s = NextNeighbour(NetifNode(i, r), cur)
        PROVE  /\ s.cursor.num <= cur.num
               /\ s.child # NullNode => s.cursor.num > 0
    <2>1. PICK left \in Nat : left = cur.num - 1 /\ left = DecUint8(cur.num)
      BY <1>4, <1>5, <1>6
    <2>2. s = IF left = 0
              THEN Step(NetifNode(i, r), NullNode, WithNum(cur, 0, 1))
              ELSE Step(NetifNode(i, 1), NetifNode(i, 1), WithNum(cur, left, 2))
      BY <1>6, <2>1, NeighbourEnds
    <2>3. CASE left = 0
      <3>1. s.cursor = WithNum(cur, 0, 1) /\ s.child = NullNode
        BY <2>2, <2>3, StepIs
      <3>2. QED  BY <1>4, <3>1
    <2>4. CASE left # 0
      <3>1. s.cursor = WithNum(cur, left, 2)
        BY <2>2, <2>4, StepIs
      <3>2. s.cursor.num = left
        BY <1>4, <3>1
      <3>3. QED  BY <1>4, <2>1, <2>4, <3>2
    <2>5. QED  BY <2>3, <2>4
  <1>7. CASE k = 4
    BY <1>1, <1>2, <1>3, <1>4, <1>7, NetifLevel4, StepIs
  <1>8. CASE k = 3
    BY <1>1, <1>2, <1>3, <1>4, <1>8, NetifLevel3, StepIs
  <1>9. CASE k = 2
    <2>1. s = IF cur.field = 4 /\ i # NULL /\ cur.num > 0
              THEN Step(NetifNode(i, 1), NetifNode(i, 1),
                        WithSub(cur, IncUint8(cur.sub)))
              ELSE IF cur.field < 4
              THEN Step(NetifNode(i, 2), c, WithField(cur, IncUint8(cur.field)))
              ELSE Step(NetifNode(i, 2), NullNode, cur)
      BY <1>1, <1>2, <1>9, NetifLevel2
    <2>2. QED  BY <1>3, <1>4, <2>1, StepIs
  <1>10. CASE k = 1
    <2>1. s = IF cur.num = 0
              THEN Step(NetifNode(i, 1), NullNode, WithSub(cur, 1))
              ELSE IF cur.sub = 1
              THEN Step(NetifNode(i, 1), NetifNode(i, 1),
                        WithSub(cur, IncUint8(cur.sub)))
              ELSE IF cur.sub < 4
              THEN Step(NetifNode(i, 0), NetifNode(i, 0), cur)
              ELSE NextNeighbour(NetifNode(i, 1), cur)
      BY <1>1, <1>2, <1>10, NetifLevel1
    <2>2. CASE cur.num = 0
      BY <1>3, <1>4, <2>1, <2>2, StepIs
    <2>3. CASE cur.num # 0 /\ cur.sub = 1
      BY <1>3, <1>4, <2>1, <2>3, StepIs
    <2>4. CASE cur.num # 0 /\ cur.sub # 1 /\ cur.sub < 4
      <3>1. s.cursor = cur
        BY <2>1, <2>4, StepIs
      <3>2. QED  BY <1>4, <2>4, <3>1
    <2>5. CASE cur.num # 0 /\ cur.sub # 1 /\ ~(cur.sub < 4)
      <3>1. s = NextNeighbour(NetifNode(i, 1), cur)
        BY <2>1, <2>5
      <3>2. cur.num > 0
        BY <1>4, <2>5
      <3>3. QED  BY <1>6, <3>1, <3>2
    <2>6. QED  BY <2>2, <2>3, <2>4, <2>5
  <1>11. CASE k = 0
    <2>1. s = IF cur.sub < 4
              THEN Step(NetifNode(i, 0), c, WithSub(cur, IncUint8(cur.sub)))
              ELSE IF cur.sub = 4 /\ cur.num # 0
              THEN Step(NetifNode(i, 0), NullNode,
                        WithSub(cur, IncUint8(cur.sub)))
              ELSE NextNeighbour(NetifNode(i, 0), cur)
      BY <1>1, <1>2, <1>11, NetifLevel0
    <2>2. cur.num > 0
      BY <1>2, <1>3, <1>11
    <2>3. CASE cur.sub < 4
      <3>1. s.cursor = WithSub(cur, IncUint8(cur.sub))
        BY <2>1, <2>3, StepIs
      <3>2. s.cursor.num = cur.num
        BY <1>4, <3>1
      <3>3. QED  BY <1>4, <2>2, <3>2
    <2>4. CASE ~(cur.sub < 4) /\ cur.sub = 4 /\ cur.num # 0
      <3>1. s.cursor = WithSub(cur, IncUint8(cur.sub)) /\ s.child = NullNode
        BY <2>1, <2>4, StepIs
      <3>2. QED  BY <1>4, <3>1
    <2>5. CASE ~(cur.sub < 4) /\ ~(cur.sub = 4 /\ cur.num # 0)
      <3>1. s = NextNeighbour(NetifNode(i, 0), cur)
        BY <2>1, <2>5
      <3>2. QED  BY <1>6, <2>2, <3>1
    <2>6. QED  BY <2>3, <2>4, <2>5
  <1>12. QED  BY <1>2, <1>7, <1>8, <1>9, <1>10, <1>11

\* So no call of get_next_child counts up, and a field of a neighbour has one to
\* count.
LEMMA NextNum ==
    ASSUME NEW n \in WrittenNodes, NEW c, NEW cur \in CursorSet,
           AtQos(n) => cur.num > 0, NEW s, s = NextChild(n, c, cur, cur)
    PROVE  /\ s.cursor.num <= cur.num
           /\ s.child # NullNode /\ (AtQos(c) => cur.num > 0) =>
                 (AtQos(s.node) \/ AtQos(s.child) => s.cursor.num > 0)
  <1>1. cur.num \in Nat
    BY CursorFields DEF Uint8
  <1>2. CASE ~OfNetif(n)
    <2>1. s.cursor.num = cur.num /\ ~OfNetif(s.node) /\ (s.child = c \/ ~AtQos(s.child))
      BY <1>2, OutsideNum
    <2>2. QED  BY <1>1, <2>1 DEF AtQos
  <1>3. CASE OfNetif(n) /\ AtQos(n)
    <2>1. QED  BY <1>3, NetifNum
  <1>4. CASE OfNetif(n) /\ ~AtQos(n)
    <2>1. /\ s.cursor.num <= cur.num
          /\ s.child # NullNode =>
                 \/ s.cursor.num > 0
                 \/ /\ ~AtQos(s.node)
                    /\ ~AtQos(s.child) \/ (s.child = c /\ s.cursor.num = cur.num)
      BY <1>4, NetifNum
    <2>2. QED  BY <2>1
  <1>5. QED  BY <1>2, <1>3, <1>4

\* The neighbour the task t has counted and not yet entered.
Entering(t) == IF task[t].pc = "add" THEN {task[t].nce} ELSE {}

\* _num_neighbours is not more than the neighbours met, unless one was met twice;
\* these are on the list, unless the list has lost one, or about to be put there.
Tally(t) ==
    /\ DOMAIN count = {"met", "twice", "lost"} /\ IsFiniteSet(count.met)
    /\ ~count.twice => cursor.num <= Cardinality(count.met)
    /\ ~count.lost => count.met \subseteq ToSet(list) \cup Entering(t)
    /\ task[t].pc = "add" /\ ins[t].step # "none" => ins[t].addr = task[t].nce

\* A query or listing that stands at the fields of a neighbour has one to count.
QosCounted(r, num) ==
    r.cmd # "dcadump" /\ r.pc \in {"lookup", "match", "type", "list", "show"} =>
        /\ Len(r.stack) = IF r.pc = "type" THEN 1 ELSE 2
        /\ AtQos(r.stack[1]) => num > 0
        /\ r.pc # "type" => (AtQos(r.stack[2]) => num > 0)

\* So has a dump that goes on there.
DumpCounted(r, num) ==
    r.cmd = "dcadump" /\ r.pc = "list" => (AtQos(r.stack[Len(r.stack) - 1]) => num > 0)

\* A counter is a natural number.
LEMMA NumIsNat ==
    ASSUME ShapeInv
    PROVE  cursor.num \in Nat /\ cursor.num \in Uint8 /\ cursor \in CursorSet
  <1>1. Uint8 \subseteq Nat
    BY DEF Uint8
  <1>2. QED  BY <1>1, CursorFields DEF ShapeInv

\* There are no more addresses on a list than the list is long.
LEMMA ListSize ==
    ASSUME NEW S, NEW l \in Seq(S)
    PROVE  /\ IsFiniteSet(ToSet(l)) /\ Cardinality(ToSet(l)) \in Nat
           /\ Cardinality(ToSet(l)) <= Len(l)
  <1>1. PICK n \in Nat : n = Len(l) /\ DOMAIN l = 1 .. n
    OBVIOUS
  <1>2. l \in Surjection(1 .. n, ToSet(l))
    BY <1>1 DEF Surjection, ToSet
  <1>3. IsFiniteSet(1 .. n) /\ Cardinality(1 .. n) = n
    <2>1. n \in Int /\ 1 \in Int
      BY <1>1
    <2>2. (IF 1 > n THEN 0 ELSE n - 1 + 1) = n
      BY <1>1
    <2>3. QED  BY <2>1, <2>2, FS_Interval
  <1>4. IsFiniteSet(ToSet(l)) /\ Cardinality(ToSet(l)) <= n
    BY <1>2, <1>3, FS_Surjection
  <1>5. QED  BY <1>1, <1>4, FS_CardinalityType

\* The head of a list is on it.
LEMMA HeadListed ==
    ASSUME NEW S, NEW l \in Seq(S), NEW a \in S
    PROVE  a \in ToSet(<<a>> \o l)
  <1>1. PICK n : n = <<a>> \o l
    OBVIOUS
  <1>2. 1 \in DOMAIN n /\ n[1] = a
    BY <1>1
  <1>3. QED  BY <1>1, <1>2 DEF ToSet

-----------------------------------------------------------------------------
(* The steps that keep _num_neighbours within the list.                    *)

\* A step that counts nothing and enters nothing.
LEMMA TallyLess ==
    ASSUME ShapeInv, ShapeInv', NEW t \in Tasks, Tally(t),
           UNCHANGED <<list, ins, count>>, cursor'.num <= cursor.num,
           \/ task[t].pc # "add" /\ task'[t].pc # "add"
           \/ task'[t] = task[t]
    PROVE  Tally(t)'
  <1>1. PICK m, n, o : m = cursor'.num /\ n = cursor.num /\ o = Cardinality(count.met)
    OBVIOUS
  <1>2. m \in Nat /\ n \in Nat /\ o \in Nat
    <2>1. m \in Uint8 /\ n \in Uint8
      BY <1>1, CursorFields DEF ShapeInv
    <2>2. o \in Nat
      BY <1>1, FS_CardinalityType DEF Tally
    <2>3. QED  BY <2>1, <2>2 DEF Uint8
  <1>3. ~count.twice => m <= o
    BY <1>1, <1>2 DEF Tally
  <1>4. Entering(t)' = Entering(t)
    BY DEF Entering
  <1>5. task'[t].pc = "add" => task'[t] = task[t]
    OBVIOUS
  <1>6. QED  BY <1>1, <1>3, <1>4, <1>5 DEF Tally

\* A neighbour is counted.
LEMMA TallyCounts ==
    ASSUME ShapeInv, AddressInv, NEW t \in Tasks, Tally(t), Count(t)
    PROVE  Tally(t)'
  <1>1. PICK a : /\ task'[t].pc = "add" /\ task'[t].nce = a
                 /\ count' = [count EXCEPT !.met = @ \cup {a},
                                          !.twice = @ \/ a \in count.met]
    <2>1. DOMAIN task = Tasks /\ DOMAIN task[t] = TaskFields
      BY DEF ShapeInv, Shape
    <2>2. QED  BY <2>1 DEF Count, Update, TaskFields
  <1>2. /\ count'.met = count.met \cup {a} /\ count'.lost = count.lost
        /\ ~count'.twice => ~count.twice /\ a \notin count.met
    BY <1>1 DEF Tally
  <1>3. /\ list' = list /\ cursor'.num = IncUint8(cursor.num)
        /\ task[t].pc = "count" /\ ins'[t] = ins[t]
    BY NumIsNat DEF Count, At, CursorSet
  <1>4. IsFiniteSet(count'.met)
    BY <1>2, FS_AddElement DEF Tally
  <1>5. ASSUME ~count'.twice
        PROVE  cursor'.num <= Cardinality(count'.met)
    <2>1. PICK n, o : n = cursor.num /\ o = Cardinality(count.met)
      OBVIOUS
    <2>2. n \in Nat /\ o \in Nat
      BY <2>1, NumIsNat, FS_CardinalityType DEF Tally
    <2>3. n <= o /\ Cardinality(count'.met) = o + 1
      BY <1>2, <1>5, <2>1, FS_AddElement DEF Tally
    <2>4. IncUint8(n) <= n + 1 /\ IncUint8(n) \in Nat
      BY <2>2 DEF IncUint8
    <2>5. IncUint8(n) <= o + 1
      BY <2>2, <2>3, <2>4
    <2>6. QED  BY <1>3, <2>1, <2>3, <2>5
  <1>6. ASSUME ~count'.lost
        PROVE  count'.met \subseteq ToSet(list') \cup Entering(t)'
    <2>1. Entering(t) = {} /\ Entering(t)' = {a}
      BY <1>1, <1>3 DEF Entering
    <2>2. count.met \subseteq ToSet(list)
      BY <1>2, <1>6, <2>1 DEF Tally
    <2>3. QED  BY <1>2, <1>3, <2>1, <2>2
  <1>7. ins'[t].step = "none"
    <2>1. Settled
      BY DEF ShapeInv
    <2>2. QED  BY <1>3, <2>1 DEF Settled
  <1>8. DOMAIN count' = {"met", "twice", "lost"}
    BY <1>1 DEF Tally
  <1>9. QED  BY <1>4, <1>5, <1>6, <1>7, <1>8 DEF Tally

\* A counting starts.
LEMMA TallyStarts ==
    ASSUME ShapeInv, NEW t \in Tasks, cursor' = [cursor EXCEPT !.num = 0],
           count' = NewCount, task'[t].pc = "count"
    PROVE  Tally(t)'
  <1>1. cursor'.num = 0
    BY NumIsNat DEF CursorSet
  <1>2. count'.met = {} /\ DOMAIN count' = {"met", "twice", "lost"}
    BY DEF NewCount
  <1>3. IsFiniteSet({}) /\ Cardinality({}) = 0
    BY FS_EmptySet
  <1>4. QED  BY <1>1, <1>2, <1>3 DEF Tally

\* A thread inserts: it may be another one than t, and lose what t has entered.
LEMMA TallyInserts ==
    ASSUME ShapeInv, AddressInv, NEW t \in Tasks, Tally(t),
           NEW u \in Tasks, Add(u) \/ Link(u) \/ Publish(u)
    PROVE  Tally(t)'
  <1>1. /\ cursor' = cursor /\ DOMAIN task = Tasks /\ DOMAIN ins = Tasks
        /\ DOMAIN ins[t] = {"step", "addr", "rest"}
        /\ DOMAIN task[t] = TaskFields
    BY InsertionIs DEF ShapeInv, Settled, Shape
  <1>2. CASE Add(u)
    <2>1. count' = count /\ list' = list
      BY <1>2 DEF Add
    <2>2. CASE u # t
      <3>1. task'[t] = task[t] /\ ins'[t] = ins[t]
        BY <1>1, <1>2, <2>2 DEF Add, Update
      <3>2. QED  BY <1>1, <2>1, <3>1 DEF Tally, Entering
    <2>3. CASE u = t /\ Listed(task[t].nce)
      <3>1. task'[t].pc = "count"
        BY <1>1, <1>2, <2>3 DEF Add, Update, CountOn, TaskFields
      <3>2. task[t].nce \in ToSet(list)
        BY <2>3 DEF Listed, ToSet
      <3>3. Entering(t) \subseteq ToSet(list) /\ Entering(t)' = {}
        BY <3>1, <3>2 DEF Entering
      <3>4. QED  BY <1>1, <2>1, <3>1, <3>3 DEF Tally
    <2>4. CASE u = t /\ ~Listed(task[t].nce)
      <3>1. task'[t] = task[t] /\ ins'[t].addr = task[t].nce
        BY <1>1, <1>2, <2>4 DEF Add
      <3>2. QED  BY <1>1, <2>1, <3>1 DEF Tally, Entering
    <2>5. QED  BY <2>2, <2>3, <2>4
  <1>3. CASE Link(u)
    <2>1. /\ UNCHANGED <<count, list, task>> /\ ins'[t].addr = ins[t].addr
          /\ ins'[t].step = "none" <=> ins[t].step = "none"
      BY <1>1, <1>3 DEF Link
    <2>2. QED  BY <1>1, <2>1 DEF Tally, Entering
  <1>4. CASE Publish(u)
    <2>1. /\ count'.met = count.met /\ count'.twice = count.twice
          /\ DOMAIN count' = {"met", "twice", "lost"}
          /\ ~count'.lost => ~count.lost /\ ToSet(list) \subseteq ToSet(list')
      BY <1>4 DEF Publish, Tally
    <2>2. CASE task'[t] = task[t] /\ (u = t => task[t].pc # "add")
      <3>1. Entering(t)' = Entering(t)
        BY <2>2 DEF Entering
      <3>2. ins'[t] = ins[t] \/ task'[t].pc # "add"
        BY <1>1, <1>4, <2>2 DEF Publish
      <3>3. QED  BY <1>1, <2>1, <2>2, <3>1, <3>2 DEF Tally
    <2>3. CASE u = t /\ task[t].pc = "add"
      <3>1. task'[t].pc = "count"
        BY <1>1, <1>4, <2>3 DEF Publish, Update, CountOn, TaskFields
      <3>2. task[t].nce \in ToSet(list')
        <4>1. ins[t].step = "publish" /\ list' = <<ins[t].addr>> \o ins[t].rest
          BY <1>4, <2>3 DEF Publish
        <4>2. ins[t].addr = task[t].nce
          BY <2>3, <4>1 DEF Tally
        <4>3. ins[t].addr \in Addresses /\ ins[t].rest \in Seq(Addresses)
          BY <4>1 DEF AddressInv, Holds
        <4>4. QED  BY <4>1, <4>2, <4>3, HeadListed
      <3>3. Entering(t) \subseteq ToSet(list') /\ Entering(t)' = {}
        BY <2>3, <3>1, <3>2 DEF Entering
      <3>4. ~count'.lost => count'.met \subseteq ToSet(list') \cup Entering(t)'
        BY <2>1, <3>3 DEF Tally
      <3>5. QED  BY <1>1, <2>1, <3>1, <3>4 DEF Tally
    <2>4. u # t \/ task[t].pc # "add" => task'[t] = task[t]
      BY <1>1, <1>4 DEF Publish, Update
    <2>5. QED  BY <2>2, <2>3, <2>4
  <1>5. QED  BY <1>2, <1>3, <1>4

\* The task t counts down only.
Numbers(t) ==
    /\ QosCounted(task'[t], cursor'.num)
    /\ cursor'.num <= cursor.num /\ task'[t].pc # "add"

\* The calls of get_next_child.
LEMMA NumberedNext ==
    ASSUME ShapeInv, AddressInv, NEW t \in Tasks, task[t].seen = <<>>,
           QosCounted(task[t], cursor.num), DumpCounted(task[t], cursor.num),
           Lookup(t) \/ List(t)
    PROVE  Numbers(t)
  <1>1. PICK r, q : r = task[t] /\ Shape(r) /\ r.pc \in {"lookup", "list"} /\ q = task'[t]
    BY DEF ShapeInv, Lookup, List, At
  <1>2. PICK n \in Nat : n = Len(r.stack)
    BY <1>1 DEF Shape
  <1>3. PICK a, c, s : a = r.stack[n - 1] /\ c = r.stack[n] /\ s = NextOf(r)
                       /\ s = NextChild(a, c, cursor, cursor)
    BY <1>2 DEF NextOf
  <1>4. a \in WrittenNodes /\ n >= 2 /\ cursor \in CursorSet
    <2>1. Node(t) = a /\ Node(t) \in WrittenNodes
      BY <1>1, <1>2, <1>3, TopOfStack
    <2>2. n >= 2
      BY <1>1, <1>2, TopOfStack
    <2>3. QED  BY <2>1, <2>2 DEF ShapeInv
  <1>5. r.cmd # "dcadump" => n = 2
    BY <1>1, <1>2 DEF QosCounted
  <1>6. AtQos(a) => cursor.num > 0
    <2>1. CASE r.cmd = "dcadump"
      <3>1. r.pc = "list"
        BY <1>1, <2>1 DEF Shape, StackOK
      <3>2. QED  BY <1>1, <1>2, <1>3, <2>1, <3>1 DEF DumpCounted
    <2>2. CASE r.cmd # "dcadump"
      <3>1. a = r.stack[1]
        BY <1>3, <1>5, <2>2
      <3>2. QED  BY <1>1, <2>2, <3>1 DEF QosCounted
    <2>3. QED  BY <2>1, <2>2
  <1>7. r.cmd # "dcadump" => (AtQos(c) => cursor.num > 0)
    BY <1>1, <1>3, <1>5 DEF QosCounted
  <1>8. /\ s.cursor.num <= cursor.num
        /\ s.child # NullNode /\ (AtQos(c) => cursor.num > 0) =>
              (AtQos(s.node) \/ AtQos(s.child) => s.cursor.num > 0)
    BY <1>3, <1>4, <1>6, NextNum
  <1>9. /\ cursor' = s.cursor /\ list' = list
        /\ \/ q.pc = "idle"
           \/ /\ To(r, q, "match") \/ To(r, q, "show")
              /\ s.child # NullNode /\ Replaces(q.stack, r.stack, s)
           \/ To(r, q, "list") /\ n > 2
    <2>1. CASE Lookup(t)
      BY <1>1, <1>3, <2>1, LookupIs
    <2>2. CASE List(t)
      BY <1>1, <1>2, <1>3, <2>2, ListIs
    <2>3. QED  BY <2>1, <2>2
  <1>10. q.pc # "add"
    BY <1>9 DEF To
  <1>11. QosCounted(q, cursor'.num)
    <2>1. CASE q.pc = "idle" \/ q.cmd = "dcadump"
      BY <2>1 DEF QosCounted
    <2>2. CASE To(r, q, "list") /\ n > 2
      BY <1>5, <2>1, <2>2 DEF To
    <2>3. CASE /\ To(r, q, "match") \/ To(r, q, "show")
               /\ s.child # NullNode /\ Replaces(q.stack, r.stack, s)
               /\ q.cmd # "dcadump"
      <3>1. n = 2 /\ r.cmd # "dcadump" /\ q.pc \in {"match", "show"}
        BY <1>5, <2>3 DEF To
      <3>2. Len(q.stack) = 2 /\ q.stack[1] = s.node /\ q.stack[2] = s.child
        BY <1>2, <2>3, <3>1 DEF Replaces
      <3>3. AtQos(s.node) \/ AtQos(s.child) => s.cursor.num > 0
        BY <1>7, <1>8, <2>3, <3>1
      <3>4. QED  BY <1>9, <3>1, <3>2, <3>3 DEF QosCounted
    <2>4. QED  BY <1>9, <2>1, <2>2, <2>3
  <1>12. QED  BY <1>1, <1>8, <1>9, <1>10, <1>11 DEF Numbers

\* The steps that work on the node found or reached.
LEMMA NumberedSame ==
    ASSUME ShapeInv, NEW t \in Tasks, task[t].seen = <<>>, QosCounted(task[t], cursor.num),
           \/ Match(t) \/ Type(t) \/ Show(t) \/ ValueToStr(t) \/ CheckType(t)
    PROVE  Numbers(t)
  <1>1. PICK r, q : /\ r = task[t] /\ Shape(r) /\ q = task'[t]
                    /\ r.pc \in {"match", "type", "show", "print", "assert"}
    BY DEF ShapeInv, Match, Type, Show, ValueToStr, CheckType, At
  <1>2. PICK n \in Nat : n = Len(r.stack)
    BY <1>1 DEF Shape
  <1>3. cursor.num <= cursor.num
    BY NumIsNat
  <1>4. ASSUME cursor' = cursor,
               NEW pc \in {"lookup", "match", "type", "list", "show", "print", "assert",
                           "read"}, To(r, q, pc)
        PROVE  cursor'.num <= cursor.num /\ q.pc # "add"
    BY <1>3, <1>4 DEF To
  <1>5. CASE Match(t)
    <2>1. r.pc = "match" /\ r.cmd # "dcadump" /\ n = 2
      BY <1>1, <1>2, <1>5 DEF Match, At, Shape, StackOK
    <2>2. /\ AtQos(r.stack[1]) => cursor.num > 0
          /\ AtQos(r.stack[2]) => cursor.num > 0
      BY <1>1, <2>1 DEF QosCounted
    <2>3. PICK c : c = r.stack[2]
      OBVIOUS
    <2>4. /\ cursor' = cursor /\ list' = list
          /\ \/ To(r, q, "lookup") /\ q.stack \in {r.stack, <<c, c>>}
             \/ To(r, q, "type") /\ q.stack = <<c>>
      BY <1>1, <1>2, <1>5, <2>1, <2>3, MatchIs
    <2>5. QosCounted(q, cursor'.num)
      <3>1. CASE To(r, q, "lookup") /\ q.stack = r.stack
        BY <1>2, <2>1, <2>2, <2>4, <3>1 DEF To, QosCounted
      <3>2. CASE To(r, q, "lookup") /\ q.stack = <<c, c>>
        BY <2>1, <2>2, <2>3, <2>4, <3>2 DEF To, QosCounted
      <3>3. CASE To(r, q, "type") /\ q.stack = <<c>>
        BY <2>1, <2>2, <2>3, <2>4, <3>3 DEF To, QosCounted
      <3>4. QED  BY <2>4, <3>1, <3>2, <3>3
    <2>6. QED  BY <1>1, <1>4, <2>4, <2>5 DEF Numbers
  <1>6. CASE Type(t)
    <2>1. r.pc = "type"
      BY <1>1, <1>6 DEF Type, At
    <2>2. /\ cursor' = cursor /\ list' = list
          /\ \/ To(r, q, "print") /\ q.stack = r.stack
             \/ /\ To(r, q, "list")
                /\ Len(q.stack) = n + 1 /\ q.stack[n + 1] = Uninitialised
                /\ \A i \in 1 .. n : q.stack[i] = r.stack[i]
      BY <1>1, <1>2, <1>6, TypeIs
    <2>3. QosCounted(q, cursor'.num)
      <3>1. CASE To(r, q, "print")
        BY <3>1 DEF To, QosCounted
      <3>2. CASE /\ To(r, q, "list")
                 /\ Len(q.stack) = n + 1 /\ q.stack[n + 1] = Uninitialised
                 /\ \A i \in 1 .. n : q.stack[i] = r.stack[i]
        <4>1. ~AtQos(Uninitialised)
          BY DEF AtQos, OfNetif, Uninitialised
        <4>2. ASSUME q.cmd # "dcadump"
              PROVE  QosCounted(q, cursor'.num)
          <5>1. n = 1 /\ (AtQos(r.stack[1]) => cursor.num > 0)
            BY <1>1, <1>2, <2>1, <3>2, <4>2 DEF To, QosCounted
          <5>2. Len(q.stack) = 2 /\ q.stack[1] = r.stack[1] /\ q.stack[2] = Uninitialised
            BY <3>2, <5>1
          <5>3. QED  BY <2>2, <3>2, <4>1, <5>1, <5>2 DEF To, QosCounted
        <4>3. QED  BY <4>2 DEF QosCounted
      <3>3. QED  BY <2>2, <3>1, <3>2
    <2>4. QED  BY <1>1, <1>4, <2>2, <2>3 DEF Numbers
  <1>7. CASE Show(t)
    <2>1. r.pc = "show"
      BY <1>1, <1>7 DEF Show, At
    <2>2. /\ cursor' = cursor /\ list' = list /\ q.stack = r.stack
          /\ \/ To(r, q, "type") /\ r.cmd = "dcadump"
             \/ To(r, q, "list") /\ r.cmd # "dcadump"
      BY <1>1, <1>7, ShowIs
    <2>3. QosCounted(q, cursor'.num)
      BY <1>1, <2>1, <2>2 DEF To, QosCounted
    <2>4. QED  BY <1>1, <1>4, <2>2, <2>3 DEF Numbers
  <1>8. CASE ValueToStr(t)
    <2>1. /\ cursor' = cursor /\ list' = list
          /\ Prints(r, q) \/ To(r, q, "assert")
      BY <1>1, <1>8, ValueToStrIs
    <2>2. QosCounted(q, cursor'.num)
      BY <2>1 DEF To, Prints, QosCounted
    <2>3. cursor'.num <= cursor.num /\ q.pc # "add"
      BY <1>3, <2>1 DEF To, Prints
    <2>4. QED  BY <1>1, <2>2, <2>3 DEF Numbers
  <1>9. CASE CheckType(t)
    <2>1. cursor' = cursor /\ list' = list /\ To(r, q, "read")
      BY <1>1, <1>9, CheckTypeIs
    <2>2. QosCounted(q, cursor'.num)
      BY <2>1 DEF To, QosCounted
    <2>3. QED  BY <1>1, <1>4, <2>1, <2>2 DEF Numbers
  <1>10. QED  BY <1>5, <1>6, <1>7, <1>8, <1>9

\* The number is printed.
LEMMA NumberedLast ==
    ASSUME ShapeInv, NEW t \in Tasks, task[t].seen = <<>>, Counted(t)
    PROVE  Numbers(t)
  <1>1. cursor' = cursor /\ Prints(task[t], task'[t])
    BY CountedIs
  <1>2. cursor'.num <= cursor.num /\ task'[t].pc # "add"
    BY <1>1, NumIsNat DEF Prints, To
  <1>3. QED  BY <1>1, <1>2 DEF Numbers, Prints, To, QosCounted

\* The task t is the only one to count neighbours.
NumberInv(t) == Tally(t) /\ QosCounted(task[t], cursor.num)

\* The reading of a value, which may count the neighbours.
LEMMA NumberedRead ==
    ASSUME ShapeInv, ShapeInv', AddressInv, NEW t \in Tasks, task[t].seen = <<>>,
           Tally(t), QosCounted(task[t], cursor.num),
           GetValue(t) \/ Count(t) \/ Add(t) \/ Link(t) \/ Publish(t)
    PROVE  Tally(t)' /\ QosCounted(task[t], cursor.num)'
  <1>1. CASE GetValue(t)
    <2>1. /\ list' = list /\ ins' = ins /\ task[t].pc = "read"
          /\ \/ cursor' = cursor /\ Prints(task[t], task'[t]) /\ count' = count
             \/ /\ cursor' = [cursor EXCEPT !.num = 0] /\ count' = NewCount
                /\ To(task[t], task'[t], "count")
      BY <1>1, GetValueIs DEF GetValue, At
    <2>2. CASE cursor' = cursor /\ Prints(task[t], task'[t]) /\ count' = count
      <3>1. cursor'.num <= cursor.num /\ task'[t].pc # "add"
        BY <2>2, NumIsNat DEF Prints, To
      <3>2. Tally(t)'
        BY <2>1, <2>2, <3>1, TallyLess
      <3>3. QED  BY <2>2, <3>2 DEF Prints, To, QosCounted
    <2>3. CASE /\ cursor' = [cursor EXCEPT !.num = 0] /\ count' = NewCount
               /\ To(task[t], task'[t], "count")
      BY <2>3, TallyStarts DEF To, QosCounted
    <2>4. QED  BY <2>1, <2>2, <2>3
  <1>2. CASE Count(t)
    BY <1>2, TallyCounts, CountIs DEF QosCounted
  <1>3. CASE Add(t) \/ Link(t) \/ Publish(t)
    <2>1. QosCounted(task[t], cursor.num)'
      <3>1. CASE Entered(t)
        BY <3>1, EnteredIs DEF To, QosCounted
      <3>2. CASE UNCHANGED <<task, cursor>>
        BY <3>2 DEF QosCounted
      <3>3. QED  BY <1>3, <3>1, <3>2, InsertionIs
    <2>2. QED  BY <1>3, <2>1, TallyInserts
  <1>4. QED  BY <1>1, <1>2, <1>3

\* A command comes in.
LEMMA NumberedRequest ==
    ASSUME ShapeInv, NEW t \in Tasks, Request(t)
    PROVE  Numbers(t)
  <1>1. PICK q : q = task'[t]
    OBVIOUS
  <1>2. /\ cursor' = cursor /\ list' = list /\ task[t].pc = "idle"
        /\ \/ q.pc = "idle"
           \/ /\ q.slot = 0
              /\ \/ q.pc = "show" /\ q.cmd = "dcadump"
                 \/ q.pc = "lookup" /\ q.stack = <<Root, Uninitialised>>
                 \/ q.pc = "type" /\ q.stack = <<Root>>
    BY <1>1, RequestIs
  <1>3. cursor.num <= cursor.num
    BY NumIsNat
  <1>4. cursor'.num <= cursor.num /\ q.pc # "add"
    BY <1>2, <1>3
  <1>5. ~AtQos(Root) /\ ~AtQos(Uninitialised)
    BY DEF AtQos, OfNetif, Root, RootNode, Uninitialised
  <1>6. QosCounted(q, cursor'.num)
    <2>1. CASE q.pc = "idle" \/ q.cmd = "dcadump"
      BY <2>1 DEF QosCounted
    <2>2. CASE q.pc = "lookup" /\ q.stack = <<Root, Uninitialised>>
      BY <1>5, <2>2 DEF QosCounted
    <2>3. CASE q.pc = "type" /\ q.stack = <<Root>>
      BY <1>5, <2>3 DEF QosCounted
    <2>4. QED  BY <1>2, <2>1, <2>2, <2>3
  <1>7. QED  BY <1>1, <1>4, <1>6 DEF Numbers

\* Any step of a task that nothing has preempted.
LEMMA NumberedStep ==
    ASSUME ShapeInv, ShapeInv', AddressInv, NEW t \in Tasks, task[t].seen = <<>>,
           NumberInv(t), DumpCounted(task[t], cursor.num),
           Request(t) \/ Call(t), ~Tests(t), ~Fault(t)
    PROVE  NumberInv(t)'
  <1>1. CASE \/ Request(t) \/ Lookup(t) \/ List(t) \/ Match(t) \/ Type(t) \/ Show(t)
             \/ ValueToStr(t) \/ CheckType(t) \/ Counted(t)
    <2>1. Numbers(t)
      BY <1>1, NumberedRequest, NumberedNext, NumberedSame, NumberedLast DEF NumberInv
    <2>2. task[t].pc # "add"
      BY <1>1 DEF Request, Lookup, List, Match, Type, Show, ValueToStr, CheckType,
                  Counted, At
    <2>3. UNCHANGED <<list, ins, count>>
      BY <1>1 DEF Request, Lookup, List, Match, Type, Show, ValueToStr, CheckType,
                  Counted, db
    <2>4. QED  BY <2>1, <2>2, <2>3, TallyLess DEF NumberInv, Numbers
  <1>2. CASE GetValue(t) \/ Count(t) \/ Add(t) \/ Link(t) \/ Publish(t)
    BY <1>2, NumberedRead DEF NumberInv
  <1>3. QED  BY <1>1, <1>2 DEF Call

-----------------------------------------------------------------------------
(* A task that is not asked for anything in the network branch.            *)

NetworkBranch(n) == n.ops = "fl" /\ n.is_root = 1 /\ FlEntry(n).name = "network"

\* Such a task never enters it: it passes its name at the root only, and that is
\* not what it is looking for.
Stays(r) ==
    /\ r.pc \notin {"lookup", "list"} => r.seen = <<>>
    /\ r.pc # "idle" =>
          /\ r.pc \notin {"count", "add"} /\ r.cmd # "dcadump"
          /\ Len(r.stack) = IF r.pc \in {"lookup", "match", "list", "show"} THEN 2 ELSE 1
          /\ ~OfNetif(r.stack[1]) /\ ~NetworkBranch(r.stack[1])
          /\ Len(r.stack) = 2 => ~OfNetif(r.stack[2])
    /\ r.pc \in {"lookup", "match"} =>
          /\ r.stack[2].ops # "root"
          /\ IF r.stack[1].ops = "root"
             THEN r.todo = r.path /\ r.path # <<>> /\ ~Matches(r.path[1], "network")
             ELSE ~NetworkBranch(r.stack[2])

\* get_next_child, from outside the branch, stays there, the root excepted.
LEMMA NextStays ==
    ASSUME NEW n \in WrittenNodes, ~OfNetif(n), ~NetworkBranch(n),
           NEW c, NEW seen, NEW cur, NEW s, s = NextChild(n, c, seen, cur)
    PROVE  /\ s.node.ops = n.ops /\ ~OfNetif(s.node) /\ ~NetworkBranch(s.node)
           /\ \/ s.child = c
              \/ /\ ~OfNetif(s.child) /\ s.child.ops # "root"
                 /\ n.ops # "root" => ~NetworkBranch(s.child)
  <1>1. n.ops \in {"root", "fl", "ps", "saul"}
    BY Kinds DEF OfNetif
  <1>2. /\ NullNode.ops = "null"
        /\ \A i, k, r : FlNode(i, k, r).ops = "fl" /\ FlNode(i, k, r).is_root = r
        /\ \A p, r : PsNode(p, r).ops = "ps" /\ SaulNode(p, r).ops = "saul"
    BY DEF NullNode, FlNode, PsNode, SaulNode
  <1>3. CASE n.ops = "root"
    <2>1. PICK i : n = RootNode(i)
      BY <1>3, Kinds
    <2>2. [n EXCEPT !.idx = @ + 1].ops = "root"
      BY <2>1 DEF RootNode
    <2>3. \/ s.node = [n EXCEPT !.idx = @ + 1] /\ s.child = FlNode(n.idx, 0, 1)
          \/ s.node = n /\ s.child = NullNode
      BY <1>3, RootNextIs
    <2>4. s.node.ops = "root"
      BY <1>3, <2>2, <2>3
    <2>5. s.child.ops \in {"null", "fl"}
      BY <1>2, <2>3
    <2>6. QED  BY <1>3, <2>4, <2>5 DEF OfNetif, NetworkBranch
  <1>4. CASE n.ops = "fl"
    <2>1. PICK i, k, r : /\ n = FlNode(i, k, r) /\ i \in 0 .. Len(db_index) - 1
      BY <1>4, Kinds
    <2>2. PICK a : a = [n EXCEPT !.sub_idx = @ + 1] /\ a.ops = "fl" /\ a.fl_idx = n.fl_idx
                   /\ a.is_root = n.is_root
      <3>1. PICK a : a = [n EXCEPT !.sub_idx = @ + 1]
        OBVIOUS
      <3>2. a = FlNode(i, k + 1, r)
        BY <2>1, <3>1 DEF FlNode
      <3>3. a.ops = "fl" /\ a.fl_idx = n.fl_idx /\ a.is_root = n.is_root
        BY <2>1, <3>2 DEF FlNode
      <3>4. QED  BY <3>1, <3>3
    <2>3. \/ s.node = n /\ s.child = NullNode
          \/ /\ n.is_root = 1 /\ s.node = a
             /\ \/ s.child = FlNode(n.fl_idx, n.sub_idx, 0)
                \/ \E kind \in {"ps", "netif", "devices"} :
                       s.child = DynamicNode(kind) /\ kind \in ToSet(FlEntry(n).dynamic)
      BY <1>4, <2>2, FlNextIs
    <2>4. s.node.ops = "fl" /\ ~OfNetif(s.node) /\ ~NetworkBranch(s.node)
      BY <1>4, <2>2, <2>3 DEF OfNetif, NetworkBranch, FlEntry
    <2>5. CASE s.child = NullNode
      BY <1>2, <1>4, <2>4, <2>5 DEF OfNetif, NetworkBranch
    <2>6. CASE s.child = FlNode(n.fl_idx, n.sub_idx, 0)
      <3>1. s.child.ops = "fl" /\ s.child.is_root = 0
        BY <1>2, <2>6
      <3>2. QED  BY <1>4, <2>4, <3>1 DEF OfNetif, NetworkBranch
    <2>7. ASSUME NEW kind \in {"ps", "netif", "devices"}, n.is_root = 1,
                 s.child = DynamicNode(kind), kind \in ToSet(FlEntry(n).dynamic)
          PROVE  s.child.ops \in {"ps", "saul"}
      <3>1. FlEntry(n) = db_index[i + 1] /\ i + 1 \in 1 .. Len(db_index)
        <4>1. n.fl_idx = i
          BY <2>1 DEF FlNode
        <4>2. i + 1 \in 1 .. Len(db_index)
          BY <2>1, Index
        <4>3. QED  BY <4>1, <4>2 DEF FlEntry
      <3>2. FlEntry(n).name # "network"
        BY <1>4, <2>7 DEF NetworkBranch
      <3>3. kind # "netif"
        BY <2>7, <3>1, <3>2, DynamicIn
      <3>4. CASE kind = "ps"
        BY <1>2, <2>7, <3>4 DEF DynamicNode
      <3>5. CASE kind = "devices"
        BY <1>2, <2>7, <3>5 DEF DynamicNode
      <3>6. QED  BY <2>7, <3>3, <3>4, <3>5
    <2>8. QED  BY <1>4, <2>3, <2>4, <2>5, <2>6, <2>7 DEF OfNetif, NetworkBranch
  <1>5. CASE n.ops = "ps"
    <2>1. PICK p \in 1 .. PidLast + 1, r \in 0 .. 2 : n = PsNode(p, r)
      BY <1>5, Kinds
    <2>2. s = NextChild(PsNode(p, r), c, seen, cur) /\ p \in Int
      BY <2>1
    <2>3. s.node.ops = "ps" /\ (s.child = c \/ s.child.ops \in {"ps", "null"})
      <3>1. CASE r = 2
        BY <1>2, <2>2, <3>1, PsLevels, StepIs
      <3>2. CASE r = 1
        BY <1>2, <2>2, <3>2, PsLevels, StepIs
      <3>3. CASE r = 0
        BY <1>2, <2>2, <3>3, PsLevels, StepIs
      <3>4. QED  BY <2>1, <3>1, <3>2, <3>3
    <2>4. QED  BY <1>5, <2>3 DEF OfNetif, NetworkBranch
  <1>6. CASE n.ops = "saul"
    <2>1. PICK d \in 0 .. Len(DeviceName), r \in 0 .. 2 : n = SaulNode(d, r)
      BY <1>6, Kinds
    <2>2. s = NextChild(SaulNode(d, r), c, seen, cur)
      BY <2>1
    <2>3. s.node.ops = "saul" /\ (s.child = c \/ s.child.ops \in {"saul", "null"})
      <3>1. CASE r = 2
        BY <1>2, <2>2, <3>1, SaulLevels, StepIs
      <3>2. CASE r = 1
        BY <1>2, <2>2, <3>2, SaulLevels, StepIs
      <3>3. CASE r = 0
        BY <1>2, <2>2, <3>3, SaulLevels, StepIs
      <3>4. QED  BY <2>1, <3>1, <3>2, <3>3
    <2>4. QED  BY <1>6, <2>3 DEF OfNetif, NetworkBranch
  <1>7. QED  BY <1>1, <1>3, <1>4, <1>5, <1>6

\* The same when the call has been preempted, and no neighbour is counted down.
LEMMA OutsideOutcome ==
    ASSUME ShapeInv, NEW t \in Tasks, task[t].pc \in {"lookup", "list"},
           ~OfNetif(Node(t)), ~NetworkBranch(Node(t)), NEW s \in Outcomes(t)
    PROVE  /\ s.cursor.num = cursor.num
           /\ s.node.ops = Node(t).ops /\ ~OfNetif(s.node) /\ ~NetworkBranch(s.node)
           /\ \/ s.child = Child(t)
              \/ /\ ~OfNetif(s.child) /\ s.child.ops # "root"
                 /\ Node(t).ops # "root" => ~NetworkBranch(s.child)
  <1>1. Shape(task[t]) /\ cursor \in CursorSet /\ Node(t) \in WrittenNodes
    BY TopOfStack DEF ShapeInv
  <1>2. CASE task[t].seen = <<>>
    <2>1. s = NextChild(Node(t), Child(t), cursor, cursor)
      BY <1>2 DEF Outcomes
    <2>2. QED  BY <1>1, <2>1, OutsideNum, NextStays
  <1>3. CASE task[t].seen # <<>>
    <2>1. PICK seen \in CursorSet : seen = Head(task[t].seen)
      BY <1>1, <1>3 DEF Shape
    <2>2. CASE s = NextChild(Node(t), Child(t), seen, cursor)
      BY <1>1, <2>1, <2>2, OutsideNum, NextStays
    <2>3. CASE s = Assigned(t, seen)
      <3>1. PICK q : q = NextChild(Node(t), Child(t), seen, seen)
        OBVIOUS
      <3>2. q.cursor.num = seen.num /\ Returns(q, Node(t), Child(t))
        BY <1>1, <2>1, <3>1, OutsideNum, NextChildReturns DEF ShapeInv
      <3>3. PICK x : x = [f \in DOMAIN cursor |->
                IF q.cursor[f] = seen[f] THEN cursor[f] ELSE q.cursor[f]]
        OBVIOUS
      <3>4. s = [q EXCEPT !.cursor = x]
        BY <2>3, <3>1, <3>3 DEF Assigned
      <3>5. s.node = q.node /\ s.child = q.child /\ s.cursor = x
        BY <3>2, <3>4 DEF Returns, Step
      <3>6. x.num = cursor.num
        <4>1. "num" \in DOMAIN cursor
          BY <1>1 DEF CursorSet
        <4>2. x["num"] = cursor["num"]
          BY <3>2, <3>3, <4>1
        <4>3. QED  BY <4>2
      <3>7. QED  BY <1>1, <2>1, <3>1, <3>5, <3>6, NextStays
    <2>4. QED  BY <1>3, <2>1, <2>2, <2>3 DEF Outcomes
  <1>4. QED  BY <1>2, <1>3

\* What a step of such a task keeps.
Remains(t) ==
    Stays(task'[t]) /\ cursor'.num = cursor.num

\* Once it has ended.
LEMMA IdleStays ==
    ASSUME NEW q, q.pc = "idle", q.seen = <<>>
    PROVE  Stays(q)
  BY DEF Stays

\* A command comes in.
LEMMA RequestRemains ==
    ASSUME ShapeInv, NEW t \in Tasks, Outside(t), Request(t)
    PROVE  Remains(t)
  <1>1. PICK q : q = task'[t]
    OBVIOUS
  <1>2. /\ cursor' = cursor /\ list' = list /\ q.seen = <<>>
        /\ \/ q.pc = "idle"
           \/ /\ q.pc = "lookup" /\ q.cmd # "dcadump"
              /\ q.stack = <<Root, Uninitialised>>
              /\ q.path # <<>> /\ q.todo = q.path
              /\ \E w \in Requests[t] : w.path = q.path
           \/ q.pc = "type" /\ q.cmd # "dcadump" /\ q.stack = <<Root>>
    BY <1>1, RequestIs DEF Outside
  <1>3. /\ Root.ops = "root" /\ Uninitialised.ops = "uninit"
        /\ ~OfNetif(Root) /\ ~NetworkBranch(Root) /\ ~OfNetif(Uninitialised)
    BY DEF Root, RootNode, Uninitialised, OfNetif, NetworkBranch
  <1>4. CASE q.pc = "idle"
    BY <1>1, <1>2, <1>4, IdleStays DEF Remains
  <1>5. CASE /\ q.pc = "lookup" /\ q.cmd # "dcadump"
             /\ q.stack = <<Root, Uninitialised>>
             /\ q.path # <<>> /\ q.todo = q.path
             /\ \E w \in Requests[t] : w.path = q.path
    <2>1. ~Matches(q.path[1], "network")
      BY <1>5 DEF Outside
    <2>2. Len(q.stack) = 2 /\ q.stack[1] = Root /\ q.stack[2] = Uninitialised
      BY <1>5
    <2>3. Stays(q)
      BY <1>3, <1>5, <2>1, <2>2 DEF Stays
    <2>4. QED  BY <1>1, <1>2, <2>3 DEF Remains
  <1>6. CASE q.pc = "type" /\ q.cmd # "dcadump" /\ q.stack = <<Root>>
    <2>1. Len(q.stack) = 1 /\ q.stack[1] = Root
      BY <1>6
    <2>2. Stays(q)
      BY <1>2, <1>3, <1>6, <2>1 DEF Stays
    <2>3. QED  BY <1>1, <1>2, <2>2 DEF Remains
  <1>7. QED  BY <1>2, <1>4, <1>5, <1>6

\* The calls of get_next_child.
LEMMA NextRemains ==
    ASSUME ShapeInv, NEW t \in Tasks, Stays(task[t]), Lookup(t) \/ List(t)
    PROVE  Remains(t)
  <1>1. PICK r : /\ r = task[t] /\ Shape(r) /\ r.pc \in {"lookup", "list"}
                 /\ DOMAIN task = Tasks /\ DOMAIN r = TaskFields
    BY DEF ShapeInv, Lookup, List, At, Shape
  <1>2. Len(r.stack) = 2
    BY <1>1 DEF Stays
  <1>3. PICK a, c : a = Node(t) /\ c = Child(t) /\ a = r.stack[1] /\ c = r.stack[2]
    BY <1>1, <1>2, TopOfStack
  <1>4. PICK s \in Outcomes(t) :
          /\ cursor' = s.cursor /\ list' = list
          /\ \/ s.child = NullNode /\ r.pc = "lookup"
                /\ task'[t] = Finished(r, <<"enoent">>)
             \/ s.child = NullNode /\ r.pc = "list" /\ task'[t] = Leave(Enumerated(t, s))
             \/ s.child # NullNode /\ r.pc = "lookup"
                /\ task'[t] = [Enumerated(t, s) EXCEPT !.pc = "match"]
             \/ s.child # NullNode /\ r.pc = "list"
                /\ task'[t] = [Enumerated(t, s) EXCEPT !.pc = "show"]
    <2>1. CASE Lookup(t)
      <3>1. PICK s \in Outcomes(t) :
              /\ cursor' = s.cursor /\ list' = list /\ r.pc = "lookup"
              /\ Update(t, IF s.child = NullNode THEN Finished(task[t], <<"enoent">>)
                      ELSE [Enumerated(t, s) EXCEPT !.pc = "match"])
        BY <1>1, <2>1 DEF Lookup, At
      <3>2. CASE s.child = NullNode
        BY <1>1, <3>1, <3>2 DEF Update
      <3>3. CASE s.child # NullNode
        BY <1>1, <3>1, <3>3 DEF Update
      <3>4. QED  BY <3>2, <3>3
    <2>2. CASE List(t)
      <3>1. PICK s \in Outcomes(t) :
              /\ cursor' = s.cursor /\ list' = list /\ r.pc = "list"
              /\ Update(t, IF s.child = NullNode THEN Leave(Enumerated(t, s))
                      ELSE [Enumerated(t, s) EXCEPT !.pc = "show"])
        BY <1>1, <2>2 DEF List, At
      <3>2. CASE s.child = NullNode
        BY <1>1, <3>1, <3>2 DEF Update
      <3>3. CASE s.child # NullNode
        BY <1>1, <3>1, <3>3 DEF Update
      <3>4. QED  BY <3>2, <3>3
    <2>3. QED  BY <2>1, <2>2
  <1>5. ~OfNetif(a) /\ ~NetworkBranch(a) /\ ~OfNetif(c) /\ r.cmd # "dcadump"
    BY <1>1, <1>2, <1>3 DEF Stays
  <1>6. /\ s.cursor.num = cursor.num
        /\ s.node.ops = a.ops /\ ~OfNetif(s.node) /\ ~NetworkBranch(s.node)
        /\ \/ s.child = c
           \/ /\ ~OfNetif(s.child) /\ s.child.ops # "root"
              /\ a.ops # "root" => ~NetworkBranch(s.child)
    BY <1>1, <1>3, <1>5, OutsideOutcome
  <1>7. PICK e : e = Enumerated(t, s)
    OBVIOUS
  <1>8. /\ DOMAIN e = TaskFields /\ e.cmd = r.cmd /\ e.seen = <<>>
        /\ e.path = r.path /\ e.todo = r.todo
        /\ Len(e.stack) = 2 /\ e.stack[1] = s.node /\ e.stack[2] = s.child
    <2>1. Returns(s, Node(t), Child(t))
      BY <1>1, OutcomesReturn
    <2>2. QED  BY <1>1, <1>2, <1>7, <2>1, EnumeratedStack
  <1>9. cursor'.num = cursor.num /\ list' = list
    BY <1>4, <1>6
  <1>10. \A x, res : Finished(x, res).pc = "idle" /\ Finished(x, res).seen = <<>>
    BY DEF Finished, Idle
  <1>11. CASE s.child = NullNode
    <2>1. task'[t] = Finished(r, <<"enoent">>) \/ task'[t] = Finished(e, <<"listed">>)
      BY <1>4, <1>7, <1>8, <1>11 DEF Leave
    <2>2. QED  BY <1>9, <1>10, <2>1, IdleStays DEF Remains
  <1>12. CASE s.child # NullNode /\ r.pc = "lookup"
    <2>1. PICK q : q = [e EXCEPT !.pc = "match"]
      OBVIOUS
    <2>2. task'[t] = q
      BY <1>4, <1>7, <1>12, <2>1
    <2>3. /\ q.pc = "match" /\ q.cmd = r.cmd /\ q.seen = <<>> /\ q.path = r.path
          /\ q.todo = r.todo
          /\ Len(q.stack) = 2 /\ q.stack[1] = s.node /\ q.stack[2] = s.child
      BY <1>8, <2>1 DEF TaskFields
    <2>4. /\ c.ops # "root"
          /\ IF a.ops = "root"
             THEN r.todo = r.path /\ r.path # <<>> /\ ~Matches(r.path[1], "network")
             ELSE ~NetworkBranch(c)
      BY <1>1, <1>3, <1>12 DEF Stays
    <2>5. Stays(q)
      BY <1>5, <1>6, <2>3, <2>4 DEF Stays
    <2>6. QED  BY <1>9, <2>2, <2>5 DEF Remains
  <1>13. CASE s.child # NullNode /\ r.pc = "list"
    <2>1. PICK q : q = [e EXCEPT !.pc = "show"]
      OBVIOUS
    <2>2. task'[t] = q
      BY <1>4, <1>7, <1>13, <2>1
    <2>3. /\ q.pc = "show" /\ q.cmd = r.cmd /\ q.seen = <<>>
          /\ Len(q.stack) = 2 /\ q.stack[1] = s.node /\ q.stack[2] = s.child
      BY <1>8, <2>1 DEF TaskFields
    <2>4. Stays(q)
      BY <1>5, <1>6, <2>3 DEF Stays
    <2>5. QED  BY <1>9, <2>2, <2>4 DEF Remains
  <1>14. QED  BY <1>1, <1>11, <1>12, <1>13

\* The search descends, but not into the branch.
LEMMA MatchRemains ==
    ASSUME ShapeInv, NEW t \in Tasks, Stays(task[t]), Match(t)
    PROVE  Remains(t)
  <1>1. PICK r : /\ r = task[t] /\ Shape(r) /\ r.pc = "match"
                 /\ DOMAIN task = Tasks /\ DOMAIN r = TaskFields
    BY DEF ShapeInv, Match, At, Shape
  <1>2. Len(r.stack) = 2 /\ r.seen = <<>> /\ r.cmd # "dcadump"
    BY <1>1 DEF Stays
  <1>3. PICK a, c : c = Child(t) /\ a = r.stack[1] /\ c = r.stack[2]
    BY <1>1, <1>2, TopOfStack
  <1>4. PICK name, rest :
          /\ name = GetName(c, r.name) /\ rest = Tail(r.todo)
          /\ \/ ~Matches(Head(r.todo), name)
                /\ task'[t] = [r EXCEPT !.pc = "lookup", !.name = name]
             \/ Matches(Head(r.todo), name)
                /\ task'[t] = [r EXCEPT !.pc = "lookup", !.todo = rest, !.name = name,
                                !.stack = <<c, c>>]
             \/ Matches(Head(r.todo), name) /\ task'[t] = FoundNode(r, c)
    <2>1. PICK name, rest : name = GetName(c, r.name) /\ rest = Tail(r.todo)
      OBVIOUS
    <2>2. Update(t, CASE ~Matches(Head(r.todo), name) ->
                            [r EXCEPT !.pc = "lookup", !.name = name]
                       [] Matches(Head(r.todo), name) /\ rest # <<>> ->
                            [r EXCEPT !.pc = "lookup", !.todo = rest,
                                 !.name = name, !.stack = <<c, c>>]
                       [] Matches(Head(r.todo), name) /\ rest = <<>> -> FoundNode(r, c))
      BY <1>1, <1>3, <2>1 DEF Match
    <2>3. CASE ~Matches(Head(r.todo), name)
      BY <1>1, <2>1, <2>2, <2>3 DEF Update
    <2>4. CASE Matches(Head(r.todo), name) /\ rest # <<>>
      BY <1>1, <2>1, <2>2, <2>4 DEF Update
    <2>5. CASE Matches(Head(r.todo), name) /\ rest = <<>>
      BY <1>1, <2>1, <2>2, <2>5 DEF Update
    <2>6. QED  BY <2>3, <2>4, <2>5
  <1>5. /\ ~OfNetif(a) /\ ~NetworkBranch(a) /\ ~OfNetif(c) /\ c.ops # "root"
        /\ IF a.ops = "root"
           THEN r.todo = r.path /\ r.path # <<>> /\ ~Matches(r.path[1], "network")
           ELSE ~NetworkBranch(c)
    BY <1>1, <1>2, <1>3 DEF Stays
  <1>6. cursor' = cursor /\ list' = list
    BY DEF Match, db
  <1>7. CASE task'[t] = [r EXCEPT !.pc = "lookup", !.name = name]
    <2>1. PICK q : q = task'[t]
      OBVIOUS
    <2>2. /\ q.pc = "lookup" /\ q.stack = r.stack
          /\ q.cmd = r.cmd /\ q.todo = r.todo /\ q.path = r.path
      BY <1>1, <1>7, <2>1 DEF TaskFields
    <2>3. Stays(q)
      BY <1>2, <1>3, <1>5, <2>2 DEF Stays
    <2>4. QED  BY <1>6, <2>1, <2>3 DEF Remains
  <1>8. CASE Matches(Head(r.todo), name)
    <2>1. ~NetworkBranch(c)
      <3>1. SUFFICES ASSUME NetworkBranch(c), a.ops = "root" PROVE FALSE
        BY <1>5
      <3>2. name = "network"
        BY <1>4, <3>1 DEF NetworkBranch, GetName, FlName
      <3>3. Head(r.todo) = r.path[1]
        BY <1>5, <3>1
      <3>4. QED  BY <1>5, <1>8, <3>1, <3>2, <3>3
    <2>2. CASE task'[t] = [r EXCEPT !.pc = "lookup", !.todo = rest, !.name = name,
                                !.stack = <<c, c>>]
      <3>1. PICK q : q = task'[t]
        OBVIOUS
      <3>2. q.pc = "lookup" /\ q.stack = <<c, c>> /\ q.cmd = r.cmd
        BY <1>1, <2>2, <3>1 DEF TaskFields
      <3>3. Len(q.stack) = 2 /\ q.stack[1] = c /\ q.stack[2] = c
        BY <3>2
      <3>4. Stays(q)
        BY <1>2, <1>5, <2>1, <3>2, <3>3 DEF Stays
      <3>5. QED  BY <1>6, <3>1, <3>4 DEF Remains
    <2>3. CASE task'[t] = FoundNode(r, c)
      <3>1. PICK q : q = task'[t]
        OBVIOUS
      <3>2. q.pc = "type" /\ q.stack = <<c>> /\ q.cmd = r.cmd /\ q.seen = r.seen
        <4>1. r.cmd \in {"dcaq", "dcadump", "get"}
          BY <1>1 DEF Shape
        <4>2. q = [r EXCEPT !.pc = "type", !.stack = <<c>>, !.todo = <<>>, !.name = "junk"]
          BY <2>3, <3>1, <4>1 DEF FoundNode
        <4>3. QED  BY <1>1, <4>2 DEF TaskFields
      <3>3. Len(q.stack) = 1 /\ q.stack[1] = c
        BY <3>2
      <3>4. Stays(q)
        BY <1>2, <1>5, <2>1, <3>2, <3>3 DEF Stays
      <3>5. QED  BY <1>6, <3>1, <3>4 DEF Remains
    <2>4. QED  BY <1>4, <1>7, <1>8, <2>2, <2>3
  <1>9. QED  BY <1>4, <1>7, <1>8

\* The other steps.
LEMMA StaysStep ==
    ASSUME ShapeInv, NEW t \in Tasks, Outside(t), Stays(task[t]),
           Request(t) \/ Call(t), ~Fault(t)
    PROVE  Remains(t)
  <1>1. PICK r, q : /\ r = task[t] /\ Shape(r) /\ q = task'[t]
                    /\ DOMAIN task = Tasks /\ DOMAIN r = TaskFields
    BY DEF ShapeInv, Shape
  <1>2. CASE Tests(t)
    <2>1. /\ q = [r EXCEPT !.seen = <<cursor>>] /\ r.pc \in {"lookup", "list"}
          /\ cursor' = cursor /\ list' = list
      <3>1. r.pc \in {"lookup", "list"}
        BY <1>1, <1>2 DEF Tests, At, Shape, Reading
      <3>2. QED  BY <1>1, <1>2, <3>1 DEF Tests, db, Update
    <2>2. /\ q.pc = r.pc /\ q.cmd = r.cmd /\ q.stack = r.stack
          /\ q.path = r.path /\ q.todo = r.todo
      BY <1>1, <2>1 DEF TaskFields
    <2>3. Stays(q)
      BY <1>1, <2>1, <2>2 DEF Stays
    <2>4. QED  BY <1>1, <2>1, <2>3 DEF Remains
  <1>3. CASE Type(t)
    <2>1. r.pc = "type"
      BY <1>1, <1>3 DEF Type, At
    <2>2. /\ r.seen = <<>> /\ Len(r.stack) = 1 /\ r.cmd # "dcadump"
          /\ ~OfNetif(r.stack[1]) /\ ~NetworkBranch(r.stack[1])
      BY <1>1, <2>1 DEF Stays
    <2>3. /\ cursor' = cursor /\ list' = list
          /\ \/ To(r, q, "print") /\ q.stack = r.stack
             \/ /\ To(r, q, "list")
                /\ Len(q.stack) = 1 + 1 /\ q.stack[1 + 1] = Uninitialised
                /\ \A i \in 1 .. 1 : q.stack[i] = r.stack[i]
      BY <1>1, <1>3, <2>2, TypeIs
    <2>4. ~OfNetif(Uninitialised)
      BY DEF OfNetif, Uninitialised
    <2>5. CASE To(r, q, "print") /\ q.stack = r.stack
      <3>1. Stays(q)
        BY <2>2, <2>5 DEF To, Stays
      <3>2. QED  BY <1>1, <2>3, <3>1 DEF Remains
    <2>6. CASE /\ To(r, q, "list")
               /\ Len(q.stack) = 1 + 1 /\ q.stack[1 + 1] = Uninitialised
               /\ \A i \in 1 .. 1 : q.stack[i] = r.stack[i]
      <3>1. Len(q.stack) = 2 /\ q.stack[1] = r.stack[1] /\ q.stack[2] = Uninitialised
        BY <2>6
      <3>2. Stays(q)
        BY <2>2, <2>4, <2>6, <3>1 DEF To, Stays
      <3>3. QED  BY <1>1, <2>3, <3>2 DEF Remains
    <2>7. QED  BY <2>3, <2>5, <2>6
  <1>4. CASE Show(t)
    <2>1. r.pc = "show"
      BY <1>1, <1>4 DEF Show, At
    <2>2. /\ r.seen = <<>> /\ Len(r.stack) = 2 /\ r.cmd # "dcadump"
          /\ ~OfNetif(r.stack[1]) /\ ~NetworkBranch(r.stack[1]) /\ ~OfNetif(r.stack[2])
      BY <1>1, <2>1 DEF Stays
    <2>3. /\ cursor' = cursor /\ list' = list /\ q.stack = r.stack /\ To(r, q, "list")
      BY <1>1, <1>4, <2>2, ShowIs
    <2>4. Stays(q)
      BY <2>2, <2>3 DEF To, Stays
    <2>5. QED  BY <1>1, <2>3, <2>4 DEF Remains
  <1>5. CASE ValueToStr(t) \/ CheckType(t) \/ GetValue(t)
    <2>1. r.pc \in {"print", "assert", "read"}
      BY <1>1, <1>5 DEF ValueToStr, CheckType, GetValue, At
    <2>2. /\ r.seen = <<>> /\ Len(r.stack) = 1 /\ r.cmd # "dcadump"
          /\ ~OfNetif(r.stack[1]) /\ ~NetworkBranch(r.stack[1])
      BY <1>1, <2>1 DEF Stays
    <2>3. /\ cursor' = cursor /\ list' = list
          /\ \/ Prints(r, q)
             \/ (To(r, q, "assert") \/ To(r, q, "read")) /\ q.stack = r.stack
      <3>1. CASE ValueToStr(t)
        BY <1>1, <2>2, <3>1, ValueToStrIs
      <3>2. CASE CheckType(t)
        BY <1>1, <2>2, <3>2, CheckTypeIs
      <3>3. CASE GetValue(t)
        <4>1. ~CountsNeighbours(Child(t), r.type)
          <5>1. Child(t) = r.stack[1]
            BY <1>1, <2>2, TopOfStack
          <5>2. QED  BY <2>2, <5>1 DEF CountsNeighbours, OfNetif
        <4>2. /\ cursor' = cursor /\ list' = list
              /\ q = Printed(r, <<"value", Datum(Child(t), r.type)>>)
          BY <1>1, <3>3, <4>1 DEF GetValue, Update
        <4>3. Prints(r, q)
          BY <2>2, <4>2 DEF Printed, Finished, Idle, Prints
        <4>4. QED  BY <4>2, <4>3
      <3>4. QED  BY <1>5, <3>1, <3>2, <3>3
    <2>4. CASE Prints(r, q)
      <3>1. q.pc = "idle" /\ q.seen = <<>>
        BY <2>2, <2>4 DEF Prints
      <3>2. QED  BY <1>1, <2>3, <3>1, IdleStays DEF Remains
    <2>5. CASE (To(r, q, "assert") \/ To(r, q, "read")) /\ q.stack = r.stack
      <3>1. q.pc \in {"assert", "read"} /\ q.cmd = r.cmd /\ q.seen = <<>>
        BY <2>5 DEF To
      <3>2. Stays(q)
        BY <2>2, <2>5, <3>1 DEF Stays
      <3>3. QED  BY <1>1, <2>3, <3>2 DEF Remains
    <2>6. QED  BY <2>3, <2>4, <2>5
  <1>6. ~(Count(t) \/ Add(t) \/ Counted(t))
    BY <1>1 DEF Stays, Count, Add, Counted, At
  <1>7. CASE Link(t) \/ Publish(t)
    <2>1. task[t].pc # "add"
      BY <1>1 DEF Stays
    <2>2. UNCHANGED <<task, cursor>>
      BY <1>7, <2>1 DEF Link, Publish
    <2>3. QED  BY <2>2 DEF Remains
  <1>8. QED  BY <1>2, <1>3, <1>4, <1>5, <1>6, <1>7, RequestRemains, NextRemains,
                MatchRemains DEF Call

-----------------------------------------------------------------------------
(* _num_neighbours does not point past the end of the list.                *)

\* A dump at the fields of a neighbour has one to count.
LEMMA DumpHasOne ==
    ASSUME ShapeInv, CountersInv, NEW t \in Tasks
    PROVE  DumpCounted(task[t], cursor.num)
  <1>1. PICK r : r = task[t] /\ Shape(r)
    BY DEF ShapeInv
  <1>2. PICK n \in Nat : n = Len(r.stack)
    BY <1>1 DEF Shape
  <1>3. SUFFICES ASSUME r.cmd = "dcadump", r.pc = "list", AtQos(r.stack[n - 1])
                 PROVE  cursor.num > 0
    BY <1>1, <1>2 DEF DumpCounted
  <1>4. n >= 2 /\ Dumping(r.stack, n, "list", cursor)
    BY <1>1, <1>2, <1>3 DEF Shape, StackOK, CountersInv, Fits
  <1>5. Low(r.stack[n - 1]) /\ r.stack[n - 1].is_root # 1 /\ n - 1 \in 1 .. n - 1
    BY <1>2, <1>3, <1>4 DEF AtQos, Low
  <1>6. ~Above(r.stack, n, "list", cursor) /\ ~AtFolder(r.stack, n, "list", cursor)
    BY <1>5 DEF Above, AtFolder
  <1>7. AtFields(r.stack, n, "list", cursor)
    BY <1>4, <1>6 DEF Dumping
  <1>8. QED  BY <1>7 DEF AtFields

\* What a task leaves alone holds on.
LEMMA NumberStays ==
    ASSUME ShapeInv, ShapeInv', NEW t \in Tasks, task'[t] = task[t], task[t].pc = "idle",
           cursor'.num = cursor.num, UNCHANGED <<list, ins, count>>, NumberInv(t)
    PROVE  NumberInv(t)'
  <1>1. cursor'.num <= cursor.num
    BY NumIsNat
  <1>2. Tally(t)'
    BY <1>1, TallyLess DEF NumberInv
  <1>3. QED  BY <1>2 DEF NumberInv, QosCounted

\* A task that has no requests does nothing but insert what was measured.
LEMMA NeverRuns ==
    ASSUME NEW u \in Tasks, Requests[u] = {}, task[u].pc = "idle",
           Request(u) \/ (Call(u) /\ ~Fault(u))
    PROVE  (Link(u) \/ Publish(u)) /\ UNCHANGED <<cursor, task, threads, nib, hist, halted>>
  <1>1. Link(u) \/ Publish(u)
    BY DEF Request, Call, Tests, Lookup, Match, Type, List, Show, ValueToStr, CheckType,
           GetValue, Count, Add, Counted, At
  <1>2. QED  BY <1>1, InsertionIs DEF Entered, At

\* Nothing is kept from one call to the next.
LEMMA SeenStays ==
    ASSUME ShapeInv, AddressInv, NEW t \in Tasks, task[t].seen = <<>>,
           Request(t) \/ Call(t), ~Tests(t), ~Fault(t)
    PROVE  task'[t].seen = <<>>
  <1>1. CASE Request(t)
    BY <1>1, RequestIs
  <1>2. CASE Lookup(t)
    BY <1>2, LookupIs DEF To
  <1>3. CASE List(t)
    BY <1>3, ListIs DEF To
  <1>4. CASE Match(t)
    BY <1>4, MatchIs DEF To
  <1>5. CASE Type(t)
    BY <1>5, TypeIs DEF To
  <1>6. CASE Show(t)
    BY <1>6, ShowIs DEF To
  <1>7. CASE ValueToStr(t)
    BY <1>7, ValueToStrIs DEF To, Prints
  <1>8. CASE CheckType(t)
    BY <1>8, CheckTypeIs DEF To
  <1>9. CASE GetValue(t)
    BY <1>9, GetValueIs DEF To, Prints
  <1>10. CASE Count(t)
    BY <1>10, CountIs
  <1>11. CASE Add(t) \/ Link(t) \/ Publish(t)
    BY <1>11, InsertionIs, EnteredIs DEF To
  <1>12. CASE Counted(t)
    BY <1>12, CountedIs DEF Prints, To
  <1>13. QED  BY <1>1, <1>2, <1>3, <1>4, <1>5, <1>6, <1>7, <1>8, <1>9, <1>10, <1>11,
                 <1>12 DEF Call

\* A measurement has a result.
LEMMA MeasureCounts ==
    ASSUME ShapeInv, NEW t \in Tasks, NumberInv(t), Measure
    PROVE  NumberInv(t)'
  <1>1. /\ UNCHANGED <<task, cursor, list, count>> /\ task[Shell].pc = "idle"
        /\ t # Shell => ins'[t] = ins[t]
    BY DEF Measure, At, ShapeInv, Settled
  <1>2. QED  BY <1>1 DEF NumberInv, Tally, Entering, QosCounted

\* The steps of one reader.
LEMMA ReaderNumbers ==
    ASSUME ShapeInv, ShapeInv', AddressInv, CountersInv, NEW t \in Tasks,
           \A u \in Tasks \ {t} : Requests[u] = {}, NumberInv(t), [Next]_vars
    PROVE  NumberInv(t)'
  <1>1. ASSUME UNCHANGED <<task, cursor, list, ins, count>>
        PROVE  NumberInv(t)'
    BY <1>1 DEF NumberInv, Tally, Entering, QosCounted
  <1>2. ASSUME Request(t) \/ Call(t), ~Fault(t)
        PROVE  NumberInv(t)'
    <2>1. ~Tests(t)
      BY QueryAssumption DEF Tests, Tasks
    <2>2. task[t].seen = <<>> /\ DumpCounted(task[t], cursor.num)
      BY DumpHasOne DEF CountersInv
    <2>3. QED  BY <1>2, <2>1, <2>2, NumberedStep
  <1>3. ASSUME NEW u \in Tasks, u # t, Request(u) \/ Call(u), ~Fault(u)
        PROVE  NumberInv(t)'
    <2>1. (Link(u) \/ Publish(u)) /\ UNCHANGED <<cursor, task>>
      BY <1>3, NeverRuns DEF CountersInv
    <2>2. Tally(t)'
      BY <2>1, TallyInserts DEF NumberInv
    <2>3. QED  BY <2>1, <2>2 DEF NumberInv, QosCounted
  <1>4. CASE Measure
    BY <1>4, MeasureCounts DEF NumberInv
  <1>5. QED  BY <1>1, <1>2, <1>3, <1>4
             DEF Next, Call, Fault, Halt, ThreadExit, NibChange, vars, db

\* The steps of the handler, when the shell stays outside the network branch.
HandlerInv ==
    /\ NumberInv(Coap) /\ task[Coap].seen = <<>>
    /\ task[Coap].pc # "idle" => task[Coap].cmd # "dcadump"
    /\ Stays(task[Shell])

\* They keep that, whatever the shell does between two requests.
LEMMA HandlerNumbers ==
    ASSUME Outside(Shell), ShapeInv, ShapeInv', AddressInv, HandlerInv, [Next]_vars
    PROVE  HandlerInv'
  <1>1. Shell \in Tasks /\ Coap \in Tasks /\ Shell # Coap /\ Tasks = {Shell, Coap}
    BY QueryAssumption DEF Tasks
  <1>2. ASSUME UNCHANGED <<task, cursor, list, ins, count>>
        PROVE  HandlerInv'
    BY <1>2 DEF HandlerInv, NumberInv, Tally, Entering, QosCounted
  <1>3. ASSUME Request(Coap) \/ Call(Coap), ~Fault(Coap)
        PROVE  HandlerInv'
    <2>1. ~Tests(Coap) /\ task'[Shell] = task[Shell]
      BY <1>1, <1>3, OthersStay DEF Tests
    <2>2. PICK r, q : r = task[Coap] /\ q = task'[Coap]
      OBVIOUS
    <2>3. Call(Coap) => r.pc # "idle"
      <3>1. Settled
        BY DEF ShapeInv
      <3>2. Link(Coap) \/ Publish(Coap) => r.pc # "idle"
        BY <1>1, <2>2, <3>1 DEF Settled, Link, Publish
      <3>3. QED  BY <1>3, <2>2, <3>2
                 DEF Call, Tests, Lookup, Match, Type, List, Show, ValueToStr, CheckType,
                     GetValue, Count, Add, Counted, At
    <2>4. q.pc # "idle" => q.cmd # "dcadump"
      <3>1. CASE Request(Coap)
        <4>1. \A w \in Requests[Coap] : w.cmd # "dcadump"
          BY QueryAssumption
        <4>2. QED  BY <1>1, <2>2, <3>1, <4>1, RequestIs
      <3>2. CASE Call(Coap)
        BY <1>1, <2>2, <2>3, <3>2, CommandKept DEF HandlerInv
      <3>3. QED  BY <1>3, <3>1, <3>2
    <2>5. DumpCounted(r, cursor.num)
      BY <2>2 DEF HandlerInv, DumpCounted
    <2>6. NumberInv(Coap)'
      BY <1>1, <1>3, <2>1, <2>2, <2>5, NumberedStep DEF HandlerInv
    <2>7. q.seen = <<>>
      BY <1>1, <1>3, <2>1, <2>2, SeenStays DEF HandlerInv
    <2>8. QED  BY <2>1, <2>2, <2>4, <2>6, <2>7 DEF HandlerInv
  <1>4. ASSUME Request(Shell) \/ Call(Shell), ~Fault(Shell)
        PROVE  HandlerInv'
    <2>1. task'[Coap] = task[Coap]
      BY <1>1, <1>4, OthersStay
    <2>2. task[Coap].pc = "idle"
      BY <1>4
         DEF Request, Call, Tests, Lookup, Match, Type, List, Show, ValueToStr,
             CheckType, GetValue, Count, Add, Link, Publish, Counted, At, CanRun
    <2>3. Remains(Shell)
      BY <1>1, <1>4, StaysStep DEF HandlerInv
    <2>4. NumberInv(Coap)'
      <3>1. CASE Add(Shell) \/ Link(Shell) \/ Publish(Shell)
        <4>1. Tally(Coap)' /\ cursor' = cursor
          BY <1>1, <3>1, TallyInserts, InsertionIs DEF HandlerInv, NumberInv
        <4>2. QED  BY <2>1, <4>1 DEF HandlerInv, NumberInv, QosCounted
      <3>2. CASE ~(Add(Shell) \/ Link(Shell) \/ Publish(Shell))
        <4>1. UNCHANGED <<ins, list>>
          BY <1>4, <3>2
             DEF Request, Call, Tests, Lookup, Match, Type, List, Show, ValueToStr,
                 CheckType, GetValue, Count, Counted, db
        <4>2. count' = count
          <5>1. CASE GetValue(Shell)
            <6>1. task[Shell].seen = <<>>
              BY <5>1 DEF HandlerInv, Stays, GetValue, At
            <6>2. task'[Shell].pc # "count"
              BY <2>3 DEF Remains, Stays
            <6>3. QED  BY <1>1, <5>1, <6>1, <6>2, GetValueIs DEF To
          <5>2. CASE ~GetValue(Shell)
            <6>1. ~Count(Shell)
              BY DEF HandlerInv, Stays, Count, At
            <6>2. QED  BY <1>4, <3>2, <5>2, <6>1
                       DEF Request, Call, Tests, Lookup, Match, Type, List, Show,
                           ValueToStr, CheckType, Counted
          <5>3. QED  BY <5>1, <5>2
        <4>3. QED  BY <1>1, <2>1, <2>2, <2>3, <4>1, <4>2, NumberStays
                   DEF Remains, HandlerInv
      <3>3. QED  BY <3>1, <3>2
    <2>5. QED  BY <2>1, <2>3, <2>4 DEF HandlerInv, Remains
  <1>5. CASE Measure
    <2>1. UNCHANGED task
      BY <1>5 DEF Measure
    <2>2. QED  BY <1>1, <1>5, <2>1, MeasureCounts DEF HandlerInv
  <1>6. QED  BY <1>1, <1>2, <1>3, <1>4, <1>5
             DEF Next, Call, Fault, Halt, ThreadExit, NibChange, vars, db

\* It holds at the start.
LEMMA NumberInit ==
    ASSUME Init, NEW t \in Tasks
    PROVE  NumberInv(t)
  <1>1. /\ task[t] = Idle /\ cursor.num = 0 /\ count.met = {}
        /\ DOMAIN count = {"met", "twice", "lost"}
    BY DEF Init, CursorInit, NewCount
  <1>2. Idle.pc = "idle"
    BY DEF Idle
  <1>3. IsFiniteSet({}) /\ Cardinality({}) = 0
    BY FS_EmptySet
  <1>4. QED  BY <1>1, <1>2, <1>3 DEF NumberInv, Tally, QosCounted

\* What it says of the number.
LEMMA NumberBound ==
    ASSUME ShapeInv, AddressInv, NEW t \in Tasks, NumberInv(t), CountKept
    PROVE  cursor.num <= Len(list) + (IF task[t].pc = "add" THEN 1 ELSE 0)
  <1>1. PICK n, m, l, o : /\ n = cursor.num /\ m = Cardinality(count.met)
                          /\ l = Cardinality(ToSet(list)) /\ o = Len(list)
    OBVIOUS
  <1>2. n \in Nat /\ m \in Nat /\ l \in Nat /\ o \in Nat /\ l <= o /\ n <= m
    <2>1. list \in Seq(Addresses)
      BY DEF AddressInv
    <2>2. o \in Nat
      BY <1>1, <2>1, LenProperties
    <2>3. n <= m /\ IsFiniteSet(count.met)
      BY <1>1 DEF NumberInv, Tally, CountKept
    <2>4. QED  BY <1>1, <2>1, <2>2, <2>3, ListSize, NumIsNat, FS_CardinalityType
  <1>3. count.met \subseteq ToSet(list) \cup Entering(t)
    BY DEF NumberInv, Tally, CountKept
  <1>4. IsFiniteSet(ToSet(list))
    BY ListSize DEF AddressInv
  <1>5. CASE task[t].pc = "add"
    <2>1. PICK S : S = ToSet(list) \cup {task[t].nce}
      OBVIOUS
    <2>2. count.met \in SUBSET S
      BY <1>3, <1>5, <2>1 DEF Entering
    <2>3. IsFiniteSet(S) /\ Cardinality(S) = IF task[t].nce \in ToSet(list) THEN l ELSE l + 1
      BY <1>1, <1>4, <2>1, FS_AddElement
    <2>4. m <= Cardinality(S)
      BY <1>1, <2>2, <2>3, FS_Subset
    <2>5. QED  BY <1>1, <1>2, <1>5, <2>3, <2>4
  <1>6. CASE task[t].pc # "add"
    <2>1. count.met \in SUBSET ToSet(list)
      BY <1>3, <1>6 DEF Entering
    <2>2. m <= l
      BY <1>1, <1>4, <2>1, FS_Subset
    <2>3. QED  BY <1>1, <1>2, <1>6, <2>2
  <1>7. QED  BY <1>5, <1>6

\* So it is as the property says.
LEMMA NumberWithin ==
    ASSUME ShapeInv, AddressInv, NEW t \in Tasks, NumberInv(t)
    PROVE  NumWithinList
  <1>1. SUFFICES ASSUME CountKept
                 PROVE  cursor.num <= Len(list)
                          + (IF \E u \in Tasks : task[u].pc = "add" THEN 1 ELSE 0)
    BY DEF NumWithinList
  <1>2. cursor.num \in Nat /\ Len(list) \in Nat
    BY NumIsNat, LenProperties DEF AddressInv
  <1>3. cursor.num <= Len(list) + (IF task[t].pc = "add" THEN 1 ELSE 0)
    BY <1>1, NumberBound
  <1>4. CASE task[t].pc = "add"
    BY <1>3, <1>4
  <1>5. CASE task[t].pc # "add"
    BY <1>2, <1>3, <1>5
  <1>6. QED  BY <1>4, <1>5

\* _num_neighbours, by which linked_list_read and linked_list_read_ip walk the list
\* of neighbours, never points past the end of it, in whatever order one thread
\* queries, lists and dumps the database while neighbours come and go and results
\* of measurements are inserted, or while the handler preempts a shell that asks for
\* nothing in the network branch: unless the list has lost an entry to an insertion
\* that was interrupted since the neighbours were last counted, or one of them was
\* met twice.
THEOREM NumberCorrect ==
    ASSUME OneReader \/ Outside(Shell)
    PROVE  Spec => []NumWithinList
  <1>1. Spec => []ShapeInv
    BY ShapeInit, ShapeStep, PTL DEF Spec
  <1>2. ASSUME Init
        PROVE  AddressInv /\ CountersInv /\ (\A t \in Tasks : NumberInv(t)) /\ HandlerInv
    <2>1. \A t \in Tasks : task[t] = Idle
      BY <1>2 DEF Init
    <2>2. Idle.pc = "idle" /\ Idle.seen = <<>>
      BY DEF Idle
    <2>4. \A t \in Tasks : NumberInv(t)
      BY <1>2, NumberInit
    <2>5. AddressInv
      BY <1>2, SoundInit DEF Tasks
    <2>6. CountersInv
      <3>1. InTables(cursor)
        BY <1>2 DEF Init, CursorInit, InTables
      <3>2. QED  BY <2>1, <2>2, <3>1 DEF CountersInv, Fits
    <2>7. HandlerInv
      BY <2>1, <2>2, <2>4, IdleStays DEF HandlerInv, Tasks
    <2>8. QED  BY <2>4, <2>5, <2>6, <2>7
  <1>3. CASE OneReader
    <2>1. PICK t \in Tasks : \A u \in Tasks \ {t} : Requests[u] = {}
      BY <1>3 DEF OneReader
    <2>2. Init => AddressInv /\ CountersInv /\ NumberInv(t)
      BY <1>2
    <2>3. (/\ ShapeInv /\ ShapeInv' /\ AddressInv /\ CountersInv
           /\ NumberInv(t) /\ [Next]_vars)
             => AddressInv' /\ CountersInv' /\ NumberInv(t)'
      BY <1>3, <2>1, AddressStep, CountersStep, ReaderNumbers
    <2>4. ShapeInv /\ AddressInv /\ NumberInv(t) => NumWithinList
      BY NumberWithin
    <2>5. QED  BY <1>1, <2>2, <2>3, <2>4, PTL DEF Spec
  <1>4. CASE Outside(Shell)
    <2>1. Init => AddressInv /\ HandlerInv
      BY <1>2
    <2>2. ShapeInv /\ ShapeInv' /\ AddressInv /\ HandlerInv /\ [Next]_vars
             => AddressInv' /\ HandlerInv'
      BY <1>4, AddressStep, HandlerNumbers
    <2>3. ShapeInv /\ AddressInv /\ HandlerInv => NumWithinList
      BY NumberWithin DEF HandlerInv, Tasks
    <2>4. QED  BY <1>1, <2>1, <2>2, <2>3, PTL DEF Spec
  <1>5. QED  BY <1>3, <1>4

-----------------------------------------------------------------------------
(* The nodes on the stack are there.                                       *)

\* A node whose children can be enumerated: the thread, device or interface it
\* stands for exists...
Decent(n) ==
    /\ n.ops = "ps" /\ n.is_root = 1 => n.pid \in Started
    /\ n.ops = "ps" /\ n.is_root = 2 => n.pid \in Started \cup {PidLast + 1}
    /\ n.ops = "saul" /\ n.is_root = 1 => n.dev # NULL
    /\ n.ops = "netif" /\ n.is_root \in {0, 1, 3} => n.iface # NULL

\* ...and one that can be named and read, too.
Live(c) ==
    /\ c.ops \notin {"uninit", "null"} /\ Decent(c)
    /\ c.ops = "ps" /\ c.is_root = 0 => c.pid \in Started
    /\ c.ops = "saul" /\ c.is_root = 0 => c.dev # NULL
    /\ c.ops = "netif" /\ c.is_root = 2 => c.iface # NULL

\* Below n, get_next_child may leave the child variable as it is: only a counter
\* moves on to the next field.
Leaves(n, cur) ==
    \/ n.ops = "ps" /\ n.is_root = 0
    \/ n.ops = "netif" /\ n.is_root = 2 /\ cur.field < 4
    \/ n.ops = "netif" /\ n.is_root = 0

\* Then that is a node of the same level.
Keeps(n, c, cur) ==
    Leaves(n, cur) => Live(c) /\ c.ops = n.ops /\ c.is_root = n.is_root

\* The nodes of the first two levels.
AtTop(n) == n.ops \in {"root", "fl"}

\* What get_next_child makes of that.
NextFit(n, cur, s) ==
    /\ Decent(s.node) /\ s.node.ops = n.ops
    /\ s.child = NullNode \/ (Live(s.child) /\ Keeps(s.node, s.child, s.cursor))
    /\ AtTop(s.child) => AtTop(n)
    /\ n.ops = "fl" \/ s.cursor.field >= cur.field

\* A node on the first two levels.
LEMMA TopFits ==
    ASSUME NEW n \in WrittenNodes, AtTop(n), NEW c, NEW cur \in CursorSet,
           NEW s, s = NextChild(n, c, cur, cur)
    PROVE  NextFit(n, cur, s)
  <1>1. /\ NullNode.ops = "null"
        /\ \A i, k, r : FlNode(i, k, r).ops = "fl"
    BY DEF NullNode, FlNode
  <1>2. cur.field >= cur.field
    <2>1. Uint8 \subseteq Nat
      BY DEF Uint8
    <2>2. cur.field \in Nat
      BY <2>1, CursorFields
    <2>3. QED  BY <2>2
  <1>3. \A x : AtTop(x) => Decent(x) /\ Live(x) /\ \A y, z : Keeps(x, y, z)
    BY DEF AtTop, Decent, Live, Keeps, Leaves
  <1>4. CASE n.ops = "root"
    <2>1. PICK i : n = RootNode(i)
      BY <1>4, Kinds
    <2>2. [n EXCEPT !.idx = @ + 1].ops = "root"
      BY <2>1 DEF RootNode
    <2>3. /\ s.cursor = cur
          /\ \/ s.node = [n EXCEPT !.idx = @ + 1] /\ s.child = FlNode(n.idx, 0, 1)
             \/ s.node = n /\ s.child = NullNode
      BY <1>4, RootNextIs
    <2>4. s.node.ops = "root" /\ (s.child = NullNode \/ s.child.ops = "fl")
      <3>1. CASE s.node = n
        BY <1>1, <1>4, <2>3, <3>1
      <3>2. CASE s.node = [n EXCEPT !.idx = @ + 1]
        BY <1>1, <2>2, <2>3, <3>2
      <3>3. QED  BY <2>3, <3>1, <3>2
    <2>5. QED  BY <1>1, <1>2, <1>3, <1>4, <2>3, <2>4 DEF NextFit, AtTop
  <1>5. CASE n.ops = "fl"
    <2>1. PICK i, k, r : n = FlNode(i, k, r)
      BY <1>5, Kinds
    <2>2. [n EXCEPT !.sub_idx = @ + 1].ops = "fl"
      BY <2>1 DEF FlNode
    <2>3. \/ s.node = n /\ s.child = NullNode
          \/ /\ s.node = [n EXCEPT !.sub_idx = @ + 1]
             /\ \/ s.child = FlNode(n.fl_idx, n.sub_idx, 0)
                \/ \E kind \in {"ps", "netif", "devices"} : s.child = DynamicNode(kind)
      BY <1>5, FlNextIs
    <2>4. s.node.ops = "fl" /\ AtTop(s.node)
      BY <1>5, <2>2, <2>3 DEF AtTop
    <2>5. \A kind \in {"ps", "netif", "devices"} : Live(DynamicNode(kind))
      <3>1. Live(PsNode(1, 2))
        BY DbAssumption DEF PsNode, Live, Decent
      <3>2. \A d : Live(SaulNode(d, 2))
        BY DEF SaulNode, Live, Decent
      <3>3. \A x : Live(NetifNode(x, 4))
        BY DEF NetifNode, Live, Decent
      <3>4. QED  BY <3>1, <3>2, <3>3 DEF DynamicNode
    <2>6. s.child = NullNode \/ Live(s.child)
      <3>1. Live(FlNode(n.fl_idx, n.sub_idx, 0))
        BY <1>1, <1>3 DEF AtTop
      <3>2. QED  BY <2>3, <2>5, <3>1
    <2>7. QED  BY <1>3, <1>5, <2>4, <2>6 DEF NextFit, AtTop
  <1>6. QED  BY <1>4, <1>5 DEF AtTop

\* A thread or one of its fields.
LEMMA PsFits ==
    ASSUME threads = Started, NEW n \in WrittenNodes, n.ops = "ps", Decent(n), NEW c,
           NEW cur \in CursorSet, InTables(cur), Keeps(n, c, cur),
           NEW s, s = NextChild(n, c, cur, cur)
    PROVE  NextFit(n, cur, s)
  <1>1. PICK p \in 1 .. PidLast + 1, r \in 0 .. 2 : n = PsNode(p, r)
    BY Kinds
  <1>2. s = NextChild(PsNode(p, r), c, cur, cur) /\ p \in Int
    BY <1>1
  <1>3. \A x, k : /\ PsNode(x, k).ops = "ps" /\ PsNode(x, k).is_root = k
                  /\ PsNode(x, k).pid = x
    BY DEF PsNode
  <1>4. /\ \A x : WithPs(cur, x).field = cur.field
        /\ cur.field >= cur.field
    <2>1. \A x : WithPs(cur, x).field = cur.field
      BY DEF CursorSet, WithPs
    <2>2. Uint8 \subseteq Nat
      BY DEF Uint8
    <2>3. cur.field \in Nat
      BY <2>2, CursorFields
    <2>4. QED  BY <2>1, <2>3
  <1>5. \A q \in Started : q <= PidLast
    BY DbAssumption
  <1>6. CASE r = 2
    <2>1. s = IF p <= PidLast THEN Step(PsNode(NextPid(p), 2), PsNode(p, 1), cur)
              ELSE Step(PsNode(p, 2), NullNode, cur)
      BY <1>2, <1>6, PsLevels
    <2>2. p \in Started \cup {PidLast + 1}
      BY <1>1, <1>3, <1>6 DEF Decent
    <2>3. CASE p <= PidLast
      <3>1. NextPid(p) \in Started \cup {PidLast + 1}
        <4>1. PidLast \in Nat /\ threads \subseteq 1 .. PidLast
          BY DbAssumption
        <4>2. p \in 1 .. PidLast
          BY <1>1, <2>3, <4>1
        <4>3. NextPid(p) \in {q \in threads : q > p} \cup {PidLast + 1}
          BY <4>1, <4>2, NextPidIs
        <4>4. QED  BY <4>3
      <3>2. p \in Started
        <4>1. p # PidLast + 1
          BY <1>2, <2>3, DbAssumption
        <4>2. QED  BY <2>2, <4>1
      <3>3. s.node = PsNode(NextPid(p), 2) /\ s.child = PsNode(p, 1) /\ s.cursor = cur
        BY <2>1, <2>3, StepIs
      <3>4. Decent(s.node) /\ Live(s.child) /\ Keeps(s.node, s.child, s.cursor)
        BY <1>3, <3>1, <3>2, <3>3 DEF Decent, Live, Keeps, Leaves
      <3>5. QED  BY <1>3, <1>4, <3>3, <3>4 DEF NextFit, AtTop
    <2>4. CASE ~(p <= PidLast)
      <3>1. s.node = n /\ s.child = NullNode /\ s.cursor = cur
        BY <1>1, <1>6, <2>1, <2>4, StepIs
      <3>2. QED  BY <1>4, <3>1 DEF NextFit, AtTop, NullNode
    <2>5. QED  BY <2>3, <2>4
  <1>7. CASE r = 1
    <2>1. p \in Started
      BY <1>1, <1>3, <1>7 DEF Decent
    <2>2. p <= PidLast /\ cur.ps < 5
      BY <1>5, <2>1 DEF InTables
    <2>3. /\ s.node = PsNode(NextPid(p), 0) /\ s.child = PsNode(p, 0)
          /\ s.cursor = cur
      BY <1>2, <1>7, <2>2, PsLevels, StepIs
    <2>4. Decent(s.node) /\ Live(s.child) /\ Keeps(s.node, s.child, s.cursor)
      BY <1>3, <2>1, <2>3 DEF Decent, Live, Keeps, Leaves
    <2>5. QED  BY <1>3, <1>4, <2>3, <2>4 DEF NextFit, AtTop
  <1>8. CASE r = 0
    <2>1. s = IF cur.ps = 4 THEN Step(PsNode(p, 0), NullNode, WithPs(cur, 0))
              ELSE Step(PsNode(p, 0), c, WithPs(cur, IncInt8(cur.ps)))
      BY <1>2, <1>8, PsLevels
    <2>2. Live(c) /\ c.ops = "ps" /\ c.is_root = 0 /\ \A z : Keeps(n, c, z)
      BY <1>1, <1>3, <1>8 DEF Keeps, Leaves
    <2>3. s.node = n /\ s.child \in {NullNode, c} /\ s.cursor.field = cur.field
      BY <1>1, <1>4, <1>8, <2>1, StepIs
    <2>4. QED  BY <1>4, <2>2, <2>3 DEF NextFit, AtTop, NullNode
  <1>9. QED  BY <1>1, <1>6, <1>7, <1>8

\* A device or its field.
LEMMA SaulFits ==
    ASSUME NEW n \in WrittenNodes, n.ops = "saul", Decent(n), NEW c,
           NEW cur \in CursorSet, InTables(cur),
           NEW s, s = NextChild(n, c, cur, cur)
    PROVE  NextFit(n, cur, s)
  <1>1. PICK d \in 0 .. Len(DeviceName), r \in 0 .. 2 : n = SaulNode(d, r)
    BY Kinds
  <1>2. s = NextChild(SaulNode(d, r), c, cur, cur) /\ cur.saul = 0
    BY <1>1 DEF InTables
  <1>3. \A x, k : /\ SaulNode(x, k).ops = "saul" /\ SaulNode(x, k).is_root = k
                  /\ SaulNode(x, k).dev = x
    BY DEF SaulNode
  <1>4. /\ \A x : WithSaul(cur, x).field = cur.field
        /\ cur.field >= cur.field
    <2>1. \A x : WithSaul(cur, x).field = cur.field
      BY DEF CursorSet, WithSaul
    <2>2. Uint8 \subseteq Nat
      BY DEF Uint8
    <2>3. cur.field \in Nat
      BY <2>2, CursorFields
    <2>4. QED  BY <2>1, <2>3
  <1>5. CASE r = 2
    <2>1. s = IF d # NULL THEN Step(SaulNode(DeviceNext(d), 2), SaulNode(d, 1), cur)
              ELSE Step(SaulNode(d, 2), NullNode, cur)
      BY <1>2, <1>5, SaulLevels
    <2>2. CASE d # NULL
      <3>1. s.node = SaulNode(DeviceNext(d), 2) /\ s.child = SaulNode(d, 1) /\ s.cursor = cur
        BY <2>1, <2>2, StepIs
      <3>2. Decent(s.node) /\ Live(s.child) /\ Keeps(s.node, s.child, s.cursor)
        BY <1>3, <2>2, <3>1 DEF Decent, Live, Keeps, Leaves
      <3>3. QED  BY <1>3, <1>4, <3>1, <3>2 DEF NextFit, AtTop
    <2>3. CASE d = NULL
      <3>1. s.node = n /\ s.child = NullNode /\ s.cursor = cur
        BY <1>1, <1>5, <2>1, <2>3, StepIs
      <3>2. QED  BY <1>4, <3>1 DEF NextFit, AtTop, NullNode
    <2>4. QED  BY <2>2, <2>3
  <1>6. CASE r = 1
    <2>1. d # NULL /\ cur.saul < 1
      BY <1>1, <1>2, <1>3, <1>6 DEF Decent
    <2>2. s.node = SaulNode(DeviceNext(d), 0) /\ s.child = SaulNode(d, 0) /\ s.cursor = cur
      BY <1>2, <1>6, <2>1, SaulLevels, StepIs
    <2>3. Decent(s.node) /\ Live(s.child) /\ Keeps(s.node, s.child, s.cursor)
      BY <1>3, <2>1, <2>2 DEF Decent, Live, Keeps, Leaves
    <2>4. QED  BY <1>3, <1>4, <2>2, <2>3 DEF NextFit, AtTop
  <1>7. CASE r = 0
    <2>1. s.node = n /\ s.child = NullNode /\ s.cursor = WithSaul(cur, 0)
      BY <1>1, <1>2, <1>7, SaulLevels, StepIs
    <2>2. QED  BY <1>4, <2>1 DEF NextFit, AtTop, NullNode
  <1>8. QED  BY <1>1, <1>5, <1>6, <1>7

\* An interface, one of its fields, a neighbour or one of its fields.
LEMMA NetifFits ==
    ASSUME NEW n \in WrittenNodes, n.ops = "netif", Decent(n), NEW c,
           NEW cur \in CursorSet, InTables(cur), Keeps(n, c, cur),
           NEW s, s = NextChild(n, c, cur, cur)
    PROVE  NextFit(n, cur, s)
  <1>1. PICK i \in 0 .. Len(IfaceName), k \in 0 .. 4 : n = NetifNode(i, k)
    BY Kinds
  <1>2. s = NetifNextChild(NetifNode(i, k), c, cur, cur)
    BY <1>1 DEF NextChild
  <1>3. \A x, r : /\ NetifNode(x, r).ops = "netif" /\ NetifNode(x, r).is_root = r
                  /\ NetifNode(x, r).iface = x
    BY DEF NetifNode
  <1>4. PICK f \in Nat : f = cur.field
    <2>1. Uint8 \subseteq Nat
      BY DEF Uint8
    <2>2. cur.field \in Nat
      BY <2>1, CursorFields
    <2>3. QED  BY <2>2
  <1>5. /\ \A x : WithSub(cur, x).field = f /\ WithField(cur, x).field = x
        /\ \A x, y : WithNum(cur, x, y).field = f
    BY <1>4 DEF CursorSet, WithSub, WithField, WithNum
  <1>6. k \in {0, 1, 3} => i # NULL
    BY <1>1, <1>3 DEF Decent
  <1>7. ASSUME NEW r \in 0 .. 4, NEW z, s.node = NetifNode(i, r), s.child = NullNode,
               s.cursor = z, z.field = f, r \in {0, 1, 3} => i # NULL
        PROVE  NextFit(n, cur, s)
    BY <1>1, <1>3, <1>4, <1>7 DEF NextFit, Decent, AtTop, NullNode
  <1>8. ASSUME NEW x, NEW r \in 0 .. 4, NEW k2 \in 0 .. 3, NEW z, i # NULL,
               s.node = NetifNode(x, r), s.child = NetifNode(i, k2),
               s.cursor = z, z.field = f, r \in {0, 1, 3} => x # NULL,
               r \in {0, 2} => k2 = r
        PROVE  NextFit(n, cur, s)
    <2>1. Decent(s.node) /\ Live(s.child) /\ s.node.ops = "netif"
      BY <1>3, <1>8 DEF Decent, Live
    <2>2. Keeps(s.node, s.child, s.cursor)
      BY <1>3, <1>8, <2>1 DEF Keeps, Leaves
    <2>3. QED  BY <1>1, <1>3, <1>4, <1>8, <2>1, <2>2 DEF NextFit, AtTop
  <1>9. ASSUME NEW z, s.node = n, s.child = c, s.cursor = z, z.field >= f,
                Leaves(n, cur)
         PROVE  NextFit(n, cur, s)
    <2>1. Live(c) /\ c.ops = n.ops /\ c.is_root = n.is_root
      BY <1>9 DEF Keeps
    <2>2. Keeps(n, c, z)
      BY <2>1 DEF Keeps
    <2>3. QED  BY <1>1, <1>3, <1>4, <1>9, <2>1, <2>2 DEF NextFit, AtTop
  <1>10. CASE k = 4
    <2>1. CASE i # NULL
      <3>1. /\ s.node = NetifNode(IfaceIter(i), 4) /\ s.child = NetifNode(i, 3)
            /\ s.cursor = cur
        BY <1>2, <1>10, <2>1, NetifLevel4, StepIs
      <3>2. QED  BY <1>4, <1>8, <2>1, <3>1
    <2>2. CASE i = NULL
      <3>1. s.node = NetifNode(i, 4) /\ s.child = NullNode /\ s.cursor = cur
        BY <1>2, <1>10, <2>2, NetifLevel4, StepIs
      <3>2. QED  BY <1>4, <1>7, <3>1
    <2>3. QED  BY <2>1, <2>2
  <1>11. CASE k = 3
    <2>1. i # NULL /\ cur.field < 5
      BY <1>6, <1>11 DEF InTables
    <2>2. /\ s.node = NetifNode(IfaceIter(i), 2) /\ s.child = NetifNode(i, 2)
          /\ s.cursor = cur
      BY <1>2, <1>11, <2>1, NetifLevel3, StepIs
    <2>3. QED  BY <1>4, <1>8, <2>1, <2>2
  <1>12. CASE k = 2
    <2>1. s = IF cur.field = 4 /\ i # NULL /\ cur.num > 0
              THEN Step(NetifNode(i, 1), NetifNode(i, 1),
                        WithSub(cur, IncUint8(cur.sub)))
              ELSE IF cur.field < 4
              THEN Step(NetifNode(i, 2), c, WithField(cur, IncUint8(cur.field)))
              ELSE Step(NetifNode(i, 2), NullNode, cur)
      BY <1>2, <1>12, NetifLevel2
    <2>2. CASE cur.field = 4 /\ i # NULL /\ cur.num > 0
      <3>1. /\ s.node = NetifNode(i, 1) /\ s.child = NetifNode(i, 1)
            /\ s.cursor = WithSub(cur, IncUint8(cur.sub))
        BY <2>1, <2>2, StepIs
      <3>2. QED  BY <1>5, <1>8, <2>2, <3>1
    <2>3. CASE cur.field < 4 /\ ~(cur.field = 4 /\ i # NULL /\ cur.num > 0)
      <3>1. /\ s.node = n /\ s.child = c
            /\ s.cursor = WithField(cur, IncUint8(cur.field))
        BY <1>1, <1>12, <2>1, <2>3, StepIs
      <3>2. Leaves(n, cur)
        BY <1>1, <1>3, <1>12, <2>3 DEF Leaves
      <3>3. IncUint8(f) >= f
        BY <1>4, <2>3 DEF IncUint8
      <3>4. QED  BY <1>4, <1>5, <1>9, <3>1, <3>2, <3>3
    <2>4. CASE ~(cur.field < 4) /\ ~(cur.field = 4 /\ i # NULL /\ cur.num > 0)
      <3>1. s.node = NetifNode(i, 2) /\ s.child = NullNode /\ s.cursor = cur
        BY <2>1, <2>4, StepIs
      <3>2. QED  BY <1>4, <1>7, <3>1
    <2>5. QED  BY <2>2, <2>3, <2>4
  <1>13. ASSUME NEW r \in 0 .. 1, i # NULL, s = NextNeighbour(NetifNode(i, r), cur)
         PROVE  NextFit(n, cur, s)
    <2>1. PICK left : left = DecUint8(cur.num)
      OBVIOUS
    <2>2. s = IF left = 0
              THEN Step(NetifNode(i, r), NullNode, WithNum(cur, 0, 1))
              ELSE Step(NetifNode(i, 1), NetifNode(i, 1), WithNum(cur, left, 2))
      BY <1>13, <2>1, NeighbourEnds
    <2>3. CASE left = 0
      <3>1. s.node = NetifNode(i, r) /\ s.child = NullNode /\ s.cursor = WithNum(cur, 0, 1)
        BY <2>2, <2>3, StepIs
      <3>2. QED  BY <1>5, <1>7, <1>13, <3>1
    <2>4. CASE left # 0
      <3>1. /\ s.node = NetifNode(i, 1) /\ s.child = NetifNode(i, 1)
            /\ s.cursor = WithNum(cur, left, 2)
        BY <2>2, <2>4, StepIs
      <3>2. QED  BY <1>5, <1>8, <1>13, <3>1
    <2>5. QED  BY <2>3, <2>4
  <1>14. CASE k = 1
    <2>1. s = IF cur.num = 0
              THEN Step(NetifNode(i, 1), NullNode, WithSub(cur, 1))
              ELSE IF cur.sub = 1
              THEN Step(NetifNode(i, 1), NetifNode(i, 1),
                        WithSub(cur, IncUint8(cur.sub)))
              ELSE IF cur.sub < 4
              THEN Step(NetifNode(i, 0), NetifNode(i, 0), cur)
              ELSE NextNeighbour(NetifNode(i, 1), cur)
      BY <1>2, <1>14, NetifLevel1
    <2>2. i # NULL
      BY <1>6, <1>14
    <2>3. CASE cur.num = 0
      <3>1. s.node = NetifNode(i, 1) /\ s.child = NullNode /\ s.cursor = WithSub(cur, 1)
        BY <2>1, <2>3, StepIs
      <3>2. QED  BY <1>5, <1>7, <2>2, <3>1
    <2>4. CASE cur.num # 0 /\ cur.sub = 1
      <3>1. /\ s.node = NetifNode(i, 1) /\ s.child = NetifNode(i, 1)
            /\ s.cursor = WithSub(cur, IncUint8(cur.sub))
        BY <2>1, <2>4, StepIs
      <3>2. QED  BY <1>5, <1>8, <2>2, <3>1
    <2>5. CASE cur.num # 0 /\ cur.sub # 1 /\ cur.sub < 4
      <3>1. s.node = NetifNode(i, 0) /\ s.child = NetifNode(i, 0) /\ s.cursor = cur
        BY <2>1, <2>5, StepIs
      <3>2. QED  BY <1>4, <1>8, <2>2, <3>1
    <2>6. CASE cur.num # 0 /\ cur.sub # 1 /\ ~(cur.sub < 4)
      BY <1>13, <2>1, <2>2, <2>6
    <2>7. QED  BY <2>3, <2>4, <2>5, <2>6
  <1>15. CASE k = 0
    <2>1. s = IF cur.sub < 4
              THEN Step(NetifNode(i, 0), c, WithSub(cur, IncUint8(cur.sub)))
              ELSE IF cur.sub = 4 /\ cur.num # 0
              THEN Step(NetifNode(i, 0), NullNode, WithSub(cur, IncUint8(cur.sub)))
              ELSE NextNeighbour(NetifNode(i, 0), cur)
      BY <1>2, <1>15, NetifLevel0
    <2>2. i # NULL /\ Leaves(n, cur)
      BY <1>1, <1>3, <1>6, <1>15 DEF Leaves
    <2>3. CASE cur.sub < 4
      <3>1. s.node = n /\ s.child = c /\ s.cursor = WithSub(cur, IncUint8(cur.sub))
        BY <1>1, <1>15, <2>1, <2>3, StepIs
      <3>2. QED  BY <1>4, <1>5, <1>9, <2>2, <3>1
    <2>4. CASE ~(cur.sub < 4) /\ cur.sub = 4 /\ cur.num # 0
      <3>1. /\ s.node = NetifNode(i, 0) /\ s.child = NullNode
            /\ s.cursor = WithSub(cur, IncUint8(cur.sub))
        BY <2>1, <2>4, StepIs
      <3>2. QED  BY <1>5, <1>7, <2>2, <3>1
    <2>5. CASE ~(cur.sub < 4) /\ ~(cur.sub = 4 /\ cur.num # 0)
      BY <1>13, <2>1, <2>2, <2>5
    <2>6. QED  BY <2>3, <2>4, <2>5
  <1>16. QED  BY <1>1, <1>10, <1>11, <1>12, <1>14, <1>15

\* Wherever a call of get_next_child starts.
LEMMA NextFits ==
    ASSUME threads = Started, NEW n \in WrittenNodes, Decent(n), NEW c,
           NEW cur \in CursorSet, InTables(cur), Keeps(n, c, cur),
           NEW s, s = NextChild(n, c, cur, cur)
    PROVE  NextFit(n, cur, s)
  BY Kinds, TopFits, PsFits, SaulFits, NetifFits DEF AtTop

-----------------------------------------------------------------------------
(* No call works on a node that is not there.                              *)

\* The stack of a command.  Below the node enumerated, no call of get_next_child
\* would leave its child variable as it is, and the first two levels come first.
Stands(r, cur) ==
    LET st == r.stack
        n  == Len(st)
    IN  r.pc # "idle" =>
        /\ \A i \in 1 .. n - 1 : Decent(st[i])
        /\ r.pc \notin {"lookup", "list"} => Live(st[n])
        /\ n >= 2 => Keeps(st[n - 1], st[n], cur)
        /\ \A i \in 1 .. n - 2 : ~Leaves(st[i], cur)
        /\ \A j \in 1 .. n : AtTop(st[j]) => \A i \in 1 .. j : AtTop(st[i])

\* The getter called is the one for the type of the node.
Getting(r) ==
    r.pc \in {"assert", "read"} =>
        r.type = GetType(r.stack[Len(r.stack)]) /\ r.type # "inner"

\* Once no field is left to move on to, none will be.
LEMMA LeavesLater ==
    ASSUME NEW n, NEW cur \in CursorSet, NEW new \in CursorSet, ~Leaves(n, cur),
           AtTop(n) \/ new.field >= cur.field
    PROVE  ~Leaves(n, new)
  <1>1. PICK f, g \in Nat : f = cur.field /\ g = new.field
    <2>1. Uint8 \subseteq Nat
      BY DEF Uint8
    <2>2. cur.field \in Nat /\ new.field \in Nat
      BY <2>1, CursorFields
    <2>3. QED  BY <2>2
  <1>2. g >= f /\ ~(f < 4) => ~(g < 4)
    BY <1>1
  <1>3. QED  BY <1>1, <1>2 DEF Leaves, AtTop

\* A folder that can be listed below a node is not one of its fields.
LEMMA InnerStays ==
    ASSUME InTables(cursor), NEW c \in WrittenNodes, GetType(c) = "inner"
    PROVE  ~Leaves(c, cursor)
  <1>1. CASE c.ops = "ps" /\ c.is_root = 0
    BY <1>1 DEF GetType, PsType
  <1>2. CASE c.ops = "netif" /\ c.is_root = 2 /\ cursor.field < 4
    <2>1. PICK f \in 0 .. 3 : f = cursor.field
      BY <1>2 DEF InTables
    <2>2. GetType(c) = NetifType(c)
      BY <1>2 DEF GetType
    <2>3. f \in {0, 3} \/ f \in {1, 2}
      BY <2>1
    <2>4. c.is_root \notin {3, 4} /\ c.is_root \in 0 .. 2
      BY <1>2
    <2>5. CASE f \in {0, 3}
      <3>1. NetifType(c) = "int"
        BY <1>2, <2>1, <2>4, <2>5 DEF NetifType
      <3>2. QED  BY <2>2, <3>1
    <2>6. CASE f \in {1, 2}
      <3>1. NetifType(c) = "str"
        BY <1>2, <2>1, <2>4, <2>6 DEF NetifType
      <3>2. QED  BY <2>2, <3>1
    <2>7. QED  BY <2>3, <2>5, <2>6
  <1>3. CASE c.ops = "netif" /\ c.is_root = 0
    <2>1. GetType(c) = NetifType(c)
      BY <1>3 DEF GetType
    <2>2. c.is_root \notin {3, 4} /\ c.is_root \in 0 .. 2
      BY <1>3
    <2>3. CASE cursor.field \in {0, 3}
      <3>1. NetifType(c) = "int"
        BY <1>3, <2>2, <2>3 DEF NetifType
      <3>2. QED  BY <2>1, <3>1
    <2>4. CASE cursor.field \notin {0, 3}
      <3>1. NetifType(c) = IF cursor.sub \in 2 .. 4 THEN "float" ELSE "str"
        BY <1>3, <2>2, <2>4 DEF NetifType
      <3>2. QED  BY <2>1, <3>1
    <2>5. QED  BY <2>3, <2>4
  <1>4. QED  BY <1>1, <1>2, <1>3 DEF Leaves

\* What a call of get_next_child will return.
LEMMA NextIsFit ==
    ASSUME ShapeInv, threads = Started, InTables(cursor), NEW t \in Tasks,
           Stands(task[t], cursor), task[t].pc \in {"lookup", "list"}
    PROVE  LET r == task[t]
           IN  /\ NextFit(r.stack[Len(r.stack) - 1], cursor, NextOf(r))
               /\ NextOf(r).cursor \in CursorSet /\ Len(r.stack) >= 2
  <1>1. PICK r : r = task[t] /\ Shape(r) /\ r.pc \in {"lookup", "list"}
    BY DEF ShapeInv
  <1>2. PICK n \in Nat : n = Len(r.stack)
    BY <1>1 DEF Shape
  <1>3. PICK a, c, s : a = r.stack[n - 1] /\ c = r.stack[n] /\ s = NextOf(r)
                       /\ s = NextChild(a, c, cursor, cursor)
    BY <1>2 DEF NextOf
  <1>4. a \in WrittenNodes /\ n >= 2 /\ cursor \in CursorSet
    <2>1. Node(t) = a /\ Node(t) \in WrittenNodes
      BY <1>1, <1>2, <1>3, TopOfStack
    <2>2. n >= 2
      BY <1>1, <1>2, TopOfStack
    <2>3. QED  BY <2>1, <2>2 DEF ShapeInv
  <1>5. Decent(a) /\ Keeps(a, c, cursor)
    <2>1. n - 1 \in 1 .. n - 1
      BY <1>4
    <2>2. QED  BY <1>1, <1>2, <1>3, <1>4, <2>1 DEF Stands
  <1>6. NextFit(a, cursor, s)
    BY <1>3, <1>4, <1>5, NextFits
  <1>7. s.cursor \in CursorSet
    BY <1>1, <1>3, <1>4, NextChildReturns, TopOfStack DEF Returns, ShapeInv
  <1>8. QED  BY <1>1, <1>2, <1>3, <1>4, <1>6, <1>7

\* It keeps the stack so.
LEMMA StandsNext ==
    ASSUME ShapeInv, threads = Started, InTables(cursor), NEW t \in Tasks,
           task[t].seen = <<>>, Stands(task[t], cursor), Lookup(t) \/ List(t)
    PROVE  Stands(task'[t], cursor')
  <1>1. PICK r, q : /\ r = task[t] /\ Shape(r) /\ r.pc \in {"lookup", "list"}
                    /\ q = task'[t]
    BY DEF ShapeInv, Lookup, List, At
  <1>2. PICK n \in Nat : n = Len(r.stack)
    BY <1>1 DEF Shape
  <1>3. PICK a, s, old : a = r.stack[n - 1] /\ s = NextOf(r) /\ old = r.stack
    OBVIOUS
  <1>4. n >= 2 /\ NextFit(a, cursor, s) /\ s.cursor \in CursorSet /\ cursor \in CursorSet
    BY <1>1, <1>2, <1>3, NextIsFit DEF ShapeInv
  <1>5. n - 1 \in 1 .. n /\ n \in 1 .. n /\ (n > 2 => n - 1 >= 2)
    BY <1>2, <1>4
  <1>6. /\ \A i \in 1 .. n - 1 : Decent(old[i])
        /\ \A i \in 1 .. n - 2 : ~Leaves(old[i], cursor)
        /\ \A j \in 1 .. n : AtTop(old[j]) => \A i \in 1 .. j : AtTop(old[i])
    BY <1>1, <1>2, <1>3 DEF Stands
  <1>7. /\ Decent(s.node) /\ (AtTop(s.node) => AtTop(a)) /\ (AtTop(s.child) => AtTop(a))
        /\ AtTop(a) => AtTop(s.node)
        /\ s.child # NullNode => Live(s.child) /\ Keeps(s.node, s.child, s.cursor)
    BY <1>4 DEF NextFit, AtTop
  <1>8. ASSUME NEW i \in 1 .. n - 2
        PROVE  ~Leaves(old[i], s.cursor)
    <2>1. i \in 1 .. n - 1
      BY <1>2
    <2>2. AtTop(a) => AtTop(old[i])
      BY <1>3, <1>5, <1>6, <2>1
    <2>3. AtTop(a) \/ s.cursor.field >= cursor.field
      BY <1>4 DEF NextFit, AtTop
    <2>4. QED  BY <1>4, <1>6, <1>8, <2>2, <2>3, LeavesLater
  <1>9. cursor' = s.cursor
        /\ \/ q.pc = "idle"
           \/ /\ s.child # NullNode /\ q.pc \in {"match", "show"}
              /\ Replaces(q.stack, r.stack, s)
           \/ /\ q.pc = "list" /\ n > 2 /\ Len(q.stack) = n - 1
              /\ \A i \in 1 .. n - 2 : q.stack[i] = r.stack[i]
              /\ q.stack[n - 1] = s.node
    <2>1. CASE Lookup(t)
      BY <1>1, <1>3, <2>1, LookupIs DEF To
    <2>2. CASE List(t)
      BY <1>1, <1>2, <1>3, <2>2, ListIs DEF To
    <2>3. QED  BY <2>1, <2>2
  <1>10. ASSUME NEW st, \A i \in 1 .. n - 2 : st[i] = old[i], st[n - 1] = s.node
         PROVE  /\ \A i \in 1 .. n - 1 : Decent(st[i])
                /\ \A j \in 1 .. n - 1 : AtTop(st[j]) => \A i \in 1 .. j : AtTop(st[i])
    <2>1. \A i \in 1 .. n - 1 : i = n - 1 \/ i \in 1 .. n - 2
      BY <1>2
    <2>2. \A i \in 1 .. n - 1 : Decent(st[i])
      BY <1>6, <1>7, <1>10, <2>1
    <2>3. \A i \in 1 .. n - 1 : AtTop(st[i]) <=> AtTop(old[i])
      BY <1>3, <1>7, <1>10, <2>1
    <2>4. \A j \in 1 .. n - 1 : j \in 1 .. n /\ \A i \in 1 .. j : i \in 1 .. n - 1
      BY <1>2
    <2>5. QED  BY <1>6, <2>2, <2>3, <2>4
  <1>11. CASE s.child # NullNode /\ q.pc \in {"match", "show"} /\ Replaces(q.stack, r.stack, s)
    <2>1. PICK st : st = q.stack
      OBVIOUS
    <2>2. Len(st) = n /\ (\A i \in 1 .. n - 2 : st[i] = old[i])
          /\ st[n - 1] = s.node /\ st[n] = s.child
      BY <1>2, <1>3, <1>11, <2>1 DEF Replaces
    <2>3. /\ \A i \in 1 .. n - 1 : Decent(st[i])
          /\ \A j \in 1 .. n - 1 : AtTop(st[j]) => \A i \in 1 .. j : AtTop(st[i])
      BY <1>10, <2>2
    <2>4. \A j \in 1 .. n : AtTop(st[j]) => \A i \in 1 .. j : AtTop(st[i])
      <3>1. AtTop(st[n]) => \A i \in 1 .. n - 1 : AtTop(st[i])
        <4>1. AtTop(st[n]) => AtTop(st[n - 1])
          BY <1>7, <2>2
        <4>2. n - 1 \in 1 .. n - 1
          BY <1>2, <1>4
        <4>3. QED  BY <2>3, <4>1, <4>2
      <3>2. \A i \in 1 .. n : i = n \/ i \in 1 .. n - 1
        BY <1>2
      <3>3. QED  BY <2>3, <3>1, <3>2
    <2>5. \A i \in 1 .. n - 2 : ~Leaves(st[i], s.cursor)
      BY <1>8, <2>2
    <2>6. Live(st[n]) /\ Keeps(st[n - 1], st[n], s.cursor)
      BY <1>7, <1>11, <2>2
    <2>7. QED  BY <1>1, <1>9, <2>1, <2>2, <2>3, <2>4, <2>5, <2>6 DEF Stands
  <1>12. CASE /\ q.pc = "list" /\ n > 2 /\ Len(q.stack) = n - 1
              /\ \A i \in 1 .. n - 2 : q.stack[i] = r.stack[i]
              /\ q.stack[n - 1] = s.node
    <2>1. PICK st : st = q.stack
      OBVIOUS
    <2>2. PICK m \in Nat : m = n - 1 /\ m >= 2
      BY <1>5, <1>12
    <2>3. Len(st) = m /\ (\A i \in 1 .. n - 2 : st[i] = old[i]) /\ st[n - 1] = s.node
      BY <1>3, <1>12, <2>1, <2>2
    <2>4. /\ \A i \in 1 .. m : Decent(st[i])
          /\ \A j \in 1 .. m : AtTop(st[j]) => \A i \in 1 .. j : AtTop(st[i])
      BY <1>10, <2>3, <2>2
    <2>5. \A i \in 1 .. m - 1 : i \in 1 .. n - 2 /\ i \in 1 .. m
      BY <1>2, <2>2
    <2>6. \A i \in 1 .. m - 1 : ~Leaves(st[i], s.cursor)
      BY <1>8, <2>3, <2>5
    <2>7. Keeps(st[m - 1], st[m], s.cursor)
      <3>1. m - 1 \in 1 .. m - 1
        BY <2>2
      <3>2. QED  BY <2>6, <3>1 DEF Keeps
    <2>8. \A i \in 1 .. m - 2 : i \in 1 .. m - 1
      BY <2>2
    <2>9. QED  BY <1>1, <1>9, <1>12, <2>1, <2>3, <2>4, <2>5, <2>6, <2>7, <2>8, <2>2 DEF Stands
  <1>13. QED  BY <1>1, <1>9, <1>11, <1>12 DEF Stands

\* A step that keeps the stack and moves no field counter keeps that.
LEMMA SameStands ==
    ASSUME NEW r, NEW q, NEW cur, NEW new, Stands(r, cur),
           r.pc \notin {"idle", "lookup", "list"}, q.stack = r.stack,
           new.field = cur.field
    PROVE  Stands(q, new)
  <1>1. /\ \A n : Leaves(n, new) <=> Leaves(n, cur)
        /\ \A n, c : Keeps(n, c, new) <=> Keeps(n, c, cur)
    BY DEF Leaves, Keeps
  <1>2. QED  BY <1>1 DEF Stands

\* So does the beginning of a search below the node c.
LEMMA SearchStands ==
    ASSUME NEW q, NEW c, Live(c), NEW cur, q.stack \in {<<c>>, <<c, c>>}
    PROVE  Stands(q, cur)
  <1>1. Decent(c) /\ Keeps(c, c, cur)
    BY DEF Live, Keeps
  <1>2. CASE q.stack = <<c>>
    <2>1. PICK st : st = q.stack /\ Len(st) = 1 /\ st[1] = c
      BY <1>2
    <2>2. QED  BY <2>1 DEF Stands
  <1>3. CASE q.stack = <<c, c>>
    <2>1. PICK st : st = q.stack /\ Len(st) = 2 /\ st[1] = c /\ st[2] = c
      BY <1>3
    <2>2. QED  BY <1>1, <2>1 DEF Stands
  <1>4. QED  BY <1>2, <1>3

\* A command that comes in starts at the root.
LEMMA StandsRequest ==
    ASSUME ShapeInv, NEW t \in Tasks, Request(t)
    PROVE  Stands(task'[t], cursor')
  <1>1. PICK q : q = task'[t]
    OBVIOUS
  <1>2. \/ q.pc = "idle"
        \/ q.pc \in {"show", "type"} /\ q.stack = <<Root>>
        \/ q.pc = "lookup" /\ q.stack = <<Root, Uninitialised>>
    BY <1>1, RequestIs
  <1>3. /\ Root.ops = "root" /\ AtTop(Root) /\ Live(Root) /\ Decent(Root)
        /\ ~AtTop(Uninitialised) /\ \A c, z : Keeps(Root, c, z)
    BY DEF Root, RootNode, Uninitialised, AtTop, Live, Decent, Keeps, Leaves
  <1>4. CASE q.pc \in {"show", "type"} /\ q.stack = <<Root>>
    BY <1>1, <1>3, <1>4, SearchStands
  <1>5. CASE q.pc = "lookup" /\ q.stack = <<Root, Uninitialised>>
    <2>1. PICK st : st = q.stack /\ Len(st) = 2 /\ st[1] = Root /\ st[2] = Uninitialised
      BY <1>5
    <2>2. QED  BY <1>1, <1>3, <1>5, <2>1 DEF Stands
  <1>6. QED  BY <1>1, <1>2, <1>4, <1>5 DEF Stands

\* A folder is entered.
LEMMA StandsType ==
    ASSUME ShapeInv, InTables(cursor), NEW t \in Tasks, task[t].seen = <<>>,
           Stands(task[t], cursor), Type(t)
    PROVE  Stands(task'[t], cursor')
  <1>1. PICK r, q : r = task[t] /\ Shape(r) /\ r.pc = "type" /\ q = task'[t]
    BY DEF ShapeInv, Type, At
  <1>2. PICK n \in Nat : n = Len(r.stack)
    BY <1>1 DEF Shape
  <1>3. PICK old, c : old = r.stack /\ c = old[n]
    OBVIOUS
  <1>4. n >= 1 /\ c \in WrittenNodes
    BY <1>1, <1>2, <1>3 DEF Shape, StackOK
  <1>5. /\ cursor' = cursor
        /\ \/ To(r, q, "print") /\ q.stack = r.stack
           \/ /\ To(r, q, "list") /\ GetType(c) = "inner"
              /\ Len(q.stack) = n + 1 /\ q.stack[n + 1] = Uninitialised
              /\ \A i \in 1 .. n : q.stack[i] = old[i]
    BY <1>1, <1>2, <1>3, TypeIs
  <1>6. CASE To(r, q, "print") /\ q.stack = r.stack
    BY <1>1, <1>5, <1>6, SameStands
  <1>7. CASE /\ To(r, q, "list") /\ GetType(c) = "inner"
             /\ Len(q.stack) = n + 1 /\ q.stack[n + 1] = Uninitialised
             /\ \A i \in 1 .. n : q.stack[i] = old[i]
    <2>1. PICK st : st = q.stack
      OBVIOUS
    <2>2. PICK m \in Nat : m = n + 1
      BY <1>2
    <2>3. Len(st) = m /\ st[m] = Uninitialised /\ \A i \in 1 .. n : st[i] = old[i]
      BY <1>7, <2>1, <2>2
    <2>4. /\ \A i \in 1 .. n - 1 : Decent(old[i])
          /\ Live(c) /\ (n >= 2 => Keeps(old[n - 1], c, cursor))
          /\ \A i \in 1 .. n - 2 : ~Leaves(old[i], cursor)
          /\ \A j \in 1 .. n : AtTop(old[j]) => \A i \in 1 .. j : AtTop(old[i])
      BY <1>1, <1>2, <1>3 DEF Stands
    <2>5. ~Leaves(c, cursor)
      BY <1>4, <1>7, InnerStays
    <2>6. \A i \in 1 .. m - 1 : i \in 1 .. n /\ (i = n \/ i \in 1 .. n - 1)
      BY <1>2, <2>2
    <2>7. \A i \in 1 .. m - 1 : Decent(st[i])
      BY <1>3, <2>3, <2>4, <2>6 DEF Live
    <2>8. Keeps(st[m - 1], st[m], cursor)
      <3>1. m - 1 = n /\ n \in 1 .. n
        BY <1>2, <1>4, <2>2
      <3>2. st[m - 1] = c
        BY <1>3, <2>3, <3>1
      <3>3. QED  BY <2>5, <3>2 DEF Keeps
    <2>9. ASSUME NEW i \in 1 .. m - 2
          PROVE  ~Leaves(st[i], cursor)
      <3>1. i \in 1 .. n /\ (i = n - 1 \/ i \in 1 .. n - 2) /\ n >= 2
        BY <1>2, <2>2
      <3>2. st[i] = old[i]
        BY <2>3, <3>1
      <3>3. CASE i = n - 1
        <4>1. Leaves(old[i], cursor) => c.ops = old[i].ops /\ c.is_root = old[i].is_root
          BY <2>4, <3>1, <3>3 DEF Keeps
        <4>2. QED  BY <2>5, <3>2, <4>1 DEF Leaves
      <3>4. CASE i \in 1 .. n - 2
        BY <2>4, <3>2, <3>4
      <3>5. QED  BY <3>1, <3>3, <3>4
    <2>10. ASSUME NEW j \in 1 .. m, AtTop(st[j]), NEW i \in 1 .. j
           PROVE  AtTop(st[i])
      <3>1. ~AtTop(Uninitialised)
        BY DEF AtTop, Uninitialised
      <3>2. j # m
        BY <2>3, <2>10, <3>1
      <3>3. j \in 1 .. n /\ i \in 1 .. n
        BY <1>2, <2>2, <3>2
      <3>4. QED  BY <2>3, <2>4, <2>10, <3>3
    <2>11. q.pc = "list"
      BY <1>7 DEF To
    <2>12. QED  BY <1>1, <1>5, <2>1, <2>3, <2>7, <2>8, <2>9, <2>10, <2>11 DEF Stands
  <1>8. QED  BY <1>5, <1>6, <1>7

\* The other steps work on the node at the top.
LEMMA StandsSame ==
    ASSUME ShapeInv, AddressInv, NEW t \in Tasks, task[t].seen = <<>>,
           Stands(task[t], cursor),
           \/ Match(t) \/ Show(t) \/ ValueToStr(t) \/ CheckType(t) \/ GetValue(t)
           \/ Count(t) \/ Entered(t) \/ Counted(t)
    PROVE  Stands(task'[t], cursor')
  <1>1. PICK r, q : /\ r = task[t] /\ Shape(r) /\ q = task'[t]
                    /\ r.pc \in {"match", "show", "print", "assert", "read", "count", "add"}
    BY DEF ShapeInv, Match, Show, ValueToStr, CheckType, GetValue, Count, Entered,
           Counted, At
  <1>2. PICK c : c = r.stack[Len(r.stack)] /\ Live(c)
    BY <1>1 DEF Stands
  <1>3. \A x : [cursor EXCEPT !.num = x].field = cursor.field
    BY DEF ShapeInv, CursorSet
  <1>4. ASSUME q.stack = r.stack, cursor'.field = cursor.field
        PROVE  Stands(q, cursor')
    BY <1>1, <1>4, SameStands
  <1>5. ASSUME Prints(r, q), cursor'.field = cursor.field
        PROVE  Stands(q, cursor')
    BY <1>4, <1>5 DEF Prints, Stands
  <1>6. CASE Match(t)
    <2>1. cursor' = cursor /\ q.stack \in {r.stack, <<c>>, <<c, c>>}
      BY <1>1, <1>2, <1>6, MatchIs
    <2>2. CASE q.stack = r.stack
      BY <1>1, <1>4, <2>1, <2>2
    <2>3. CASE q.stack \in {<<c>>, <<c, c>>}
      BY <1>1, <1>2, <2>3, SearchStands
    <2>4. QED  BY <2>1, <2>2, <2>3
  <1>7. CASE Show(t)
    BY <1>1, <1>4, <1>7, ShowIs
  <1>8. CASE ValueToStr(t)
    BY <1>1, <1>4, <1>5, <1>8, ValueToStrIs
  <1>9. CASE CheckType(t)
    BY <1>1, <1>4, <1>9, CheckTypeIs
  <1>10. CASE GetValue(t)
    BY <1>1, <1>3, <1>4, <1>5, <1>10, GetValueIs
  <1>11. CASE Count(t)
    BY <1>1, <1>3, <1>4, <1>11, CountIs
  <1>12. CASE Entered(t)
    BY <1>1, <1>4, <1>12, EnteredIs
  <1>13. CASE Counted(t)
    BY <1>1, <1>5, <1>13, CountedIs
  <1>14. QED  BY <1>6, <1>7, <1>8, <1>9, <1>10, <1>11, <1>12, <1>13

\* The getter stays the right one until it is called.
LEMMA GettingStep ==
    ASSUME ShapeInv, AddressInv, NEW t \in Tasks, task[t].seen = <<>>,
           Getting(task[t]), Request(t) \/ Call(t), ~Tests(t), ~Fault(t)
    PROVE  Getting(task[t])'
  <1>1. PICK r, q : r = task[t] /\ q = task'[t] /\ Shape(r)
    BY DEF ShapeInv
  <1>2. SUFFICES ASSUME q.pc \in {"assert", "read"}
                 PROVE  Getting(task[t])'
    BY <1>1 DEF Getting
  <1>3. CASE ValueToStr(t)
    <2>1. cursor' = cursor /\ q.stack = r.stack
          /\ q.type = GetType(r.stack[Len(r.stack)]) /\ q.type # "inner"
      BY <1>1, <1>2, <1>3, ValueToStrIs DEF Prints, To
    <2>2. QED  BY <1>1, <2>1 DEF Getting, GetType, PsType, NetifType
  <1>4. CASE CheckType(t)
    <2>1. cursor' = cursor /\ q.stack = r.stack /\ q.type = r.type
      BY <1>1, <1>4, CheckTypeIs
    <2>2. r.pc = "assert"
      BY <1>1, <1>4 DEF CheckType, At
    <2>3. r.type = GetType(r.stack[Len(r.stack)]) /\ r.type # "inner"
      BY <1>1, <2>2 DEF Getting
    <2>4. QED  BY <1>1, <2>1, <2>3 DEF Getting, GetType, PsType, NetifType
  <1>5. CASE Request(t)
    BY <1>1, <1>2, <1>5, RequestIs
  <1>6. CASE Lookup(t) \/ List(t)
    BY <1>1, <1>2, <1>6, LookupIs, ListIs DEF To
  <1>7. CASE Match(t) \/ Type(t) \/ Show(t)
    BY <1>1, <1>2, <1>7, MatchIs, TypeIs, ShowIs DEF To
  <1>8. CASE GetValue(t)
    BY <1>1, <1>2, <1>8, GetValueIs DEF To, Prints
  <1>9. CASE Count(t)
    BY <1>1, <1>2, <1>9, CountIs
  <1>10. CASE Add(t) \/ Link(t) \/ Publish(t)
    <2>1. CASE Entered(t)
      BY <1>1, <1>2, <2>1, EnteredIs DEF To
    <2>2. CASE UNCHANGED <<task, cursor>>
      BY <1>1, <2>2 DEF Getting, GetType, PsType, NetifType
    <2>3. QED  BY <1>10, <2>1, <2>2, InsertionIs
  <1>11. CASE Counted(t)
    BY <1>1, <1>2, <1>11, CountedIs DEF To, Prints
  <1>12. QED  BY <1>3, <1>4, <1>5, <1>6, <1>7, <1>8, <1>9, <1>10, <1>11 DEF Call

\* A node that is there has a name...
LEMMA Nameable ==
    ASSUME threads = Started, NEW c, Live(c), ~WalkFaults
    PROVE  ~NameFaults(c)
  BY DEF Live, Decent, NameFaults

\* ...and, where it has one, a value.
LEMMA Readable ==
    ASSUME threads = Started, InTables(cursor), NEW c \in WrittenNodes, Live(c), ~WalkFaults,
           NEW type, type = GetType(c), type # "inner"
    PROVE  ~ReadFaults(c, type)
  <1>1. CASE c.ops = "ps"
    <2>1. c.is_root = 0
      BY <1>1 DEF GetType, PsType
    <2>2. QED  BY <1>1, <2>1 DEF Live, ReadFaults
  <1>2. CASE c.ops = "saul"
    <2>1. c.is_root = 0
      BY <1>2 DEF GetType, SaulType
    <2>2. QED  BY <1>2, <2>1 DEF Live, ReadFaults
  <1>3. CASE c.ops = "netif"
    <2>1. PICK i \in 0 .. Len(IfaceName), k \in 0 .. 4 : c = NetifNode(i, k)
      BY <1>3, Kinds
    <2>2. c.is_root = k
      BY <2>1 DEF NetifNode
    <2>3. type = NetifType(c)
      BY <1>3 DEF GetType
    <2>4. k \notin {3, 4}
      BY <2>2, <2>3 DEF NetifType
    <2>5. k \in {0, 1, 2}
      BY <2>4
    <2>6. c.iface # NULL
      BY <1>3, <2>2, <2>5 DEF Live, Decent
    <2>7. QED  BY <1>3, <2>6 DEF ReadFaults
  <1>4. QED  BY <1>1, <1>2, <1>3 DEF ReadFaults

\* So no step of such a command is a fault.
LEMMA Faultless ==
    ASSUME ShapeInv, AddressInv, threads = Started, InTables(cursor), NEW t \in Tasks,
           task[t].seen = <<>>, Stands(task[t], cursor), Getting(task[t]),
           NumberInv(t), CountKept
    PROVE  ~Fault(t)
  <1>1. PICK r : r = task[t] /\ Shape(r)
    BY DEF ShapeInv
  <1>2. PICK n \in Nat : n = Len(r.stack)
    BY <1>1 DEF Shape
  <1>3. PICK c : c = r.stack[n]
    OBVIOUS
  <1>4. r.pc \notin {"count", "add"} => ~WalkFaults
    <2>1. PICK v, l \in Nat : v = cursor.num /\ l = Len(list)
      <3>1. Uint8 \subseteq Nat
        BY DEF Uint8
      <3>2. cursor.num \in Nat
        BY <3>1, CursorFields DEF ShapeInv
      <3>3. Len(list) \in Nat
        BY LenProperties DEF AddressInv
      <3>4. QED  BY <3>2, <3>3
    <2>2. r.pc \notin {"count", "add"} => v <= l
      BY <1>1, <2>1, NumberBound
    <2>3. v <= l => ~(v - 1 > l)
      BY <2>1
    <2>4. QED  BY <2>1, <2>2, <2>3 DEF WalkFaults
  <1>5. r.pc \notin {"idle", "lookup", "list"} => Live(c)
    BY <1>1, <1>2, <1>3 DEF Stands
  <1>6. At(t, "match") \/ At(t, "show") => Child(t) = c /\ ~NameFaults(c)
    <2>1. SUFFICES ASSUME r.pc \in {"match", "show"}
                   PROVE  Child(t) = c /\ ~NameFaults(c)
      BY <1>1 DEF At
    <2>2. Child(t) = c
      BY <1>1, <1>2, <1>3, <2>1, TopOfStack
    <2>3. QED  BY <1>4, <1>5, <2>1, <2>2, Nameable
  <1>7. At(t, "assert") \/ At(t, "read") =>
            Child(t) = c /\ r.type = GetType(c) /\ ~ReadFaults(c, r.type)
    <2>1. SUFFICES ASSUME r.pc \in {"assert", "read"}
                   PROVE  Child(t) = c /\ r.type = GetType(c) /\ ~ReadFaults(c, r.type)
      BY <1>1 DEF At
    <2>2. Child(t) = c
      BY <1>1, <1>2, <1>3, <2>1, TopOfStack DEF Reading
    <2>3. r.type = GetType(c) /\ r.type # "inner"
      BY <1>1, <1>2, <1>3, <2>1 DEF Getting
    <2>4. c \in WrittenNodes
      BY <1>1, <1>2, <1>3, <2>1 DEF Shape, StackOK, Reading
    <2>5. QED  BY <1>4, <1>5, <2>1, <2>2, <2>3, <2>4, Readable
  <1>8. At(t, "list") => \A s \in Outcomes(t) : s.child # Uninitialised
    <2>1. SUFFICES ASSUME r.pc = "list"
                   PROVE  \A s \in Outcomes(t) : s.child # Uninitialised
      BY <1>1 DEF At
    <2>2. PICK s : s = NextOf(r)
      OBVIOUS
    <2>3. Outcomes(t) = {s}
      BY <1>1, <2>1, <2>2, TopOfStack DEF Outcomes, NextOf
    <2>4. NextFit(r.stack[n - 1], cursor, s)
      BY <1>1, <1>2, <2>1, <2>2, NextIsFit
    <2>5. s.child = NullNode \/ Live(s.child)
      BY <2>4 DEF NextFit
    <2>6. NullNode.ops = "null" /\ Uninitialised.ops = "uninit"
      BY DEF NullNode, Uninitialised
    <2>7. s.child # Uninitialised
      BY <2>5, <2>6 DEF Live
    <2>8. QED  BY <2>3, <2>7
  <1>9. QED  BY <1>1, <1>6, <1>7, <1>8 DEF Fault

\* The inductive invariant of the one reader t.
SafeInv(t) ==
    /\ threads = Started /\ (CountKept => ~halted)
    /\ Stands(task[t], cursor) /\ Getting(task[t])

\* Every step keeps that.
LEMMA SafeStep ==
    ASSUME Mortal = {}, ShapeInv, AddressInv, CountersInv, NEW t \in Tasks,
           \A u \in Tasks \ {t} : Requests[u] = {}, NumberInv(t), SafeInv(t), [Next]_vars
    PROVE  SafeInv(t)'
  <1>1. task[t].seen = <<>> /\ InTables(cursor)
    BY DEF CountersInv
  <1>2. ASSUME NEW u \in Tasks, Fault(u)
        PROVE  ~CountKept
    <2>1. u = t
      BY <1>2 DEF CountersInv, Fault, At
    <2>2. QED  BY <1>1, <1>2, <2>1, Faultless DEF SafeInv
  <1>3. ASSUME NEW u \in Tasks, u # t, Request(u) \/ (Call(u) /\ ~Fault(u))
        PROVE  (Link(u) \/ Publish(u)) /\ UNCHANGED <<cursor, task, threads, halted>>
    BY <1>3, NeverRuns DEF CountersInv
  <1>4. ASSUME UNCHANGED <<task, cursor>>
        PROVE  Stands(task[t], cursor)' /\ Getting(task[t])'
    BY <1>4 DEF SafeInv, Getting, GetType, PsType, NetifType
  <1>5. ~ThreadExit
    BY DEF ThreadExit
  <1>6. ASSUME Request(t) \/ Call(t), ~Fault(t)
        PROVE  SafeInv(t)'
    <2>1. ~Tests(t)
      BY QueryAssumption DEF Tests, Tasks
    <2>2. Stands(task[t], cursor)'
      <3>1. Add(t) \/ Link(t) \/ Publish(t) =>
                Entered(t) \/ Stands(task[t], cursor)'
        BY <1>4, InsertionIs
      <3>2. QED  BY <1>1, <1>6, <2>1, <3>1, StandsRequest, StandsNext, StandsType,
                    StandsSame DEF SafeInv, Call
    <2>3. Getting(task[t])'
      BY <1>1, <1>6, <2>1, GettingStep DEF SafeInv
    <2>4. threads' = threads /\ ~halted'
      <3>1. CASE Request(t)
        BY <3>1 DEF Request, env, At, CanRun
      <3>2. CASE ValueToStr(t) \/ CheckType(t) \/ GetValue(t) \/ Count(t) \/ Counted(t)
        BY <3>2 DEF ValueToStr, CheckType, GetValue, Count, Counted, env, At, CanRun
      <3>3. CASE Add(t) \/ Link(t) \/ Publish(t)
        BY <3>3, InsertionIs DEF CanRun
      <3>4. CASE Lookup(t) \/ Match(t) \/ Type(t) \/ List(t) \/ Show(t)
        BY <3>4 DEF Lookup, Match, Type, List, Show, env, At, CanRun
      <3>5. QED  BY <1>6, <2>1, <3>1, <3>2, <3>3, <3>4 DEF Call
    <2>5. QED  BY <2>2, <2>3, <2>4 DEF SafeInv
  <1>7. CASE UNCHANGED vars
    BY <1>4, <1>7 DEF vars, SafeInv, CountKept
  <1>8. CASE NibChange
    BY <1>4, <1>8 DEF NibChange, db, SafeInv, CountKept
  <1>9. CASE Measure
    BY <1>4, <1>9 DEF Measure, SafeInv, CountKept, env
  <1>10. ASSUME NEW u \in Tasks, Fault(u)
         PROVE  SafeInv(t)'
    BY <1>2, <1>4, <1>10 DEF Fault, Halt, env, db, SafeInv, CountKept
  <1>11. ASSUME NEW u \in Tasks, u # t, Request(u) \/ Call(u), ~Fault(u)
         PROVE  SafeInv(t)'
    <2>1. ~halted
      BY <1>3, <1>11 DEF Link, Publish, CanRun
    <2>2. QED  BY <1>3, <1>4, <1>11, <2>1 DEF SafeInv
  <1>12. QED  BY <1>5, <1>6, <1>7, <1>8, <1>9, <1>10, <1>11 DEF Next

\* No sequence of queries, listings and dumps makes an assertion of the node
\* operations fail, lets one of them work on a node nobody has written or on a
\* thread, device or interface that is not there, or follows the list of neighbours
\* past its end, for every board and however the neighbours change meanwhile: as long
\* as one thread reads the database, no thread exits, and nothing has happened to the
\* last counting of the neighbours.
THEOREM FaultCorrect ==
    ASSUME OneReader, Mortal = {}
    PROVE  Spec => [](CountKept => NoFault)
  <1>1. PICK t \in Tasks : \A u \in Tasks \ {t} : Requests[u] = {}
    BY OneReader DEF OneReader
  <1>2. Init => AddressInv /\ CountersInv /\ NumberInv(t) /\ SafeInv(t)
    <2>1. SUFFICES ASSUME Init
                   PROVE  AddressInv /\ CountersInv /\ NumberInv(t) /\ SafeInv(t)
      OBVIOUS
    <2>2. /\ \A u \in Tasks : task[u] = Idle
          /\ cursor.num = 0 /\ list = <<>> /\ Len(list) = 0
      BY <2>1 DEF Init, CursorInit
    <2>3. Idle.pc = "idle" /\ Idle.seen = <<>>
      BY DEF Idle
    <2>4. AddressInv
      BY <2>1, SoundInit DEF Tasks
    <2>5. InTables(cursor)
      BY <2>1 DEF Init, CursorInit, InTables
    <2>6. CountersInv
      BY <2>2, <2>3, <2>5 DEF CountersInv, Fits
    <2>7. NumberInv(t)
      BY <2>1, NumberInit
    <2>8. SafeInv(t)
      BY <2>1, <2>2, <2>3 DEF Init, SafeInv, Stands, Getting
    <2>9. QED  BY <2>4, <2>6, <2>7, <2>8
  <1>3. Spec => []ShapeInv
    BY ShapeInit, ShapeStep, PTL DEF Spec
  <1>4. (/\ ShapeInv /\ ShapeInv' /\ AddressInv /\ CountersInv
         /\ NumberInv(t) /\ SafeInv(t) /\ [Next]_vars)
           => AddressInv' /\ CountersInv' /\ NumberInv(t)' /\ SafeInv(t)'
    BY <1>1, OneReader, AddressStep, CountersStep, ReaderNumbers, SafeStep
  <1>5. SafeInv(t) => (CountKept => NoFault)
    BY DEF SafeInv, NoFault
  <1>6. QED  BY <1>2, <1>3, <1>4, <1>5, PTL DEF Spec

-----------------------------------------------------------------------------
(* What is there is found.                                                 *)

\* The subtrees of ps.c, saul_devices.c and netif.c are alike: a folder of items,
\* and below each of them its fields.  The folder, when q is the next item...
Subtree(kind, q) ==
    CASE kind = "ps"      -> PsNode(q, 2)
      [] kind = "devices" -> SaulNode(q, 2)
      [] kind = "netif"   -> NetifNode(q, 4)

\* ...the item q, a field...
Item(kind, q) ==
    CASE kind = "ps"      -> PsNode(q, 1)
      [] kind = "devices" -> SaulNode(q, 1)
      [] kind = "netif"   -> NetifNode(q, 3)

IsField(kind, n) ==
    CASE kind = "ps"      -> n.ops = "ps" /\ n.is_root = 0
      [] kind = "devices" -> n.ops = "saul" /\ n.is_root = 0
      [] kind = "netif"   -> n.ops = "netif" /\ n.is_root = 2

\* ...the items there can be and those there are, with their names...
Slots(kind) ==
    CASE kind = "ps"      -> 1 .. PidLast
      [] kind = "devices" -> 1 .. Len(DeviceName)
      [] kind = "netif"   -> 1 .. Len(IfaceName)

Items(kind) == IF kind = "ps" THEN threads ELSE Slots(kind)

ItemName(kind, q) ==
    CASE kind = "ps"      -> ThreadName[q]
      [] kind = "devices" -> DeviceName[q]
      [] kind = "netif"   -> IfaceName[q]

\* ...and the names of the fields with their counter.
FieldNames(kind) ==
    CASE kind = "ps"      -> PsFields
      [] kind = "devices" -> <<"class">>
      [] kind = "netif"   -> NetifFields

FieldCounter(kind, cur) ==
    CASE kind = "ps"      -> cur.ps
      [] kind = "devices" -> cur.saul
      [] kind = "netif"   -> cur.field

\* The fields that are leaves: "neighbours" is a folder.
LeafFields(kind) == IF kind = "netif" THEN 1 .. 4 ELSE DOMAIN FieldNames(kind)

\* The path to the field k of the item m in the subtree below the branch i.
PathTo(i, kind, m, k) ==
    <<db_index[i].name, kind, ItemName(kind, m), FieldNames(kind)[k]>>

\* The counter of ps.c is left anywhere by what was read before.  Where the lookup
\* is one that has just failed (again), it starts with the counter at 0.
Reset(kind, again, cur) == kind = "ps" /\ again => cur.ps = 0

\* The lookup has not passed the folder of the subtree yet...
ToFolder(r, i, kind, again, cur) ==
    LET n == r.stack[1]
        c == r.stack[2]
        p == r.path
        last == Len(db_index[i].static)
    IN  /\ Reset(kind, again, cur)
        /\ \/ /\ r.todo = p
              /\ \E j \in 0 .. i - 1 :
                    IF r.pc = "lookup" THEN n = RootNode(j)
                    ELSE n = RootNode(j + 1) /\ c = FlNode(j, 0, 1)
           \/ /\ r.todo = <<p[2], p[3], p[4]>>
              /\ \E j \in 0 .. last :
                    IF r.pc = "lookup" THEN n = FlNode(i - 1, j, 1)
                    ELSE /\ n = FlNode(i - 1, j + 1, 1)
                         /\ IF j < last THEN c = FlNode(i - 1, j, 0)
                            ELSE /\ c = Subtree(kind, 1)
                                 /\ kind = "netif" => cur.field = 0

\* ...nor, in it, the item...
ToItem(r, kind, m, again, cur) ==
    LET n == r.stack[1]
        c == r.stack[2]
        p == r.path
    IN  /\ Reset(kind, again, cur) /\ (kind = "netif" => cur.field = 0)
        /\ r.todo = <<p[3], p[4]>>
        /\ \E q \in 1 .. m :
              IF r.pc = "lookup" THEN n = Subtree(kind, q)
              ELSE /\ c = Item(kind, q)
                   /\ q < m => \E next \in 1 .. m : n = Subtree(kind, next)

\* ...nor, below an item of that name, the field.
ToField(r, kind, k, again, cur) ==
    LET n == r.stack[1]
        c == r.stack[2]
        p == r.path
        held == kind # "ps" \/ again
        at   == FieldCounter(kind, cur)
    IN  /\ r.todo = <<p[4]>>
        /\ \/ /\ r.pc = "lookup" /\ (held => at = 0)
              /\ \E q \in Slots(kind) : n = Item(kind, q)
           \/ /\ r.pc = "lookup" /\ (held => at < k - 1)
              /\ IsField(kind, n) /\ IsField(kind, c)
           \/ /\ r.pc = "match" /\ (held => at <= k - 1)
              /\ IsField(kind, n) /\ IsField(kind, c)

\* So it is still to come, or found; a lookup of a field of a thread may miss it
\* once, and has then run the counter of ps.c to its end.
Finds(r, i, kind, m, k, again, cur) ==
    r.path = PathTo(i, kind, m, k) =>
        \/ /\ r.pc = "idle"
           /\ r.res = <<"enoent">> => kind = "ps" /\ ~again /\ cur.ps = 0
        \/ r.pc \in {"type", "list", "show"} \cup Reading
        \/ /\ r.pc \in {"lookup", "match"}
           /\ \/ ToFolder(r, i, kind, again, cur)
              \/ ToItem(r, kind, m, again, cur)
              \/ ToField(r, kind, k, again, cur)

-----------------------------------------------------------------------------
(* The enumeration leads on to it.                                         *)

\* The branch of a dynamic subtree holds no other.
LEMMA BranchOf ==
    ASSUME NEW i \in 1 .. Len(db_index), NEW kind \in ToSet(db_index[i].dynamic)
    PROVE  LET e == db_index[i]
           IN  /\ kind \in {"ps", "devices", "netif"}
               /\ e.dynamic[1] = kind /\ Len(e.dynamic) = 1
               /\ Len(e.static) \in 1 .. 5 /\ i \in 1 .. 4
               /\ e.name \in StaticNames
               /\ \A s \in ToSet(e.static) : s[1] \in StaticNames /\ s[1] # kind
  <1>1. PICK e \in Branches : e = db_index[i]
    BY Index
  <1>2. /\ kind \in {"ps", "devices", "netif"}
        /\ e.dynamic[1] = kind /\ Len(e.dynamic) = 1
        /\ Len(e.static) \in 1 .. 5
        /\ \A s \in ToSet(e.static) : s[1] # kind
    <2>1. CASE e = Board
      BY <1>1, <2>1 DEF Board, ToSet
    <2>2. CASE e = Runtime
      BY <1>1, <2>2 DEF Runtime, ToSet
    <2>3. CASE e = Network
      BY <1>1, <2>3 DEF Network, ToSet
    <2>4. CASE e = Saul
      BY <1>1, <2>4 DEF Saul, ToSet
    <2>5. QED  BY <1>1, <2>1, <2>2, <2>3, <2>4 DEF Branches
  <1>3. i \in 1 .. 4
    BY Index
  <1>4. e \in ToSet(db_index)
    BY <1>1, Index DEF ToSet
  <1>5. e.name \in StaticNames /\ \A s \in ToSet(e.static) : s[1] \in StaticNames
    BY <1>4 DEF StaticNames
  <1>6. QED  BY <1>1, <1>2, <1>3, <1>5

\* A branch has its dynamic subtree behind the static entries.
LEMMA DynamicNext ==
    ASSUME NEW i \in 1 .. Len(db_index), NEW kind \in ToSet(db_index[i].dynamic),
           NEW m \in Items(kind), threads \subseteq 1 .. PidLast, NEW c, NEW cur,
           NEW j, j = Len(db_index[i].static)
    PROVE  NextChild(FlNode(i - 1, j, 1), c, cur, cur)
              = Step(FlNode(i - 1, j + 1, 1), Subtree(kind, 1), DynamicCursor(kind, cur))
  <1>1. PICK e : /\ e = db_index[i] /\ e.dynamic[1] = kind /\ Len(e.dynamic) = 1
                 /\ Len(e.static) \in 1 .. 5 /\ i \in 1 .. 4
                 /\ kind \in {"ps", "devices", "netif"}
    BY BranchOf
  <1>2. PICK n : n = FlNode(i - 1, j, 1)
    OBVIOUS
  <1>3. /\ n = FlNode(i - 1, j, 1) /\ n.ops = "fl" /\ n.fl_idx = i - 1
        /\ n.sub_idx = j /\ n.is_root = 1
    BY <1>2 DEF FlNode
  <1>4. FlEntry(n) = e
    <2>1. (i - 1) + 1 = i
      BY <1>1
    <2>2. QED  BY <1>1, <1>3, <2>1 DEF FlEntry
  <1>5. n.sub_idx - Len(e.static) + 1 = 1
    BY <1>1, <1>3
  <1>6. [n EXCEPT !.sub_idx = @ + 1] = FlNode(i - 1, j + 1, 1)
    BY <1>3 DEF FlNode
  <1>7. DynamicNode(kind) = Subtree(kind, 1)
    <2>1. CASE kind = "ps"
      BY <2>1 DEF DynamicNode, Subtree
    <2>2. CASE kind = "devices"
      <3>1. PICK l \in Nat : l = Len(DeviceName) /\ m \in 1 .. l
        BY <2>2, DbAssumption DEF Items, Slots
      <3>2. DeviceNext(NULL) = 1
        BY <3>1 DEF DeviceNext, NULL
      <3>3. QED  BY <2>2, <3>2 DEF DynamicNode, Subtree
    <2>3. CASE kind = "netif"
      <3>1. PICK l \in Nat : l = Len(IfaceName) /\ m \in 1 .. l
        BY <2>3, DbAssumption DEF Items, Slots
      <3>2. IfaceIter(NULL) = 1
        BY <3>1 DEF IfaceIter, NULL
      <3>3. QED  BY <2>3, <3>2 DEF DynamicNode, Subtree
    <2>4. QED  BY <1>1, <2>1, <2>2, <2>3
  <1>8. NextChild(n, c, cur, cur) = FlNextChild(n, cur)
    BY <1>3 DEF NextChild
  <1>9. PICK d, l : d = n.sub_idx - l + 1 /\ l = Len(e.static) /\ d = 1
    BY <1>5
  <1>10. ~(d <= 0) /\ d \in 1 .. Len(e.dynamic)
    BY <1>1, <1>9
  <1>11. FlNextChild(n, cur)
           = Step([n EXCEPT !.sub_idx = @ + 1], DynamicNode(kind), DynamicCursor(kind, cur))
    BY <1>1, <1>3, <1>4, <1>9, <1>10 DEF FlNextChild
  <1>12. QED  BY <1>3, <1>6, <1>7, <1>8, <1>11

\* The next child of the folder is the item it stands at; if that comes before
\* the item m, it does not pass m.
LEMMA ItemNext ==
    ASSUME threads \subseteq 1 .. PidLast, NEW kind \in {"ps", "devices", "netif"},
           NEW m \in Items(kind), NEW q \in 1 .. m, NEW c, NEW cur,
           NEW s, s = NextChild(Subtree(kind, q), c, cur, cur)
    PROVE  /\ s.child = Item(kind, q) /\ s.cursor = cur
           /\ q \in Slots(kind) /\ m \in Slots(kind)
           /\ q < m => \E next \in 1 .. m : s.node = Subtree(kind, next)
  <1>1. CASE kind = "ps"
    <2>1. PICK last \in Nat : last = PidLast /\ m \in 1 .. last /\ m \in threads
      BY <1>1, DbAssumption DEF Items
    <2>2. q \in 1 .. last /\ q <= last
      BY <2>1
    <2>3. PICK n : n = PsNode(q, 2)
      OBVIOUS
    <2>4. n = PsNode(q, 2) /\ n.ops = "ps" /\ n.pid = q /\ n.is_root = 2
      BY <2>3 DEF PsNode
    <2>5. s = Step([n EXCEPT !.pid = NextPid(@)], PsNode(n.pid, 1), cur)
      BY <1>1, <2>1, <2>2, <2>4 DEF NextChild, PsNextChild, Subtree
    <2>6. [n EXCEPT !.pid = NextPid(@)] = PsNode(NextPid(q), 2)
      BY <2>4 DEF PsNode
    <2>7. q < m => NextPid(q) \in 1 .. m
      <3>1. SUFFICES ASSUME q < m PROVE NextPid(q) \in 1 .. m
        OBVIOUS
      <3>. DEFINE Q == {u \in threads : u > q} \cup {PidLast + 1}
      <3>2. Q \in SUBSET Nat /\ m \in Q
        <4>1. \A u \in threads : u \in 1 .. last
          BY <2>1
        <4>2. last + 1 \in Nat /\ m > q
          BY <2>1, <2>2, <3>1
        <4>3. \A u \in threads : u \in Nat
          BY <2>1, <4>1
        <4>4. m \in Q
          BY <2>1, <4>2
        <4>5. Q \subseteq Nat
          BY <2>1, <4>2, <4>3
        <4>6. QED  BY <4>4, <4>5
      <3>3. Min(Q) \in Q /\ Min(Q) <= m
        BY <3>2, MinIs
      <3>4. \A u \in Q : u \in Nat /\ u >= 1
        BY <2>1
      <3>. HIDE DEF Q
      <3>5. Min(Q) \in 1 .. m
        BY <2>1, <3>3, <3>4
      <3>6. QED  BY <3>5 DEF NextPid, Q
    <2>8. s.child = PsNode(q, 1) /\ s.cursor = cur /\ s.node = PsNode(NextPid(q), 2)
      BY <2>4, <2>5, <2>6 DEF Step
    <2>9. QED  BY <1>1, <2>1, <2>2, <2>7, <2>8 DEF Subtree, Item, Slots
  <1>2. CASE kind = "devices"
    <2>1. PICK last \in Nat : last = Len(DeviceName) /\ m \in 1 .. last
      BY <1>2, DbAssumption DEF Items, Slots
    <2>2. q \in 1 .. last /\ q # 0
      BY <2>1
    <2>3. PICK n : n = SaulNode(q, 2)
      OBVIOUS
    <2>4. n = SaulNode(q, 2) /\ n.ops = "saul" /\ n.dev = q /\ n.is_root = 2
      BY <2>3 DEF SaulNode
    <2>5. s = Step([n EXCEPT !.dev = DeviceNext(@)], SaulNode(n.dev, 1), cur)
      BY <1>2, <2>1, <2>2, <2>4 DEF NextChild, SaulNextChild, Subtree, NULL
    <2>6. [n EXCEPT !.dev = DeviceNext(@)] = SaulNode(DeviceNext(q), 2)
      BY <2>4 DEF SaulNode
    <2>7. q < m => DeviceNext(q) \in 1 .. m
      BY <2>1, <2>2 DEF DeviceNext
    <2>8. s.child = SaulNode(q, 1) /\ s.cursor = cur /\ s.node = SaulNode(DeviceNext(q), 2)
      BY <2>4, <2>5, <2>6 DEF Step
    <2>9. QED  BY <1>2, <2>1, <2>2, <2>7, <2>8 DEF Subtree, Item, Slots
  <1>3. CASE kind = "netif"
    <2>1. PICK last \in Nat : last = Len(IfaceName) /\ m \in 1 .. last
      BY <1>3, DbAssumption DEF Items, Slots
    <2>2. q \in 1 .. last /\ q # 0
      BY <2>1
    <2>3. PICK n : n = NetifNode(q, 4)
      OBVIOUS
    <2>4. n = NetifNode(q, 4) /\ n.ops = "netif" /\ n.iface = q /\ n.is_root = 4
      BY <2>3 DEF NetifNode
    <2>5. s = Step([n EXCEPT !.iface = IfaceIter(@)], NetifNode(n.iface, 3), cur)
      BY <1>3, <2>1, <2>2, <2>4 DEF NextChild, NetifNextChild, Subtree, NULL
    <2>6. [n EXCEPT !.iface = IfaceIter(@)] = NetifNode(IfaceIter(q), 4)
      BY <2>4 DEF NetifNode
    <2>7. q < m => IfaceIter(q) \in 1 .. m
      BY <2>1, <2>2 DEF IfaceIter
    <2>8. s.child = NetifNode(q, 3) /\ s.cursor = cur /\ s.node = NetifNode(IfaceIter(q), 4)
      BY <2>4, <2>5, <2>6 DEF Step
    <2>9. QED  BY <1>3, <2>1, <2>2, <2>7, <2>8 DEF Subtree, Item, Slots
  <1>4. QED  BY <1>1, <1>2, <1>3

\* Below an item the fields begin where the counter stands.
LEMMA FieldFirst ==
    ASSUME NEW kind \in {"ps", "devices", "netif"}, NEW q \in Slots(kind), NEW c, NEW cur,
           kind = "ps" => cur.ps \in 0 .. 4, kind = "devices" => cur.saul = 0,
           kind = "netif" => cur.field = 0,
           NEW s, s = NextChild(Item(kind, q), c, cur, cur)
    PROVE  /\ IsField(kind, s.node) /\ IsField(kind, s.child) /\ s.cursor = cur
           /\ s.child # NullNode
  <1>1. CASE kind = "ps"
    <2>1. PICK last \in Nat : last = PidLast /\ q \in 1 .. last
      BY <1>1, DbAssumption DEF Slots
    <2>2. q <= PidLast /\ cur.ps < 5 /\ Len(PsFields) = 5
      BY <1>1, <2>1 DEF PsFields
    <2>3. PICK n : n = PsNode(q, 1)
      OBVIOUS
    <2>4. n = PsNode(q, 1) /\ n.ops = "ps" /\ n.pid = q /\ n.is_root = 1
      BY <2>3 DEF PsNode
    <2>5. s = Step(PsNode(NextPid(q), 0), PsNode(q, 0), cur)
      BY <1>1, <2>2, <2>4 DEF NextChild, PsNextChild, PsFieldsBegin, Item
    <2>6. s.node = PsNode(NextPid(q), 0) /\ s.child = PsNode(q, 0) /\ s.cursor = cur
      BY <2>5 DEF Step
    <2>7. QED  BY <1>1, <2>6 DEF IsField, PsNode, NullNode
  <1>2. CASE kind = "devices"
    <2>1. PICK last \in Nat : last = Len(DeviceName) /\ q \in 1 .. last
      BY <1>2, DbAssumption DEF Slots
    <2>2. q # 0 /\ cur.saul < 1
      BY <1>2, <2>1
    <2>3. PICK n : n = SaulNode(q, 1)
      OBVIOUS
    <2>4. n = SaulNode(q, 1) /\ n.ops = "saul" /\ n.dev = q /\ n.is_root = 1
      BY <2>3 DEF SaulNode
    <2>5. s = Step(SaulNode(DeviceNext(q), 0), SaulNode(q, 0), cur)
      BY <1>2, <2>2, <2>4 DEF NextChild, SaulNextChild, Item, NULL
    <2>6. s.node = SaulNode(DeviceNext(q), 0) /\ s.child = SaulNode(q, 0)
          /\ s.cursor = cur
      BY <2>5 DEF Step
    <2>7. QED  BY <1>2, <2>6 DEF IsField, SaulNode, NullNode
  <1>3. CASE kind = "netif"
    <2>1. PICK last \in Nat : last = Len(IfaceName) /\ q \in 1 .. last
      BY <1>3, DbAssumption DEF Slots
    <2>2. q # 0 /\ cur.field < 5 /\ Len(NetifFields) = 5
      BY <1>3, <2>1 DEF NetifFields
    <2>3. PICK n : n = NetifNode(q, 3)
      OBVIOUS
    <2>4. n = NetifNode(q, 3) /\ n.ops = "netif" /\ n.iface = q /\ n.is_root = 3
      BY <2>3 DEF NetifNode
    <2>5. s = Step(NetifNode(IfaceIter(q), 2), NetifNode(q, 2), cur)
      BY <1>3, <2>2, <2>4 DEF NextChild, NetifNextChild, Item, NULL
    <2>6. s.node = NetifNode(IfaceIter(q), 2) /\ s.child = NetifNode(q, 2)
          /\ s.cursor = cur
      BY <2>5 DEF Step
    <2>7. QED  BY <1>3, <2>6 DEF IsField, NetifNode, NullNode
  <1>4. QED  BY <1>1, <1>2, <1>3

\* Among the fields the counter moves on by one; behind the last field of a thread
\* it starts again.
LEMMA FieldNext ==
    ASSUME NEW kind \in {"ps", "devices", "netif"}, NEW n, IsField(kind, n),
           NEW c, NEW cur \in CursorSet,
           kind = "ps" => cur.ps \in 0 .. 4, kind = "devices" => FALSE,
           kind = "netif" => cur.field < 4,
           NEW s, s = NextChild(n, c, cur, cur)
    PROVE  \/ /\ s.node = n /\ s.child = c
              /\ FieldCounter(kind, s.cursor) = FieldCounter(kind, cur) + 1
           \/ /\ kind = "ps" /\ cur.ps = 4 /\ s.child = NullNode /\ s.cursor.ps = 0
  <1>1. CASE kind = "ps"
    <2>1. n.ops = "ps" /\ n.is_root = 0 /\ Len(PsFields) = 5
      BY <1>1 DEF IsField, PsFields
    <2>2. PICK v \in 0 .. 4 : v = cur.ps
      BY <1>1
    <2>3. IncInt8(v) = v + 1
      BY <2>2 DEF IncInt8
    <2>4. PICK x, y : x = [cur EXCEPT !.ps = 0] /\ y = [cur EXCEPT !.ps = IncInt8(@)]
      OBVIOUS
    <2>5. x.ps = 0 /\ y.ps = v + 1
      BY <2>2, <2>3, <2>4 DEF CursorSet
    <2>6. CASE v = 4
      <3>1. s = Step(n, NullNode, x)
        BY <2>1, <2>2, <2>4, <2>6 DEF NextChild, PsNextChild, AtLastField, PsFieldsEnd
      <3>2. s.child = NullNode /\ s.cursor = x
        BY <3>1 DEF Step
      <3>3. QED  BY <1>1, <2>2, <2>5, <2>6, <3>2
    <2>7. CASE v # 4
      <3>1. s = Step(n, c, y)
        BY <2>1, <2>2, <2>4, <2>7 DEF NextChild, PsNextChild, AtLastField
      <3>2. s.node = n /\ s.child = c /\ s.cursor = y
        BY <3>1 DEF Step
      <3>3. FieldCounter(kind, y) = v + 1 /\ FieldCounter(kind, cur) = v
        BY <1>1, <2>2, <2>5 DEF FieldCounter
      <3>4. QED  BY <3>2, <3>3
    <2>8. QED  BY <2>6, <2>7
  <1>2. CASE kind = "netif"
    <2>1. n.ops = "netif" /\ n.is_root = 2 /\ Len(NetifFields) = 5
      BY <1>2 DEF IsField, NetifFields
    <2>2. PICK v \in 0 .. 3 : v = cur.field
      <3>1. cur.field \in Uint8
        BY CursorFields
      <3>2. QED  BY <1>2, <3>1 DEF Uint8
    <2>3. IncUint8(v) = v + 1
      BY <2>2 DEF IncUint8
    <2>4. PICK y : y = [cur EXCEPT !.field = IncUint8(@)]
      OBVIOUS
    <2>5. y.field = v + 1
      BY <2>2, <2>3, <2>4 DEF CursorSet
    <2>6. s = Step(n, c, y)
      BY <2>1, <2>2, <2>4 DEF NextChild, NetifNextChild
    <2>7. s.node = n /\ s.child = c /\ s.cursor = y
      BY <2>6 DEF Step
    <2>8. FieldCounter(kind, y) = v + 1 /\ FieldCounter(kind, cur) = v
      BY <1>2, <2>2, <2>5 DEF FieldCounter
    <2>9. QED  BY <2>7, <2>8
  <1>3. QED  BY <1>1, <1>2

\* db_find_node_by_path: what a lookup does with what get_next_child returns.
LEMMA LookupTo ==
    ASSUME ShapeInv, NEW t \in Tasks, task[t].seen = <<>>, Lookup(t)
    PROVE  LET r == task[t]
               q == task'[t]
               s == NextChild(r.stack[1], r.stack[2], cursor, cursor)
           IN  /\ r.pc = "lookup" /\ cursor' = s.cursor /\ q.path = r.path
               /\ s.child = NullNode => q.pc = "idle" /\ q.res = <<"enoent">>
               /\ s.child # NullNode =>
                     /\ q.pc = "match" /\ q.todo = r.todo
                     /\ q.stack[1] = s.node /\ q.stack[2] = s.child
  <1>1. PICK r : r = task[t] /\ Shape(r) /\ r.pc = "lookup" /\ DOMAIN task = Tasks
                 /\ DOMAIN r = TaskFields /\ Len(r.stack) = 2
    BY DEF ShapeInv, Lookup, At, Shape, StackOK
  <1>2. PICK s : s = NextChild(r.stack[1], r.stack[2], cursor, cursor)
    OBVIOUS
  <1>3. Outcomes(t) = {s}
    <2>1. Node(t) = r.stack[1] /\ Child(t) = r.stack[2]
      BY <1>1, TopOfStack
    <2>2. QED  BY <1>1, <1>2, <2>1 DEF Outcomes
  <1>4. /\ cursor' = s.cursor
        /\ task'[t] = IF s.child = NullNode THEN Finished(r, <<"enoent">>)
                      ELSE [Enumerated(t, s) EXCEPT !.pc = "match"]
    BY <1>1, <1>3 DEF Lookup, Update
  <1>5. CASE s.child = NullNode
    <2>1. task'[t] = Finished(r, <<"enoent">>)
      BY <1>4, <1>5
    <2>2. task'[t].pc = "idle" /\ task'[t].path = r.path /\ task'[t].res = <<"enoent">>
      BY <2>1 DEF Finished, Idle
    <2>3. QED  BY <1>1, <1>2, <1>4, <1>5, <2>2
  <1>6. CASE s.child # NullNode
    <2>1. PICK e : e = Enumerated(t, s)
      OBVIOUS
    <2>2. DOMAIN e = TaskFields /\ e.path = r.path /\ e.todo = r.todo
      BY <1>1, <2>1 DEF Enumerated, TaskFields
    <2>3. e.stack[1] = s.node /\ e.stack[2] = s.child
      <3>1. PICK st \in Seq(NodeSet) : st = r.stack /\ Len(st) = 2
        BY <1>1 DEF Shape
      <3>2. e.stack = [st EXCEPT ![2 - 1] = s.node, ![2] = s.child]
        BY <1>1, <2>1, <3>1 DEF Enumerated, TaskFields
      <3>3. DOMAIN st = 1 .. 2 /\ 2 - 1 = 1
        BY <3>1
      <3>4. QED  BY <3>2, <3>3
    <2>4. task'[t] = [e EXCEPT !.pc = "match"]
      BY <1>4, <1>6, <2>1
    <2>5. /\ task'[t].pc = "match" /\ task'[t].path = e.path /\ task'[t].todo = e.todo
          /\ task'[t].stack = e.stack
      BY <2>2, <2>4 DEF TaskFields
    <2>6. QED  BY <1>1, <1>2, <1>4, <1>6, <2>2, <2>3, <2>5
  <1>7. QED  BY <1>5, <1>6

\* And with the name of the child.
LEMMA MatchTo ==
    ASSUME ShapeInv, NEW t \in Tasks, Match(t)
    PROVE  LET r == task[t]
               q == task'[t]
               c == r.stack[2]
               hit == Matches(Head(r.todo), GetName(c, r.name))
           IN  /\ r.pc = "match" /\ cursor' = cursor /\ q.path = r.path
               /\ ~hit => q.pc = "lookup" /\ q.todo = r.todo /\ q.stack = r.stack
               /\ hit /\ Tail(r.todo) # <<>> =>
                     q.pc = "lookup" /\ q.todo = Tail(r.todo) /\ q.stack = <<c, c>>
               /\ hit /\ Tail(r.todo) = <<>> => q.pc = "type"
  <1>1. PICK r : r = task[t] /\ Shape(r) /\ r.pc = "match" /\ DOMAIN task = Tasks
                 /\ DOMAIN r = TaskFields /\ Len(r.stack) = 2
                 /\ r.cmd \in {"dcaq", "dcadump", "get"}
    BY DEF ShapeInv, Match, At, Shape, StackOK
  <1>2. PICK c : c = r.stack[2] /\ Child(t) = c
    BY <1>1, TopOfStack
  <1>3. PICK name, rest : name = GetName(c, r.name) /\ rest = Tail(r.todo)
    OBVIOUS
  <1>4. cursor' = cursor
    BY DEF Match, db
  <1>5. CASE ~Matches(Head(r.todo), name)
    <2>1. task'[t] = [r EXCEPT !.pc = "lookup", !.name = name]
      BY <1>1, <1>2, <1>3, <1>5 DEF Match, Update
    <2>2. /\ task'[t].pc = "lookup" /\ task'[t].todo = r.todo
          /\ task'[t].stack = r.stack /\ task'[t].path = r.path
      BY <1>1, <2>1 DEF TaskFields
    <2>3. QED  BY <1>1, <1>2, <1>3, <1>4, <1>5, <2>2
  <1>6. CASE Matches(Head(r.todo), name) /\ rest # <<>>
    <2>1. task'[t] = [r EXCEPT !.pc = "lookup", !.todo = rest, !.name = name,
                               !.stack = <<c, c>>]
      BY <1>1, <1>2, <1>3, <1>6 DEF Match, Update
    <2>2. /\ task'[t].pc = "lookup" /\ task'[t].todo = rest
          /\ task'[t].stack = <<c, c>> /\ task'[t].path = r.path
      BY <1>1, <2>1 DEF TaskFields
    <2>3. QED  BY <1>1, <1>2, <1>3, <1>4, <1>6, <2>2
  <1>7. CASE Matches(Head(r.todo), name) /\ rest = <<>>
    <2>1. task'[t] = FoundNode(r, c)
      BY <1>1, <1>2, <1>3, <1>7 DEF Match, Update
    <2>2. task'[t].pc = "type" /\ task'[t].path = r.path
      BY <1>1, <2>1 DEF FoundNode, TaskFields
    <2>3. QED  BY <1>1, <1>2, <1>3, <1>4, <1>7, <2>2
  <1>8. QED  BY <1>5, <1>6, <1>7

\* A command that has found its node answers, lists or prints; it does not fail.
LEMMA FoundGoesOn ==
    ASSUME ShapeInv, NEW t \in Tasks,
           \/ Type(t) \/ List(t) \/ Show(t) \/ ValueToStr(t) \/ CheckType(t)
           \/ GetValue(t) \/ Count(t) \/ Entered(t) \/ Counted(t)
    PROVE  LET q == task'[t]
           IN  \/ q.pc \in {"type", "list", "show"} \cup Reading
               \/ q.pc = "idle" /\ q.res # <<"enoent">>
  <1>1. PICK r : r = task[t] /\ DOMAIN task = Tasks /\ DOMAIN r = TaskFields
    BY DEF ShapeInv, Shape
  <1>2. \A x, v, w : /\ Finished(x, <<v, w>>).pc = "idle"
                     /\ Finished(x, <<v, w>>).res = <<v, w>>
                     /\ <<v, w>> # <<"enoent">>
    BY DEF Finished, Idle
  <1>3. \A x : Finished(x, <<"listed">>).pc = "idle"
               /\ Finished(x, <<"listed">>).res # <<"enoent">>
    BY DEF Finished, Idle
  <1>4. \A v, w : LET q == Printed(r, <<v, w>>)
                  IN  q.pc = "list" \/ (q.pc = "idle" /\ q.res # <<"enoent">>)
    <2>1. TAKE v, w
    <2>2. CASE r.cmd # "dcadump"
      BY <1>2, <2>2 DEF Printed
    <2>3. CASE r.cmd = "dcadump"
      BY <1>1, <2>3 DEF Printed, TaskFields
    <2>4. QED  BY <2>2, <2>3
  <1>5. CASE Type(t) \/ Show(t) \/ CheckType(t) \/ Count(t) \/ Entered(t)
    <2>1. CASE Type(t) \/ Show(t) \/ CheckType(t)
      BY <1>1, <2>1 DEF Type, Show, CheckType, Update, TaskFields, Reading
    <2>2. CASE Count(t)
      BY <1>1, <2>2 DEF Count, Update, TaskFields, Reading
    <2>3. CASE Entered(t)
      <3>1. task'[t] = CountOn(r)
        BY <1>1, <2>3 DEF Entered, Update
      <3>2. CountOn(r).pc = "count"
        BY <1>1 DEF CountOn, TaskFields
      <3>3. QED  BY <3>1, <3>2 DEF Reading
    <2>4. QED  BY <1>5, <2>1, <2>2, <2>3
  <1>6. CASE ValueToStr(t)
    <2>1. PICK type : task'[t] = IF type = "inner"
                                 THEN Printed(r, <<"error", <<"error">> >>)
                                 ELSE [r EXCEPT !.pc = "assert", !.type = type]
      BY <1>1, <1>6 DEF ValueToStr, Update
    <2>2. [r EXCEPT !.pc = "assert", !.type = type].pc = "assert"
      BY <1>1 DEF TaskFields
    <2>3. QED  BY <1>4, <2>1, <2>2 DEF Reading
  <1>7. CASE GetValue(t)
    <2>1. PICK v : task'[t] \in {[r EXCEPT !.pc = "count"], Printed(r, <<"value", v>>)}
      BY <1>1, <1>7 DEF GetValue, Update
    <2>2. [r EXCEPT !.pc = "count"].pc = "count"
      BY <1>1 DEF TaskFields
    <2>3. QED  BY <1>4, <2>1, <2>2 DEF Reading
  <1>8. CASE Counted(t)
    <2>1. PICK v : task'[t] = Printed(r, <<"value", v>>)
      BY <1>1, <1>8 DEF Counted, Update
    <2>2. QED  BY <1>4, <2>1
  <1>9. CASE List(t)
    <2>1. PICK s \in Outcomes(t) :
            task'[t] = IF s.child = NullNode THEN Leave(Enumerated(t, s))
                       ELSE [Enumerated(t, s) EXCEPT !.pc = "show"]
      BY <1>1, <1>9 DEF List, Update
    <2>2. PICK e : e = Enumerated(t, s)
      OBVIOUS
    <2>3. e = Enumerated(t, s) /\ DOMAIN e = TaskFields /\ e.pc = "list"
      <3>1. r.pc = "list"
        BY <1>1, <1>9 DEF List, At
      <3>2. QED  BY <1>1, <2>2, <3>1 DEF Enumerated, TaskFields
    <2>4. CASE s.child # NullNode
      <3>1. task'[t] = [e EXCEPT !.pc = "show"]
        BY <2>1, <2>3, <2>4
      <3>2. QED  BY <2>3, <3>1 DEF TaskFields
    <2>5. CASE s.child = NullNode
      <3>1. task'[t] = Leave(e)
        BY <2>1, <2>3, <2>5
      <3>2. CASE Len(e.stack) = 2
        BY <1>3, <3>1, <3>2 DEF Leave
      <3>3. CASE Len(e.stack) # 2
        BY <2>3, <3>1, <3>3 DEF Leave, TaskFields
      <3>4. QED  BY <3>2, <3>3
    <2>6. QED  BY <2>4, <2>5
  <1>10. QED  BY <1>5, <1>6, <1>7, <1>8, <1>9

\* The names on the way.
LEMMA NamesOnTheWay ==
    ASSUME NEW kind \in {"ps", "devices", "netif"}, NEW q, NEW buf
    PROVE  /\ GetName(Subtree(kind, q), buf) = kind
           /\ GetName(Item(kind, q), buf) = ItemName(kind, q)
           /\ Subtree(kind, q) # NullNode /\ Item(kind, q) # NullNode
  <1>1. CASE kind = "ps"
    BY <1>1 DEF Subtree, Item, ItemName, GetName, PsName, PsNode, NullNode
  <1>2. CASE kind = "devices"
    BY <1>2 DEF Subtree, Item, ItemName, GetName, SaulName, SaulNode, NullNode
  <1>3. CASE kind = "netif"
    BY <1>3 DEF Subtree, Item, ItemName, GetName, NetifName, NetifNode, NullNode
  <1>4. QED  BY <1>1, <1>2, <1>3

\* A field is named by its counter.
LEMMA FieldNamed ==
    ASSUME NEW kind \in {"ps", "devices", "netif"}, NEW n, IsField(kind, n),
           NEW k \in LeafFields(kind), NEW buf, FieldCounter(kind, cursor) = k - 1
    PROVE  GetName(n, buf) = FieldNames(kind)[k]
  <1>1. CASE kind = "ps"
    <2>1. k \in 1 .. 5 /\ DOMAIN PsFields = 1 .. 5
      BY <1>1 DEF LeafFields, FieldNames, PsFields
    <2>2. cursor.ps = k - 1 /\ n.ops = "ps" /\ n.is_root = 0
      BY <1>1 DEF FieldCounter, IsField
    <2>3. cursor.ps + 1 = k
      BY <2>1, <2>2
    <2>4. QED  BY <1>1, <2>1, <2>2, <2>3 DEF GetName, PsName, FieldName, FieldNames
  <1>2. CASE kind = "devices"
    <2>1. k = 1 /\ DOMAIN <<"class">> = 1 .. 1
      BY <1>2 DEF LeafFields, FieldNames
    <2>2. cursor.saul = k - 1 /\ n.ops = "saul" /\ n.is_root = 0
      BY <1>2 DEF FieldCounter, IsField
    <2>3. cursor.saul + 1 = k
      BY <2>1, <2>2
    <2>4. QED  BY <1>2, <2>1, <2>2, <2>3 DEF GetName, SaulName, FieldName, FieldNames
  <1>3. CASE kind = "netif"
    <2>1. k \in 1 .. 4 /\ DOMAIN NetifFields = 1 .. 5
      BY <1>3 DEF LeafFields, FieldNames, NetifFields
    <2>2. cursor.field = k - 1 /\ n.ops = "netif" /\ n.is_root = 2
      BY <1>3 DEF FieldCounter, IsField
    <2>3. cursor.field + 1 = k /\ k \in 1 .. 5
      BY <2>1, <2>2
    <2>4. QED  BY <1>3, <2>1, <2>2, <2>3 DEF GetName, NetifName, FieldName, FieldNames
  <1>4. QED  BY <1>1, <1>2, <1>3

\* The numbers of the fields.
LEMMA LeafNumbers ==
    ASSUME NEW kind \in {"ps", "devices", "netif"}, NEW k \in LeafFields(kind)
    PROVE  /\ k \in 1 .. 5
           /\ kind = "devices" => k = 1
           /\ kind = "netif" => k \in 1 .. 4
  BY DEF LeafFields, FieldNames, PsFields

-----------------------------------------------------------------------------
(* So a lookup does not miss it.                                           *)

\* get_next_child, of a lookup on its way, leads on to what is to come, or has come
\* to the last field of a thread.
LEMMA LookupFinds ==
    ASSUME ShapeInv, NEW t \in Tasks, task[t].seen = <<>>, Lookup(t),
           NEW i \in 1 .. Len(db_index), NEW kind \in ToSet(db_index[i].dynamic),
           kind = "netif" \/ InTables(cursor),
           NEW m \in Items(kind), NEW k \in LeafFields(kind), NEW again,
           Finds(task[t], i, kind, m, k, again, cursor)
    PROVE  Finds(task'[t], i, kind, m, k, again, cursor')
  <1>1. SUFFICES ASSUME task'[t].path = PathTo(i, kind, m, k)
                 PROVE  Finds(task'[t], i, kind, m, k, again, cursor')
    BY DEF Finds
  <1>2. PICK r, q, n, c, s : r = task[t] /\ q = task'[t] /\ n = r.stack[1] /\ c = r.stack[2]
                             /\ s = NextChild(n, c, cursor, cursor)
    OBVIOUS
  <1>3. /\ r.pc = "lookup" /\ cursor' = s.cursor /\ q.path = r.path
        /\ s.child = NullNode => q.pc = "idle" /\ q.res = <<"enoent">>
        /\ s.child # NullNode => /\ q.pc = "match" /\ q.todo = r.todo
                                 /\ q.stack[1] = s.node /\ q.stack[2] = s.child
    BY <1>2, LookupTo
  <1>4. /\ kind \in {"ps", "devices", "netif"} /\ threads \subseteq 1 .. PidLast
        /\ Len(db_index[i].static) \in 1 .. 5 /\ i \in 1 .. 4
        /\ k \in 1 .. 5 /\ (kind = "devices" => k = 1) /\ (kind = "netif" => k \in 1 .. 4)
    BY BranchOf, LeafNumbers DEF ShapeInv
  <1>5. CASE ToFolder(r, i, kind, again, cursor) /\ r.todo = r.path
    <2>1. PICK j \in 0 .. i - 1 : n = RootNode(j)
      <3>1. r.todo # <<r.path[2], r.path[3], r.path[4]>>
        BY <1>1, <1>2, <1>3, <1>5 DEF PathTo
      <3>2. QED  BY <1>2, <1>3, <1>5, <3>1 DEF ToFolder
    <2>2. j + 1 \in 1 .. Len(db_index) /\ (j + 1) - 1 = j
      BY <1>4, Index
    <2>3. 1 \in 1 .. Len(db_index[j + 1].static)
      <3>1. PICK len \in 1 .. 5 : len = Len(db_index[j + 1].static)
        BY <2>2, Index, Entries
      <3>2. 1 \in 1 .. len
        OBVIOUS
      <3>3. QED  BY <3>1, <3>2
    <2>4. s = Step(RootNode(j + 1), FlNode(j, 0, 1), cursor)
      BY <1>2, <2>1, <2>2, <2>3, StaticChildren
    <2>5. s.node = RootNode(j + 1) /\ s.child = FlNode(j, 0, 1) /\ s.cursor = cursor
          /\ s.child # NullNode
      BY <2>4 DEF Step, FlNode, NullNode
    <2>6. ToFolder(q, i, kind, again, cursor')
      BY <1>3, <1>5, <2>5 DEF ToFolder
    <2>7. QED  BY <1>2, <1>3, <2>5, <2>6 DEF Finds
  <1>6. CASE ToFolder(r, i, kind, again, cursor) /\ r.todo # r.path
    <2>1. PICK j \in 0 .. Len(db_index[i].static) : n = FlNode(i - 1, j, 1)
      BY <1>2, <1>3, <1>6 DEF ToFolder
    <2>2. /\ Reset(kind, again, cursor)
          /\ r.todo = <<r.path[2], r.path[3], r.path[4]>>
      BY <1>6 DEF ToFolder
    <2>3. CASE j < Len(db_index[i].static)
      <3>1. j + 1 \in 1 .. Len(db_index[i].static) /\ (j + 1) - 1 = j
        BY <1>4, <2>1, <2>3
      <3>2. s = Step(FlNode(i - 1, j + 1, 1), FlNode(i - 1, j, 0), cursor)
        BY <1>2, <2>1, <3>1, StaticChildren
      <3>3. /\ s.node = FlNode(i - 1, j + 1, 1) /\ s.child = FlNode(i - 1, j, 0)
            /\ s.cursor = cursor /\ s.child # NullNode
        BY <3>2 DEF Step, FlNode, NullNode
      <3>4. ToFolder(q, i, kind, again, cursor')
        BY <1>3, <2>2, <2>3, <3>3 DEF ToFolder
      <3>5. QED  BY <1>2, <1>3, <3>3, <3>4 DEF Finds
    <2>4. CASE j = Len(db_index[i].static)
      <3>1. s = Step(FlNode(i - 1, j + 1, 1), Subtree(kind, 1), DynamicCursor(kind, cursor))
        BY <1>2, <1>4, <2>1, <2>4, DynamicNext
      <3>2. /\ s.node = FlNode(i - 1, j + 1, 1) /\ s.child = Subtree(kind, 1)
            /\ s.cursor = DynamicCursor(kind, cursor) /\ s.child # NullNode
        BY <1>4, <3>1, NamesOnTheWay DEF Step
      <3>3. /\ kind # "netif" => s.cursor = cursor
            /\ kind = "netif" => s.cursor.field = 0
        BY <3>2 DEF DynamicCursor, ShapeInv, CursorSet
      <3>4. Reset(kind, again, s.cursor)
        BY <2>2, <3>3 DEF Reset
      <3>5. ~(j < Len(db_index[i].static))
        BY <1>4, <2>4
      <3>6. ToFolder(q, i, kind, again, cursor')
        BY <1>3, <2>1, <2>2, <3>2, <3>3, <3>4, <3>5 DEF ToFolder
      <3>7. QED  BY <1>2, <1>3, <3>2, <3>6 DEF Finds
    <2>5. QED  BY <1>4, <2>1, <2>3, <2>4
  <1>7. CASE ToItem(r, kind, m, again, cursor)
    <2>1. PICK u \in 1 .. m : n = Subtree(kind, u)
      BY <1>2, <1>3, <1>7 DEF ToItem
    <2>2. /\ s.child = Item(kind, u) /\ s.cursor = cursor
          /\ u < m => \E next \in 1 .. m : s.node = Subtree(kind, next)
      <3>1. s = NextChild(Subtree(kind, u), c, cursor, cursor)
        BY <1>2, <2>1
      <3>2. QED  BY <1>4, <3>1, ItemNext
    <2>3. s.child # NullNode
      BY <1>4, <2>2, NamesOnTheWay
    <2>4. ToItem(q, kind, m, again, cursor')
      BY <1>3, <1>7, <2>2, <2>3 DEF ToItem
    <2>5. QED  BY <1>2, <1>3, <2>3, <2>4 DEF Finds
  <1>8. CASE ToField(r, kind, k, again, cursor)
    <2>. DEFINE held == kind # "ps" \/ again
    <2>1. PICK at, next : /\ at = FieldCounter(kind, cursor)
                          /\ next = FieldCounter(kind, s.cursor)
      OBVIOUS
    <2>2. /\ kind # "netif" => cursor.ps \in 0 .. 4 /\ cursor.saul = 0
          /\ r.todo = <<r.path[4]>>
      BY <1>8 DEF InTables, ToField
    <2>3. at \in Int
      <3>1. cursor.ps \in Int8 /\ cursor.saul \in Int8 /\ cursor.field \in Uint8
        BY CursorFields DEF ShapeInv
      <3>2. Int8 \subseteq Int /\ Uint8 \subseteq Int
        BY DEF Int8, Uint8
      <3>3. at \in {cursor.ps, cursor.saul, cursor.field}
        BY <1>4, <2>1 DEF FieldCounter
      <3>4. QED  BY <3>1, <3>2, <3>3
    <2>4. CASE (held => at = 0) /\ \E u \in Slots(kind) : n = Item(kind, u)
      <3>1. PICK u \in Slots(kind) : n = Item(kind, u)
        BY <2>4
      <3>2. kind = "netif" => cursor.field = 0
        BY <2>1, <2>4 DEF FieldCounter
      <3>3. /\ IsField(kind, s.node) /\ IsField(kind, s.child) /\ s.cursor = cursor
            /\ s.child # NullNode
        BY <1>2, <1>4, <2>2, <3>1, <3>2, FieldFirst
      <3>4. held => at <= k - 1
        BY <1>4, <2>4
      <3>5. ToField(q, kind, k, again, cursor')
        BY <1>3, <2>1, <2>2, <3>3, <3>4 DEF ToField
      <3>6. QED  BY <1>2, <1>3, <3>3, <3>5 DEF Finds
    <2>5. CASE (held => at < k - 1) /\ IsField(kind, n) /\ IsField(kind, c)
      <3>1. kind # "devices"
        BY <1>4, <2>1, <2>2, <2>5 DEF FieldCounter
      <3>2. kind = "netif" => cursor.field < 4
        BY <1>4, <2>1, <2>3, <2>5 DEF FieldCounter
      <3>3. \/ s.node = n /\ s.child = c /\ next = at + 1
            \/ kind = "ps" /\ cursor.ps = 4 /\ s.child = NullNode /\ s.cursor.ps = 0
        BY <1>2, <1>4, <2>1, <2>2, <2>5, <3>1, <3>2, FieldNext DEF ShapeInv
      <3>4. CASE s.node = n /\ s.child = c /\ next = at + 1
        <4>1. c # NullNode
          <5>1. NullNode.ops = "null"
            BY DEF NullNode
          <5>2. c.ops \in {"ps", "saul", "netif"}
            BY <1>4, <2>5 DEF IsField
          <5>3. QED  BY <5>1, <5>2
        <4>2. held => next <= k - 1
          BY <1>4, <2>3, <2>5, <3>4
        <4>3. ToField(q, kind, k, again, cursor')
          BY <1>3, <2>1, <2>2, <2>5, <3>4, <4>1, <4>2 DEF ToField
        <4>4. QED  BY <1>2, <1>3, <3>4, <4>1, <4>3 DEF Finds
      <3>5. CASE kind = "ps" /\ cursor.ps = 4 /\ s.child = NullNode /\ s.cursor.ps = 0
        <4>1. ~again
          BY <1>4, <2>1, <2>5, <3>5 DEF FieldCounter
        <4>2. QED  BY <1>2, <1>3, <3>5, <4>1 DEF Finds
      <3>6. QED  BY <3>3, <3>4, <3>5
    <2>6. QED  BY <1>2, <1>3, <1>8, <2>1, <2>4, <2>5 DEF ToField
  <1>9. QED  BY <1>1, <1>2, <1>3, <1>5, <1>6, <1>7, <1>8
             DEF Finds, Reading

\* The tokens of such a path.
LEMMA TokenLists ==
    \A a, b, x, y :
        /\ Head(<<a, b, x, y>>) = a /\ Tail(<<a, b, x, y>>) = <<b, x, y>>
        /\ Head(<<b, x, y>>) = b /\ Tail(<<b, x, y>>) = <<x, y>>
        /\ Head(<<x, y>>) = x /\ Tail(<<x, y>>) = <<y>>
        /\ Head(<<y>>) = y /\ Tail(<<y>>) = <<>>
        /\ <<a, b, x, y>> # <<b, x, y>>
        /\ <<b, x, y>> # <<>> /\ <<x, y>> # <<>> /\ <<y>> # <<>>
  OBVIOUS

\* It passes the names that are not on the path, and stops at those that are.
LEMMA MatchFinds ==
    ASSUME ShapeInv, NEW t \in Tasks, Match(t),
           NEW i \in 1 .. Len(db_index), NEW kind \in ToSet(db_index[i].dynamic),
           kind = "netif" \/ InTables(cursor),
           NEW m \in Items(kind), NEW k \in LeafFields(kind), NEW again,
           Finds(task[t], i, kind, m, k, again, cursor)
    PROVE  Finds(task'[t], i, kind, m, k, again, cursor')
  <1>1. SUFFICES ASSUME task'[t].path = PathTo(i, kind, m, k)
                 PROVE  Finds(task'[t], i, kind, m, k, again, cursor')
    BY DEF Finds
  <1>2. PICK r, q, n, c, name : r = task[t] /\ q = task'[t] /\ n = r.stack[1]
                                /\ c = r.stack[2] /\ name = GetName(c, r.name)
    OBVIOUS
  <1>3. /\ r.pc = "match" /\ cursor' = cursor /\ q.path = r.path
        /\ ~Matches(Head(r.todo), name) =>
              q.pc = "lookup" /\ q.todo = r.todo /\ q.stack = r.stack
        /\ Matches(Head(r.todo), name) /\ Tail(r.todo) # <<>> =>
              q.pc = "lookup" /\ q.todo = Tail(r.todo) /\ q.stack = <<c, c>>
        /\ Matches(Head(r.todo), name) /\ Tail(r.todo) = <<>> => q.pc = "type"
    BY <1>2, MatchTo
  <1>4. /\ kind \in {"ps", "devices", "netif"} /\ threads \subseteq 1 .. PidLast
        /\ i \in 1 .. 4 /\ db_index[i].name \in StaticNames
        /\ Len(db_index[i].static) \in 1 .. 5
        /\ \A e \in ToSet(db_index[i].static) : e[1] \in StaticNames /\ e[1] # kind
        /\ k \in 1 .. 5
    BY BranchOf, LeafNumbers DEF ShapeInv
  <1>5. /\ r.path[1] = db_index[i].name /\ r.path[2] = kind
        /\ r.path[3] = ItemName(kind, m) /\ r.path[4] = FieldNames(kind)[k]
        /\ r.path = <<r.path[1], r.path[2], r.path[3], r.path[4]>>
    BY <1>1, <1>2, <1>3 DEF PathTo
  <1>6. CASE ToFolder(r, i, kind, again, cursor) /\ r.todo = r.path
    <2>1. PICK j \in 0 .. i - 1 : n = RootNode(j + 1) /\ c = FlNode(j, 0, 1)
      <3>1. r.todo # <<r.path[2], r.path[3], r.path[4]>>
        BY <1>5, <1>6, TokenLists
      <3>2. QED  BY <1>2, <1>3, <1>6, <3>1 DEF ToFolder
    <2>2. j + 1 \in 1 .. Len(db_index) /\ (j + 1) - 1 = j /\ (j + 1 = i <=> j = i - 1)
      BY <1>4, Index
    <2>3. name = db_index[j + 1].name /\ name \in StaticNames
      <3>1. name = db_index[j + 1].name
        BY <1>2, <2>1 DEF GetName, FlName, FlEntry, FlNode
      <3>2. db_index[j + 1] \in ToSet(db_index)
        BY <2>2, Index DEF ToSet
      <3>3. QED  BY <3>1, <3>2 DEF StaticNames
    <2>4. /\ Head(r.todo) = r.path[1] /\ Tail(r.todo) = <<r.path[2], r.path[3], r.path[4]>>
          /\ Tail(r.todo) # <<>>
      <3>1. PICK a, b, x, y : /\ a = r.path[1] /\ b = r.path[2]
                              /\ x = r.path[3] /\ y = r.path[4]
        OBVIOUS
      <3>2. r.todo = <<a, b, x, y>>
        BY <1>5, <1>6, <3>1
      <3>3. QED  BY <3>1, <3>2, TokenLists
    <2>5. Matches(Head(r.todo), name) <=> j + 1 = i
      BY <1>4, <1>5, <2>2, <2>3, <2>4, TokensMatch, Index
    <2>6. CASE j + 1 = i
      <3>1. q.pc = "lookup" /\ q.todo = <<r.path[2], r.path[3], r.path[4]>>
            /\ q.stack = <<c, c>>
        BY <1>3, <2>4, <2>5, <2>6
      <3>2. q.stack[1] = FlNode(i - 1, 0, 1) /\ 0 \in 0 .. Len(db_index[i].static)
        BY <1>4, <2>1, <2>2, <2>6, <3>1
      <3>3. ToFolder(q, i, kind, again, cursor')
        BY <1>3, <1>6, <3>1, <3>2 DEF ToFolder
      <3>4. QED  BY <1>2, <3>1, <3>3 DEF Finds
    <2>7. CASE j + 1 # i
      <3>1. q.pc = "lookup" /\ q.todo = r.todo /\ q.stack = r.stack
        BY <1>3, <2>5, <2>7
      <3>2. j + 1 \in 0 .. i - 1 /\ q.stack[1] = RootNode(j + 1)
        <4>1. j + 1 \in 0 .. i - 1
          BY <1>4, <2>7
        <4>2. QED  BY <1>2, <2>1, <3>1, <4>1
      <3>3. ToFolder(q, i, kind, again, cursor')
        BY <1>3, <1>6, <3>1, <3>2 DEF ToFolder
      <3>4. QED  BY <1>2, <3>1, <3>3 DEF Finds
    <2>8. QED  BY <2>6, <2>7
  <1>7. CASE ToFolder(r, i, kind, again, cursor) /\ r.todo # r.path
    <2>. DEFINE last == Len(db_index[i].static)
    <2>1. PICK j \in 0 .. last :
            /\ n = FlNode(i - 1, j + 1, 1)
            /\ j < last => c = FlNode(i - 1, j, 0)
            /\ ~(j < last) => c = Subtree(kind, 1) /\ (kind = "netif" => cursor.field = 0)
      BY <1>2, <1>3, <1>7 DEF ToFolder
    <2>2. /\ Reset(kind, again, cursor)
          /\ r.todo = <<r.path[2], r.path[3], r.path[4]>>
      BY <1>7 DEF ToFolder
    <2>3. /\ Head(r.todo) = kind /\ Tail(r.todo) = <<r.path[3], r.path[4]>>
          /\ Tail(r.todo) # <<>>
      BY <1>5, <2>2, TokenLists
    <2>4. CASE j < last
      <3>1. j + 1 \in 1 .. last /\ (j + 1) - 1 = j /\ j + 1 \in 0 .. last
        <4>1. PICK l \in 1 .. 5 : l = last
          BY <1>4
        <4>2. j \in 0 .. l /\ j < l
          BY <2>4, <4>1
        <4>3. j + 1 \in 1 .. l /\ (j + 1) - 1 = j /\ j + 1 \in 0 .. l
          BY <4>1, <4>2
        <4>4. QED  BY <4>1, <4>3
      <3>2. PICK e : e = db_index[i].static[j + 1]
        OBVIOUS
      <3>3. name = e[1]
        <4>1. StaticEntry(FlNode(i - 1, j, 0)) = e
          BY <3>1, <3>2, EntryAt
        <4>2. c.ops = "fl" /\ c.is_root = 0 /\ StaticEntry(c) = e
          BY <2>1, <2>4, <4>1 DEF FlNode
        <4>3. QED  BY <1>2, <4>2 DEF GetName, FlName
      <3>4. e \in ToSet(db_index[i].static)
        BY <3>1, <3>2, Index, Entries DEF ToSet
      <3>5. ~Matches(Head(r.todo), name)
        BY <1>4, <2>3, <3>3, <3>4, NamesAssumption DEF Matches
      <3>6. q.pc = "lookup" /\ q.todo = r.todo /\ q.stack[1] = n
        BY <1>2, <1>3, <3>5
      <3>7. ToFolder(q, i, kind, again, cursor')
        BY <1>3, <2>1, <2>2, <3>1, <3>6 DEF ToFolder
      <3>8. QED  BY <1>2, <3>6, <3>7 DEF Finds
    <2>5. CASE ~(j < last)
      <3>1. name = kind
        BY <1>2, <1>4, <2>1, <2>5, NamesOnTheWay
      <3>2. q.pc = "lookup" /\ q.todo = <<r.path[3], r.path[4]>> /\ q.stack = <<c, c>>
        BY <1>3, <2>3, <3>1 DEF Matches
      <3>3. 1 \in 1 .. m /\ q.stack[1] = Subtree(kind, 1)
        <4>1. PICK l \in Nat : m \in 1 .. l
          BY <1>4, DbAssumption DEF Items, Slots
        <4>2. QED  BY <2>1, <2>5, <3>2, <4>1
      <3>4. ToItem(q, kind, m, again, cursor')
        BY <1>3, <2>1, <2>2, <2>5, <3>2, <3>3 DEF ToItem
      <3>5. QED  BY <1>2, <3>2, <3>4 DEF Finds
    <2>6. QED  BY <2>4, <2>5
  <1>8. CASE ToItem(r, kind, m, again, cursor)
    <2>1. PICK u \in 1 .. m :
            /\ c = Item(kind, u)
            /\ u < m => \E next \in 1 .. m : n = Subtree(kind, next)
      BY <1>2, <1>3, <1>8 DEF ToItem
    <2>2. /\ Reset(kind, again, cursor) /\ (kind = "netif" => cursor.field = 0)
          /\ r.todo = <<r.path[3], r.path[4]>>
      BY <1>8 DEF ToItem
    <2>3. name = ItemName(kind, u)
      BY <1>2, <1>4, <2>1, NamesOnTheWay
    <2>4. /\ Head(r.todo) = ItemName(kind, m) /\ Tail(r.todo) = <<r.path[4]>>
          /\ Tail(r.todo) # <<>>
      BY <1>5, <2>2, TokenLists
    <2>5. CASE Matches(Head(r.todo), name)
      <3>1. q.pc = "lookup" /\ q.todo = <<r.path[4]>> /\ q.stack = <<c, c>>
        BY <1>3, <2>4, <2>5
      <3>2. u \in Slots(kind)
        <4>1. PICK s : s = NextChild(Subtree(kind, u), c, cursor, cursor)
          OBVIOUS
        <4>2. QED  BY <1>4, <4>1, ItemNext
      <3>3. kind # "ps" \/ again => FieldCounter(kind, cursor) = 0
        BY <1>4, <2>2 DEF FieldCounter, Reset, InTables
      <3>4. ToField(q, kind, k, again, cursor')
        BY <1>3, <2>1, <3>1, <3>2, <3>3 DEF ToField
      <3>5. QED  BY <1>2, <3>1, <3>4 DEF Finds
    <2>6. CASE ~Matches(Head(r.todo), name)
      <3>1. q.pc = "lookup" /\ q.todo = r.todo /\ q.stack = r.stack
        BY <1>3, <2>6
      <3>2. u # m
        BY <2>3, <2>4, <2>6 DEF Matches
      <3>3. u < m
        <4>1. PICK l \in Nat : m \in 1 .. l
          BY <1>4, DbAssumption DEF Items, Slots
        <4>2. QED  BY <3>2, <4>1
      <3>4. ToItem(q, kind, m, again, cursor')
        BY <1>2, <1>3, <2>1, <2>2, <3>1, <3>3 DEF ToItem
      <3>5. QED  BY <1>2, <3>1, <3>4 DEF Finds
    <2>7. QED  BY <2>5, <2>6
  <1>9. CASE ToField(r, kind, k, again, cursor)
    <2>. DEFINE held == kind # "ps" \/ again
    <2>1. PICK at : at = FieldCounter(kind, cursor)
      OBVIOUS
    <2>2. /\ r.todo = <<r.path[4]>> /\ (held => at <= k - 1)
          /\ IsField(kind, n) /\ IsField(kind, c)
      BY <1>2, <1>3, <1>9, <2>1 DEF ToField
    <2>3. Head(r.todo) = FieldNames(kind)[k] /\ Tail(r.todo) = <<>>
      BY <1>5, <2>2, TokenLists
    <2>4. CASE Matches(Head(r.todo), name)
      BY <1>2, <1>3, <2>3, <2>4 DEF Finds
    <2>5. CASE ~Matches(Head(r.todo), name)
      <3>1. q.pc = "lookup" /\ q.todo = r.todo /\ q.stack = r.stack
        BY <1>3, <2>5
      <3>2. at # k - 1
        BY <1>2, <1>4, <2>1, <2>2, <2>3, <2>5, FieldNamed DEF Matches
      <3>3. at \in Int
        <4>1. cursor.ps \in Int8 /\ cursor.saul \in Int8 /\ cursor.field \in Uint8
          BY CursorFields DEF ShapeInv
        <4>2. Int8 \subseteq Int /\ Uint8 \subseteq Int
          BY DEF Int8, Uint8
        <4>3. at \in {cursor.ps, cursor.saul, cursor.field}
          BY <1>4, <2>1 DEF FieldCounter
        <4>4. QED  BY <4>1, <4>2, <4>3
      <3>4. held => at < k - 1
        BY <1>4, <2>2, <3>2, <3>3
      <3>5. ToField(q, kind, k, again, cursor')
        BY <1>2, <1>3, <2>1, <2>2, <3>1, <3>4 DEF ToField
      <3>6. QED  BY <1>2, <3>1, <3>5 DEF Finds
    <2>6. QED  BY <2>4, <2>5
  <1>10. QED  BY <1>1, <1>2, <1>3, <1>6, <1>7, <1>8, <1>9 DEF Finds, Reading

\* A command sets out at the root.
LEMMA RequestTo ==
    ASSUME ShapeInv, NEW t \in Tasks, Request(t)
    PROVE  \E w \in Requests[t] :
              LET q == task'[t]
              IN  /\ cursor' = cursor /\ task[t].pc = "idle" /\ q.path = w.path
                  /\ w.path # <<>> => /\ q.pc = "lookup" /\ q.todo = w.path
                                      /\ q.stack[1] = RootNode(0)
                  /\ t = Shell /\ hist'.retry =>
                        task[t].res = <<"enoent">> /\ task[t].path = w.path
  <1>1. PICK w, short, r :
          /\ w \in Requests[t] /\ short \in BOOLEAN
          /\ r = [Idle EXCEPT !.cmd = w.cmd, !.path = w.path, !.todo = w.path]
          /\ Update(t, CASE w.cmd = "get" /\ w.path = <<>> /\ short ->
                              Finished(r, <<"enoent">>)
                         [] w.cmd = "dcadump" ->
                              [r EXCEPT !.pc = "show", !.stack = <<Root>>]
                         [] w.cmd # "dcadump" /\ w.path # <<>> ->
                              [r EXCEPT !.pc = "lookup",
                                        !.stack = <<Root, Uninitialised>>]
                         [] OTHER ->
                              [r EXCEPT !.pc = "type", !.stack = <<Root>>])
          /\ hist' = IF t # Shell THEN hist
                     ELSE [retry |-> /\ task[t].res = <<"enoent">>
                                     /\ task[t].path = w.path,
                           start |-> cursor.ps]
    BY DEF Request
  <1>2. /\ DOMAIN r = TaskFields /\ r.path = w.path /\ r.todo = w.path
        /\ DOMAIN task = Tasks /\ cursor' = cursor /\ task[t].pc = "idle"
    BY <1>1 DEF Idle, TaskFields, ShapeInv, Request, db, At
  <1>3. task'[t].path = w.path
    <2>1. Finished(r, <<"enoent">>).path = w.path
      BY <1>2 DEF Finished, Idle
    <2>2. \A pc, st : [r EXCEPT !.pc = pc, !.stack = st].path = w.path
      BY <1>2 DEF TaskFields
    <2>3. QED  BY <1>1, <1>2, <2>1, <2>2 DEF Update
  <1>4. ASSUME w.path # <<>>
        PROVE  /\ task'[t].pc = "lookup" /\ task'[t].todo = w.path
               /\ task'[t].stack[1] = RootNode(0)
    <2>1. w.cmd # "dcadump"
      BY <1>1, <1>4, QueryAssumption
    <2>2. PICK q : q = [r EXCEPT !.pc = "lookup", !.stack = <<Root, Uninitialised>>]
      OBVIOUS
    <2>3. task'[t] = q
      BY <1>1, <1>2, <1>4, <2>1, <2>2 DEF Update
    <2>4. q.pc = "lookup" /\ q.todo = w.path /\ q.stack = <<Root, Uninitialised>>
      BY <1>2, <2>2 DEF TaskFields
    <2>5. QED  BY <2>3, <2>4 DEF Root
  <1>5. t = Shell /\ hist'.retry => task[t].res = <<"enoent">> /\ task[t].path = w.path
    BY <1>1
  <1>6. QED  BY <1>1, <1>2, <1>3, <1>4, <1>5

\* So a lookup has everything before it.  If it repeats one that has just failed, the
\* counter of ps.c is at 0 when it starts.
LEMMA RequestFinds ==
    ASSUME ShapeInv, NEW t \in Tasks, Request(t),
           NEW i \in 1 .. Len(db_index), NEW kind \in ToSet(db_index[i].dynamic),
           NEW m, NEW k,
           Finds(task[t], i, kind, m, k, hist.retry /\ t = Shell, cursor)
    PROVE  Finds(task'[t], i, kind, m, k, hist'.retry /\ t = Shell, cursor')
  <1>1. PICK q : q = task'[t]
    OBVIOUS
  <1>2. PICK w \in Requests[t] :
          /\ q = task'[t] /\ cursor' = cursor /\ task[t].pc = "idle" /\ q.path = w.path
          /\ w.path # <<>> => /\ q.pc = "lookup" /\ q.todo = w.path
                              /\ q.stack[1] = RootNode(0)
          /\ t = Shell /\ hist'.retry =>
                task[t].res = <<"enoent">> /\ task[t].path = w.path
    BY <1>1, RequestTo
  <1>3. SUFFICES ASSUME w.path = PathTo(i, kind, m, k)
                 PROVE  Finds(task'[t], i, kind, m, k, hist'.retry /\ t = Shell, cursor')
    BY <1>2 DEF Finds
  <1>4. w.path # <<>>
    BY <1>3 DEF PathTo
  <1>5. hist'.retry /\ t = Shell /\ kind = "ps" => cursor.ps = 0
    <2>1. SUFFICES ASSUME hist'.retry, t = Shell, kind = "ps" PROVE cursor.ps = 0
      OBVIOUS
    <2>2. task[t].res = <<"enoent">> /\ task[t].path = w.path
      BY <1>2, <2>1
    <2>3. QED  BY <1>2, <1>3, <2>1, <2>2 DEF Finds, Reading
  <1>6. 0 \in 0 .. i - 1
    BY Index
  <1>7. ToFolder(q, i, kind, hist'.retry /\ t = Shell, cursor')
    BY <1>2, <1>4, <1>5, <1>6 DEF ToFolder, Reset
  <1>8. QED  BY <1>2, <1>4, <1>7 DEF Finds

-----------------------------------------------------------------------------
(* The steps of the whole system.                                          *)

\* A path that a task has worked on is one it was asked for.
AskedInv ==
    \A t \in Tasks : task[t].path = <<>> \/ \E w \in Requests[t] : w.path = task[t].path

\* Of the steps only Request gives a task another path.
LEMMA AskedStep ==
    ASSUME ShapeInv, AskedInv, [Next]_vars
    PROVE  AskedInv'
  <1>1. ASSUME NEW t \in Tasks, Request(t) \/ Call(t)
        PROVE  task'[t].path = task[t].path \/ \E w \in Requests[t] : w.path = task'[t].path
    BY <1>1, CommandKept, RequestTo
  <1>2. UNCHANGED task => AskedInv'
    BY DEF AskedInv
  <1>3. ASSUME NEW t \in Tasks, Request(t) \/ Call(t)
        PROVE  AskedInv'
    <2>1. \A u \in Tasks : u # t => task'[u] = task[u]
      BY <1>3, OthersStay
    <2>2. QED  BY <1>1, <1>3, <2>1 DEF AskedInv
  <1>4. QED  BY <1>2, <1>3 DEF Next, vars, Measure, ThreadExit, NibChange

\* What a task t that nothing interrupts finds.  The counter of ps.c is its own only
\* if it is the one reader.
FindInv(t) ==
    /\ task[t].seen = <<>>
    /\ \A i \in 1 .. Len(db_index) : \A kind \in ToSet(db_index[i].dynamic) :
          \A m \in Items(kind), k \in LeafFields(kind) :
              kind = "netif" \/ OneReader =>
                  Finds(task[t], i, kind, m, k, hist.retry /\ t = Shell, cursor)

\* No step of the task loses what it looks for.  The steps of the others do not either:
\* the shell takes its own while the handler is idle, and of a thread that has exited
\* nothing is said any more.
LEMMA FindStep ==
    ASSUME NEW t \in Tasks, Alone(t), ShapeInv, AddressInv, AskedInv,
           OneReader => CountersInv, FindInv(t), [Next]_vars
    PROVE  FindInv(t)'
  <1>. DEFINE again == hist.retry /\ t = Shell
  <1>1. ASSUME threads' \subseteq threads, task'[t].seen = <<>>,
               \A i \in 1 .. Len(db_index) : \A kind \in ToSet(db_index[i].dynamic) :
                  \A m \in Items(kind), k \in LeafFields(kind) :
                     kind = "netif" \/ OneReader =>
                        Finds(task'[t], i, kind, m, k, again', cursor')
        PROVE  FindInv(t)'
    <2>1. \A kind : \A m \in Items(kind)' : m \in Items(kind)
      BY <1>1 DEF Items, Slots
    <2>2. QED  BY <1>1, <2>1 DEF FindInv
  <1>2. ASSUME UNCHANGED <<task, cursor, hist>>, threads' \subseteq threads
        PROVE  FindInv(t)'
    BY <1>1, <1>2 DEF FindInv
  <1>3. ASSUME Request(t)
        PROVE  FindInv(t)'
    <2>1. threads' = threads /\ task'[t].seen = <<>>
      BY <1>3, RequestIs DEF Request, env
    <2>2. QED  BY <1>1, <1>3, <2>1, RequestFinds DEF FindInv
  <1>4. ASSUME Call(t), ~Fault(t)
        PROVE  FindInv(t)'
    <2>1. ~Tests(t)
      BY QueryAssumption DEF Alone, Tests, Tasks
    <2>2. threads' = threads /\ hist' = hist
      BY <1>4, <2>1
         DEF Call, Lookup, Match, Type, List, Show, ValueToStr, CheckType,
             GetValue, Count, Add, Link, Publish, Counted, env
    <2>3. task[t].seen = <<>>
      BY DEF FindInv
    <2>4. task'[t].seen = <<>>
      BY <1>4, <2>1, <2>3, SeenStays
    <2>5. ASSUME NEW i \in 1 .. Len(db_index), NEW kind \in ToSet(db_index[i].dynamic),
                 NEW m \in Items(kind), NEW k \in LeafFields(kind),
                 kind = "netif" \/ OneReader
          PROVE  Finds(task'[t], i, kind, m, k, again, cursor')
      <3>1. kind = "netif" \/ InTables(cursor)
        BY <2>5 DEF CountersInv
      <3>2. Finds(task[t], i, kind, m, k, again, cursor)
        BY <2>5 DEF FindInv
      <3>3. CASE Lookup(t)
        BY <2>3, <3>1, <3>2, <3>3, LookupFinds
      <3>4. CASE Match(t)
        BY <3>1, <3>2, <3>4, MatchFinds
      <3>5. CASE ~Lookup(t) /\ ~Match(t)
        <4>1. \/ task'[t].pc \in {"type", "list", "show"} \cup Reading
              \/ task'[t].pc = "idle" /\ task'[t].res # <<"enoent">>
              \/ UNCHANGED <<task, cursor>>
          BY <1>4, <2>1, <3>5, FoundGoesOn, InsertionIs DEF Call
        <4>2. QED  BY <3>2, <4>1 DEF Finds
      <3>6. QED  BY <3>3, <3>4, <3>5
    <2>6. QED  BY <1>1, <2>2, <2>4, <2>5
  <1>5. ASSUME NEW u \in Tasks, u # t, Request(u) \/ Call(u), ~Fault(u)
        PROVE  FindInv(t)'
    <2>1. CanRun(u) /\ threads' = threads
      BY <1>5
         DEF Request, Call, Tests, Lookup, Match, Type, List, Show, ValueToStr,
             CheckType, GetValue, Count, Add, Link, Publish, Counted, At, env
    <2>2. CASE OneReader /\ Requests[u] = {}
      BY <1>2, <1>5, <2>1, <2>2, NeverRuns DEF CountersInv
    <2>3. CASE OneReader /\ Requests[u] # {}
      <3>1. Requests[u] # {}
        BY <2>3
      <3>2. Requests[t] = {}
        BY <1>5, <2>3, <3>1 DEF OneReader
      <3>3. task'[t] = task[t] /\ task[t].path = <<>>
        BY <1>5, <3>2, OthersStay DEF AskedInv
      <3>4. \A i, kind, m, k : task'[t].path # PathTo(i, kind, m, k)
        BY <3>3 DEF PathTo
      <3>5. QED  BY <1>1, <2>1, <3>3, <3>4 DEF Finds, FindInv
    <2>4. CASE ~OneReader
      <3>1. t = Coap /\ u = Shell
        BY <1>5, <2>4 DEF Alone, Tasks, OneReader
      <3>2. task'[t] = task[t] /\ task[t].pc = "idle"
        BY <1>5, <2>1, <3>1, OthersStay, QueryAssumption DEF CanRun
      <3>3. ASSUME NEW i \in 1 .. Len(db_index), NEW kind \in ToSet(db_index[i].dynamic),
                   NEW m \in Items(kind), NEW k \in LeafFields(kind), kind = "netif"
            PROVE  Finds(task'[t], i, kind, m, k, again', cursor')
        <4>1. Finds(task[t], i, kind, m, k, again, cursor)
          BY <3>3 DEF FindInv
        <4>2. QED  BY <3>2, <3>3, <4>1 DEF Finds, Reading
      <3>4. QED  BY <1>1, <2>1, <2>4, <3>2, <3>3 DEF FindInv
    <2>5. QED  BY <2>2, <2>3, <2>4
  <1>6. CASE Measure
    BY <1>2, <1>6 DEF Measure, env
  <1>7. QED  BY <1>2, <1>3, <1>4, <1>5, <1>6
             DEF Next, Call, Fault, Halt, ThreadExit, NibChange, vars, db, env

-----------------------------------------------------------------------------
(* The keys, and what is not found.                                        *)

\* The branches are in the index as Config says.
LEMMA BranchesIn ==
    /\ 2 \in 1 .. Len(db_index) /\ db_index[2] = Runtime
    /\ "NETWORK" \in Config => \E i \in 1 .. Len(db_index) : db_index[i] = Network
    /\ "SAUL" \in Config => \E i \in 1 .. Len(db_index) : db_index[i] = Saul
  <1>1. PICK two \in Seq(Branches) :
            two = <<Board, Runtime>> /\ Len(two) = 2 /\ two[2] = Runtime
    <2>1. Board \in Branches /\ Runtime \in Branches
      BY DEF Branches
    <2>2. QED  BY <2>1, BranchPair
  <1>2. PICK three :
            three = two \o (IF "NETWORK" \in Config THEN <<Network>> ELSE <<>>)
    OBVIOUS
  <1>3. /\ three \in Seq(Branches) /\ Len(three) \in 2 .. 3 /\ three[2] = Runtime
        /\ "NETWORK" \in Config => Len(three) = 3 /\ three[3] = Network
    <2>1. CASE "NETWORK" \in Config
      <3>1. three = two \o <<Network>> /\ Network \in Branches
        BY <1>2, <2>1 DEF Branches
      <3>2. QED  BY <1>1, <3>1, BranchAppended
    <2>2. CASE "NETWORK" \notin Config
      <3>1. three = two
        BY <1>1, <1>2, <2>2, ConcatEmptySeq
      <3>2. QED  BY <1>1, <2>2, <3>1
    <2>3. QED  BY <2>1, <2>2
  <1>4. db_index = three \o (IF "SAUL" \in Config THEN <<Saul>> ELSE <<>>)
    BY <1>1, <1>2 DEF db_index
  <1>5. PICK n \in 2 .. 3 : n = Len(three) /\ \A j \in 2 .. n : j \in 1 .. n
    BY <1>3
  <1>6. CASE "SAUL" \in Config
    <2>1. db_index = three \o <<Saul>> /\ Saul \in Branches
      BY <1>4, <1>6 DEF Branches
    <2>2. /\ Len(db_index) = n + 1 /\ db_index[n + 1] = Saul
          /\ \A j \in 1 .. n : db_index[j] = three[j]
      BY <1>3, <1>5, <2>1, BranchAppended
    <2>3. n + 1 \in 1 .. n + 1 /\ 2 \in 1 .. n /\ 2 \in 1 .. n + 1
      BY <1>5
    <2>4. "NETWORK" \in Config => n = 3 /\ 3 \in 1 .. n /\ 3 \in 1 .. n + 1
      BY <1>3, <1>5
    <2>5. QED  BY <1>3, <1>5, <2>2, <2>3, <2>4
  <1>7. CASE "SAUL" \notin Config
    <2>1. db_index = three
      BY <1>3, <1>4, <1>7, ConcatEmptySeq
    <2>2. 2 \in 1 .. n /\ ("NETWORK" \in Config => n = 3 /\ 3 \in 1 .. n)
      BY <1>3, <1>5
    <2>3. QED  BY <1>3, <1>5, <1>7, <2>1, <2>2
  <1>8. QED  BY <1>6, <1>7

\* The last field of an interface.
LEMMA LastField ==
    DOMAIN NetifFields = 1 .. 5 /\ NetifFields[5] = "neighbours"
  BY DEF NetifFields

\* The keys that are not static are those of the fields that are leaves.
LEMMA FixedKeysAre ==
    ASSUME NEW key \in FixedKeys
    PROVE  \/ key \in StaticKeys
           \/ \E i \in 1 .. Len(db_index) : \E kind \in ToSet(db_index[i].dynamic) :
                 \E m \in Items(kind), k \in LeafFields(kind) :
                    key = PathTo(i, kind, m, k)
  <1>. DEFINE Field == \E i \in 1 .. Len(db_index) :
                          \E kind \in ToSet(db_index[i].dynamic) :
                             \E m \in Items(kind), k \in LeafFields(kind) :
                                key = PathTo(i, kind, m, k)
              Flat == UNION {{<<e.name, s[1]>> : s \in ToSet(e.static)} :
                               e \in ToSet(db_index)}
              Ps == {<<"runtime", "ps", ThreadName[p], f>> :
                        p \in threads, f \in ToSet(PsFields)}
              Devices == {<<"saul", "devices", d, "class">> : d \in ToSet(DeviceName)}
              Ifaces == UNION {
                {<<"network", "netif", IfaceName[i], f>> :
                        f \in ToSet(NetifFields) \ {"neighbours"}}
                \cup {<<"network", "netif", IfaceName[i], "neighbours", a, f>> :
                        a \in ToSet(nib[i]) \ {Free},
                        f \in ToSet(QosFields) \ {"ip"}} :
                i \in DOMAIN IfaceName}
  <1>1. key \in Keys /\ Len(key) < 6
    BY DEF FixedKeys
  <1>2. \/ key \in Flat
        \/ "PS" \in Config /\ key \in Ps
        \/ "SAUL" \in Config /\ key \in Devices
        \/ "NETWORK" \in Config /\ key \in Ifaces
    <2>1. Keys = Flat \cup (IF "PS" \in Config THEN Ps ELSE {})
                     \cup (IF "SAUL" \in Config THEN Devices ELSE {})
                     \cup (IF "NETWORK" \in Config THEN Ifaces ELSE {})
      BY SMT DEF Keys
    <2>. HIDE DEF Flat, Ps, Devices, Ifaces
    <2>2. QED  BY <1>1, <2>1
  <1>3. CASE key \in Flat
    <2>1. \A a, b : Len(<<a, b>>) = 2
      OBVIOUS
    <2>2. Len(key) = 2
      BY <1>3, <2>1
    <2>3. QED  BY <1>1, <2>2 DEF StaticKeys
  <1>4. CASE "PS" \in Config /\ key \in Ps
    <2>1. PICK p \in threads, f \in ToSet(PsFields) :
             key = <<"runtime", "ps", ThreadName[p], f>>
      BY <1>4
    <2>2. PICK k \in DOMAIN PsFields : f = PsFields[k]
      BY <2>1 DEF ToSet
    <2>3. Runtime.name = "runtime" /\ "ps" \in ToSet(Runtime.dynamic)
      BY <1>4 DEF Runtime, ToSet
    <2>4. p \in Items("ps") /\ k \in LeafFields("ps")
      BY <2>1, <2>2 DEF Items, LeafFields, FieldNames
    <2>5. key = PathTo(2, "ps", p, k)
      BY <2>1, <2>2, <2>3, BranchesIn DEF PathTo, ItemName, FieldNames
    <2>6. 2 \in 1 .. Len(db_index) /\ "ps" \in ToSet(db_index[2].dynamic)
      BY <2>3, BranchesIn
    <2>7. Field
      BY <2>4, <2>5, <2>6
    <2>8. QED  BY <2>7
  <1>5. CASE "SAUL" \in Config /\ key \in Devices
    <2>1. PICK d \in ToSet(DeviceName) : key = <<"saul", "devices", d, "class">>
      BY <1>5
    <2>2. PICK m \in 1 .. Len(DeviceName) : d = DeviceName[m]
      BY <2>1, DbAssumption DEF ToSet
    <2>3. PICK i \in 1 .. Len(db_index) : db_index[i] = Saul
      BY <1>5, BranchesIn
    <2>4. Saul.name = "saul" /\ "devices" \in ToSet(Saul.dynamic)
      BY DEF Saul, ToSet
    <2>5. m \in Items("devices") /\ 1 \in LeafFields("devices")
      BY <2>2 DEF Items, Slots, LeafFields, FieldNames
    <2>6. key = PathTo(i, "devices", m, 1)
      BY <2>1, <2>2, <2>3, <2>4 DEF PathTo, ItemName, FieldNames
    <2>7. Field
      BY <2>3, <2>4, <2>5, <2>6
    <2>8. QED  BY <2>7
  <1>6. CASE "NETWORK" \in Config /\ key \in Ifaces
    <2>1. PICK m \in DOMAIN IfaceName :
            \/ \E f \in ToSet(NetifFields) \ {"neighbours"} :
                  key = <<"network", "netif", IfaceName[m], f>>
            \/ \E a \in ToSet(nib[m]) \ {Free}, f \in ToSet(QosFields) \ {"ip"} :
                  key = <<"network", "netif", IfaceName[m], "neighbours", a, f>>
      BY <1>6
    <2>2. PICK f \in ToSet(NetifFields) \ {"neighbours"} :
            key = <<"network", "netif", IfaceName[m], f>>
      <3>1. ASSUME NEW a, NEW f,
                   key = <<"network", "netif", IfaceName[m], "neighbours", a, f>>
            PROVE  FALSE
        <4>1. Len(<<"network", "netif", IfaceName[m], "neighbours", a, f>>) = 6
          OBVIOUS
        <4>2. QED  BY <1>1, <3>1, <4>1
      <3>2. QED  BY <2>1, <3>1
    <2>3. PICK k \in 1 .. 4 : f = NetifFields[k]
      <3>1. DOMAIN NetifFields = 1 .. 5 /\ NetifFields[5] = "neighbours"
        BY LastField
      <3>2. PICK k \in 1 .. 5 : f = NetifFields[k]
        BY <2>2, <3>1 DEF ToSet
      <3>3. k # 5
        BY <2>2, <3>1, <3>2
      <3>4. QED  BY <3>2, <3>3
    <2>4. PICK i \in 1 .. Len(db_index) : db_index[i] = Network
      BY <1>6, BranchesIn
    <2>5. Network.name = "network" /\ "netif" \in ToSet(Network.dynamic)
      BY DEF Network, ToSet
    <2>6. m \in Items("netif") /\ k \in LeafFields("netif")
      BY <2>1, <2>3, DbAssumption DEF Items, Slots, LeafFields
    <2>7. key = PathTo(i, "netif", m, k)
      BY <2>2, <2>3, <2>4, <2>5 DEF PathTo, ItemName, FieldNames
    <2>8. Field
      BY <2>4, <2>5, <2>6, <2>7
    <2>9. QED  BY <2>8
  <1>7. QED  BY <1>2, <1>3, <1>4, <1>5, <1>6


\* A lookup of such a key fails only below /runtime/ps, and there not when it is
\* repeated.
LEMMA NotFound ==
    ASSUME NEW t \in Tasks, FindInv(t), StaticAnswered,
           Failed(t), task[t].path \in FixedKeys
    PROVE  /\ task[t].path # <<>> /\ task[t].path[1] # "network"
           /\ OneReader => ~(hist.retry /\ t = Shell)
  <1>1. PICK p : p = task[t].path
    OBVIOUS
  <1>2. task[t].pc = "idle" /\ task[t].res = <<"enoent">> /\ Answered(t)
    BY DEF Failed, Answered
  <1>3. \A v : <<"value", v>> # <<"enoent">>
    OBVIOUS
  <1>4. p \notin StaticKeys
    BY <1>1, <1>2, <1>3 DEF StaticAnswered
  <1>5. PICK i \in 1 .. Len(db_index) : \E kind \in ToSet(db_index[i].dynamic) :
          \E m \in Items(kind), k \in LeafFields(kind) : p = PathTo(i, kind, m, k)
    BY <1>1, <1>4, FixedKeysAre
  <1>6. PICK kind \in ToSet(db_index[i].dynamic) :
          \E m \in Items(kind), k \in LeafFields(kind) : p = PathTo(i, kind, m, k)
    BY <1>5
  <1>7. PICK m \in Items(kind), k \in LeafFields(kind) : p = PathTo(i, kind, m, k)
    BY <1>6
  <1>8. kind = "netif" \/ OneReader => kind = "ps" /\ ~(hist.retry /\ t = Shell)
    BY <1>1, <1>2, <1>7 DEF FindInv, Finds, Reading
  <1>9. p # <<>> /\ p[1] = db_index[i].name
    BY <1>7 DEF PathTo
  <1>10. db_index[i].name = "network" => kind = "netif"
    BY DynamicIn
  <1>11. QED  BY <1>1, <1>8, <1>9, <1>10

\* It holds at the start.
LEMMA FindInit ==
    ASSUME Init, NEW t \in Tasks
    PROVE  AddressInv /\ AskedInv /\ FindInv(t)
  <1>1. \A u \in Tasks : task[u].seen = <<>> /\ task[u].path = <<>>
    BY DEF Init, Idle
  <1>2. \A i, kind, m, k : <<>> # PathTo(i, kind, m, k)
    BY DEF PathTo
  <1>3. QED  BY <1>1, <1>2, SoundInit DEF AskedInv, FindInv, Finds

\* And so do the bounds of the counters.
LEMMA CountersInit ==
    Init => CountersInv
  <1>1. Init => InTables(cursor)
    BY DEF Init, CursorInit, InTables
  <1>2. ASSUME Init, NEW t \in Tasks
        PROVE  task[t].seen = <<>> /\ task[t].pc = "idle"
    BY <1>2 DEF Init, Idle
  <1>3. QED  BY <1>1, <1>2 DEF CountersInv, Fits

\* Where there is one reader, the counters are within the bounds CountersInv states.
CountersKnown == OneReader => CountersInv

\* The fields of an interface are found: entering the network branch resets its
\* counters, so that it does not matter where other commands have left them, nor that
\* the handler looks them up in the middle of a command of a shell that has nothing
\* to do with that branch.
THEOREM FieldsCorrect ==
    ASSUME OneReader \/ Outside(Shell)
    PROVE  Spec => []NetifFieldsFound
  <1>1. PICK t \in Tasks : Alone(t) /\ \A u \in Tasks \ {t} :
                             Requests[u] = {} \/ (u = Shell /\ Outside(Shell))
    <2>1. CASE OneReader
      BY <2>1 DEF OneReader, Alone
    <2>2. CASE Outside(Shell)
      BY <2>2 DEF Alone, Tasks
    <2>3. QED  BY <2>1, <2>2
  <1>2. Spec => []ShapeInv
    BY ShapeInit, ShapeStep, PTL DEF Spec
  <1>3. Spec => []CountersKnown
    <2>1. Init => CountersKnown
      BY CountersInit DEF CountersKnown
    <2>2. CountersKnown /\ ShapeInv /\ [Next]_vars => CountersKnown'
      BY CountersStep DEF CountersKnown, OneReader, Tasks
    <2>3. QED  BY <1>2, <2>1, <2>2, PTL DEF Spec
  <1>4. Spec => []StaticAnswered
    BY StaticCorrect
  <1>5. Init => AddressInv /\ AskedInv /\ FindInv(t)
    BY FindInit
  <1>6. ShapeInv /\ AddressInv /\ AskedInv /\ FindInv(t) /\ CountersKnown /\ [Next]_vars
           => AddressInv' /\ AskedInv' /\ FindInv(t)'
    <2>1. ASSUME ShapeInv, AddressInv, AskedInv, FindInv(t),
                 CountersKnown, [Next]_vars
          PROVE  FindInv(t)'
      BY <1>1, <2>1, FindStep DEF CountersKnown
    <2>2. QED  BY <2>1, AddressStep, AskedStep
  <1>7. Spec => [](AskedInv /\ FindInv(t))
    BY <1>2, <1>3, <1>5, <1>6, PTL DEF Spec
  <1>8. AskedInv /\ FindInv(t) /\ StaticAnswered => NetifFieldsFound
    <2>1. SUFFICES ASSUME AskedInv, FindInv(t), StaticAnswered, NEW u \in Tasks,
                          Failed(u), task[u].path \in FixedKeys,
                          task[u].path[1] = "network"
                   PROVE  FALSE
      BY DEF NetifFieldsFound
    <2>2. u # t
      BY <2>1, NotFound
    <2>3. task[u].path # <<>>
      <3>1. \A key \in FixedKeys : key # <<>>
        BY FixedKeysAre, StaticKeysAre DEF PathTo, StaticKey
      <3>2. QED  BY <2>1, <3>1
    <2>4. PICK w \in Requests[u] : w.path = task[u].path
      BY <2>1, <2>3 DEF AskedInv
    <2>5. u = Shell /\ Outside(Shell)
      BY <1>1, <2>2, <2>4
    <2>6. Matches("network", "network")
      BY DEF Matches
    <2>7. QED  BY <2>1, <2>3, <2>4, <2>5, <2>6 DEF Outside
  <1>9. QED  BY <1>4, <1>7, <1>8, PTL

\* A query of one reader that fails although the key exists has met the counter of
\* ps.c somewhere among the fields, run it to its end and left it at 0: the same query,
\* given again, does not fail.
THEOREM RetryCorrect ==
    ASSUME OneReader
    PROVE  Spec => []RetrySucceeds
  <1>1. PICK t \in Tasks : \A u \in Tasks \ {t} : Requests[u] = {}
    BY DEF OneReader
  <1>2. Spec => []ShapeInv
    BY ShapeInit, ShapeStep, PTL DEF Spec
  <1>3. Spec => []CountersInv
    <2>1. Init => CountersInv
      BY CountersInit
    <2>2. ShapeInv /\ CountersInv /\ [Next]_vars => CountersInv'
      BY CountersStep
    <2>3. QED  BY <1>2, <2>1, <2>2, PTL DEF Spec
  <1>4. Spec => []StaticAnswered
    BY StaticCorrect
  <1>5. Init => AddressInv /\ AskedInv /\ FindInv(t)
    BY FindInit
  <1>6. ShapeInv /\ AddressInv /\ AskedInv /\ FindInv(t) /\ CountersInv /\ [Next]_vars
           => AddressInv' /\ AskedInv' /\ FindInv(t)'
    BY <1>1, AddressStep, AskedStep, FindStep DEF Alone
  <1>7. Spec => [](AskedInv /\ FindInv(t))
    BY <1>2, <1>3, <1>5, <1>6, PTL DEF Spec
  <1>8. AskedInv /\ FindInv(t) /\ StaticAnswered => RetrySucceeds
    <2>1. SUFFICES ASSUME AskedInv, FindInv(t), StaticAnswered, Failed(Shell),
                          task[Shell].path \in FixedKeys, hist.retry
                   PROVE  FALSE
      BY DEF RetrySucceeds
    <2>2. Shell # t
      BY <2>1, NotFound
    <2>3. Shell \in Tasks /\ Requests[Shell] = {}
      BY <1>1, <2>2 DEF Tasks
    <2>4. task[Shell].path = <<>>
      BY <2>1, <2>3 DEF AskedInv
    <2>5. \A key \in FixedKeys : key # <<>>
      BY FixedKeysAre, StaticKeysAre DEF PathTo, StaticKey
    <2>6. QED  BY <2>1, <2>4, <2>5
  <1>9. QED  BY <1>4, <1>7, <1>8, PTL
=============================================================================
