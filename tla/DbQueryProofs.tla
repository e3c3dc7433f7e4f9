---------------------------- MODULE DbQueryProofs -----------------------------
(***************************************************************************)
(* Theorems about DbQuery, for every board, every set of requests and      *)
(* every prefix relation of names; and, before them, the lemmas about the  *)
(* node operations of DbNode that all of them rest on: the tables of       *)
(* db_index and what a call of get_next_child returns.                     *)
(***************************************************************************)
EXTENDS DbQuery, LinkedListProofs, SequenceTheorems

-----------------------------------------------------------------------------
(* The node operations of DbNode.                                          *)

\* The least element of a set of numbers is one of them.
LEMMA MinIs ==
    ASSUME NEW A \in SUBSET Nat, A # {}
    PROVE  Min(A) \in A /\ \A k \in A : Min(A) <= k
  <1>1. \E m \in A : \A k \in A : m <= k
    BY Least
  <1>2. QED  BY <1>1 DEF Min

-----------------------------------------------------------------------------
(* The static layout of the tree.                                          *)

Branches == {Board, Runtime, Network, Saul}

\* Sequences of branches.
LEMMA BranchPair ==
    ASSUME NEW a \in Branches, NEW b \in Branches
    PROVE  /\ <<a, b>> \in Seq(Branches) /\ Len(<<a, b>>) = 2
           /\ <<a, b>>[1] = a /\ <<a, b>>[2] = b
  OBVIOUS

LEMMA BranchAppended ==
    ASSUME NEW l \in Seq(Branches), NEW b \in Branches
    PROVE  /\ l \o <<b>> \in Seq(Branches)
           /\ Len(l \o <<b>>) = Len(l) + 1
           /\ \A i \in 1 .. Len(l) : (l \o <<b>>)[i] = l[i]
           /\ (l \o <<b>>)[Len(l) + 1] = b
  OBVIOUS

\* db_index holds two to four branches, no two of one name.
LEMMA Index ==
    /\ db_index \in Seq(Branches)
    /\ Len(db_index) \in 2 .. 4
    /\ \A i, j \in 1 .. Len(db_index) :
          db_index[i].name = db_index[j].name => i = j
  <1>1. /\ Board.name = "board" /\ Runtime.name = "runtime"
        /\ Network.name = "network" /\ Saul.name = "saul"
    BY DEF Board, Runtime, Network, Saul
  <1>2. PICK two \in Seq(Branches) :
            /\ two = <<Board, Runtime>>
            /\ Len(two) = 2 /\ two[1] = Board /\ two[2] = Runtime
    <2>1. Board \in Branches /\ Runtime \in Branches
      BY DEF Branches
    <2>2. QED  BY <2>1, BranchPair
  <1>3. PICK three \in Seq(Branches) :
            three = IF "NETWORK" \in Config THEN two \o <<Network>> ELSE two
    BY <1>2, BranchAppended DEF Branches
  <1>4. /\ Len(three) \in 2 .. 3
        /\ three[1] = Board /\ three[2] = Runtime
        /\ Len(three) = 3 => three[3] = Network
    BY <1>2, <1>3, BranchAppended DEF Branches
  <1>5. PICK four \in Seq(Branches) :
            four = IF "SAUL" \in Config THEN three \o <<Saul>> ELSE three
    BY <1>3, BranchAppended DEF Branches
  <1>6. /\ Len(four) \in Len(three) .. Len(three) + 1
        /\ \A i \in 1 .. Len(three) : four[i] = three[i]
        /\ Len(four) = Len(three) + 1 => four[Len(four)] = Saul
    BY <1>5, BranchAppended DEF Branches
  <1>7. db_index = four
    <2>1. /\ two \o (IF "NETWORK" \in Config THEN <<Network>> ELSE <<>>) = three
          /\ three \o (IF "SAUL" \in Config THEN <<Saul>> ELSE <<>>) = four
      <3>1. \A l \in Seq(Branches) : l \o <<>> = l
        BY ConcatEmptySeq
      <3>2. QED  BY <1>3, <1>5, <3>1
    <2>2. db_index
            = (two \o (IF "NETWORK" \in Config THEN <<Network>> ELSE <<>>))
                \o (IF "SAUL" \in Config THEN <<Saul>> ELSE <<>>)
      BY <1>2 DEF db_index
    <2>3. QED  BY <2>1, <2>2
  <1>8. /\ \A i \in 1 .. Len(four) : four[i].name =
              IF i = 1 THEN "board" ELSE IF i = 2 THEN "runtime"
              ELSE IF i <= Len(three) THEN "network" ELSE "saul"
        /\ Len(four) \in 2 .. 4 /\ Len(four) <= Len(three) + 1
    <2>1. Len(four) \in 2 .. 4 /\ Len(four) <= Len(three) + 1
      <3>1. \A n, m \in Nat : n \in 2 .. 3 /\ m \in n .. n + 1
                                => m \in 2 .. 4 /\ m <= n + 1
        OBVIOUS
      <3>2. Len(three) \in Nat /\ Len(four) \in Nat
        OBVIOUS
      <3>3. QED  BY <1>4, <1>6, <3>1, <3>2
    <2>2. ASSUME NEW i \in 1 .. Len(four)
          PROVE  \/ i = 1 /\ four[i] = Board
                 \/ i = 2 /\ four[i] = Runtime
                 \/ i = 3 /\ i <= Len(three) /\ four[i] = Network
                 \/ i > 2 /\ i > Len(three) /\ four[i] = Saul
      BY <1>4, <1>6, <2>1
    <2>3. QED  BY <1>1, <2>1, <2>2
  <1>9. QED  BY <1>4, <1>7, <1>8

\* The entries of a branch: up to five static ones with names of their own,
\* then at most one dynamic subtree.
LEMMA Entries ==
    ASSUME NEW e \in Branches
    PROVE  /\ Len(e.static) \in 1 .. 5
           /\ Len(e.dynamic) \in 0 .. 1
           /\ Len(e.dynamic) = 1 => e.dynamic[1] \in {"ps", "netif", "devices"}
           /\ DOMAIN e.static = 1 .. Len(e.static)
           /\ \A k \in 1 .. Len(e.static) :
                 e.static[k][2] \in {"str", "int", "float"}
           /\ \A k, m \in 1 .. Len(e.static) :
                 e.static[k][1] = e.static[m][1] => k = m
  <1>1. CASE e = Board
    BY <1>1 DEF Board
  <1>2. CASE e = Runtime
    BY <1>2 DEF Runtime
  <1>3. CASE e = Network
    BY <1>3 DEF Network
  <1>4. CASE e = Saul
    BY <1>4 DEF Saul
  <1>5. QED  BY <1>1, <1>2, <1>3, <1>4 DEF Branches

-----------------------------------------------------------------------------
(* get_next_child writes a node or the null node, or nothing.              *)

\* What a call returns for the node n and the child variable c: the node stays
\* one of its kind.
Returns(s, n, c) ==
    /\ s = Step(s.node, s.child, s.cursor)
    /\ s.node \in WrittenNodes /\ s.node.ops = n.ops
    /\ s.child \in WrittenNodes \cup {NullNode, c}
    /\ s.cursor \in CursorSet

LEMMA StepReturns ==
    ASSUME NEW n, NEW c, NEW a \in WrittenNodes, a.ops = n.ops,
           NEW b \in WrittenNodes \cup {NullNode, c}, NEW cur \in CursorSet
    PROVE  Returns(Step(a, b, cur), n, c)
  BY DEF Returns, Step

\* Stepping a counter keeps its width.
LEMMA Widths ==
    /\ 0 \in Int8 /\ {0, 1, 2} \subseteq Uint8
    /\ \A x \in Int8 : IncInt8(x) \in Int8
    /\ \A x \in Uint8 : IncUint8(x) \in Uint8 /\ DecUint8(x) \in Uint8
  <1>1. \A x \in Int8 : IncInt8(x) \in Int8
    BY DEF IncInt8, Int8
  <1>2. ASSUME NEW x \in Uint8
        PROVE  IncUint8(x) \in Uint8 /\ DecUint8(x) \in Uint8
    BY DEF IncUint8, DecUint8, Uint8
  <1>3. 0 \in Int8 /\ {0, 1, 2} \subseteq Uint8
    BY DEF Int8, Uint8
  <1>4. QED  BY <1>1, <1>2, <1>3

\* The assignments to the counters, by name.
WithPs(cur, x)     == [cur EXCEPT !.ps = x]
WithSaul(cur, x)   == [cur EXCEPT !.saul = x]
WithField(cur, x)  == [cur EXCEPT !.field = x]
WithSub(cur, x)    == [cur EXCEPT !.sub = x]
WithNum(cur, x, y) == [cur EXCEPT !.num = x, !.sub = y]

\* So does writing one.
LEMMA CursorWritten ==
    ASSUME NEW cur \in CursorSet, NEW i \in Int8, NEW u \in Uint8, NEW v \in Uint8
    PROVE  /\ WithPs(cur, i) \in CursorSet
           /\ WithSaul(cur, i) \in CursorSet
           /\ WithField(cur, u) \in CursorSet
           /\ WithSub(cur, u) \in CursorSet
           /\ WithNum(cur, u, v) \in CursorSet
           /\ [cur EXCEPT !.field = u, !.sub = v] \in CursorSet
  BY DEF CursorSet, WithPs, WithSaul, WithField, WithSub, WithNum

LEMMA CursorFields ==
    ASSUME NEW cur \in CursorSet
    PROVE  /\ cur.ps \in Int8 /\ cur.saul \in Int8
           /\ cur.field \in Uint8 /\ cur.sub \in Uint8 /\ cur.num \in Uint8
  BY DEF CursorSet

\* The constructors of nodes.
LEMMA Constructed ==
    /\ \A i \in 0 .. Len(db_index) : RootNode(i) \in WrittenNodes
    /\ \A i \in 0 .. Len(db_index) - 1, k \in 0 .. 6, r \in 0 .. 1 :
          FlNode(i, k, r) \in WrittenNodes
    /\ \A p \in 1 .. PidLast + 1, r \in 0 .. 2 : PsNode(p, r) \in WrittenNodes
    /\ \A d \in 0 .. Len(DeviceName), r \in 0 .. 2 :
          SaulNode(d, r) \in WrittenNodes
    /\ \A i \in 0 .. Len(IfaceName), r \in 0 .. 4 :
          NetifNode(i, r) \in WrittenNodes
  BY DEF RootNode, FlNode, PsNode, SaulNode, NetifNode, WrittenNodes

\* A written node of a kind has the fields of its kind.
LEMMA Kinds ==
    ASSUME NEW n \in WrittenNodes
    PROVE  /\ n.ops \in {"root", "fl", "ps", "saul", "netif"}
           /\ n.ops = "root" => \E i \in 0 .. Len(db_index) : n = RootNode(i)
           /\ n.ops = "fl" =>
                \E i \in 0 .. Len(db_index) - 1, k \in 0 .. 6, r \in 0 .. 1 :
                    n = FlNode(i, k, r)
           /\ n.ops = "ps" =>
                \E p \in 1 .. PidLast + 1, r \in 0 .. 2 : n = PsNode(p, r)
           /\ n.ops = "saul" =>
                \E d \in 0 .. Len(DeviceName), r \in 0 .. 2 : n = SaulNode(d, r)
           /\ n.ops = "netif" =>
                \E i \in 0 .. Len(IfaceName), r \in 0 .. 4 : n = NetifNode(i, r)
  BY DEF RootNode, FlNode, PsNode, SaulNode, NetifNode, WrittenNodes

LEMMA RootReturns ==
    ASSUME NEW n \in WrittenNodes, n.ops = "root", NEW c, NEW cur \in CursorSet
    PROVE  Returns(RootNextChild(n, cur), n, c)
  <1>1. PICK i \in 0 .. Len(db_index) : n = RootNode(i)
    BY Kinds
  <1>2. Len(db_index) \in Nat
    BY Index
  <1>3. CASE i < Len(db_index)
    <2>1. [n EXCEPT !.idx = @ + 1] = RootNode(i + 1)
      BY <1>1 DEF RootNode
    <2>2. RootNextChild(n, cur) = Step(RootNode(i + 1), FlNode(i, 0, 1), cur)
      BY <1>1, <1>3, <2>1 DEF RootNextChild, RootNode
    <2>3. QED  BY <1>1, <1>2, <1>3, <2>2, Constructed DEF Returns, Step, RootNode
  <1>4. CASE ~(i < Len(db_index))
    BY <1>1, <1>4 DEF RootNextChild, RootNode, Returns, Step
  <1>5. QED  BY <1>3, <1>4

\* The dynamic subtrees begin with a written node.
LEMMA DynamicWritten ==
    ASSUME NEW kind \in {"ps", "devices", "netif"}, NEW cur \in CursorSet
    PROVE  /\ DynamicNode(kind) \in WrittenNodes
           /\ DynamicCursor(kind, cur) \in CursorSet
  <1>1. /\ 1 \in 1 .. PidLast + 1
        /\ DeviceNext(NULL) \in 0 .. Len(DeviceName)
        /\ IfaceIter(NULL) \in 0 .. Len(IfaceName)
    BY DbAssumption DEF DeviceNext, IfaceIter, NULL
  <1>2. DynamicNode(kind) \in WrittenNodes
    BY <1>1, Constructed DEF DynamicNode
  <1>3. DynamicCursor(kind, cur) \in CursorSet
    BY Widths, CursorWritten DEF DynamicCursor
  <1>4. QED  BY <1>2, <1>3

LEMMA FlReturns ==
    ASSUME NEW n \in WrittenNodes, n.ops = "fl", NEW c, NEW cur \in CursorSet
    PROVE  Returns(FlNextChild(n, cur), n, c)
  <1>1. PICK i \in 0 .. Len(db_index) - 1, k \in 0 .. 6, r \in 0 .. 1 :
            n = FlNode(i, k, r)
    BY Kinds
  <1>2. PICK e \in Branches : e = FlEntry(n)
    BY <1>1, Index DEF FlEntry, FlNode
  <1>3. PICK len \in 1 .. 5 : len = Len(e.static)
    BY <1>2, Entries
  <1> DEFINE dyn == k - len + 1
  <1>4. PICK next : next = [n EXCEPT !.sub_idx = @ + 1]
    OBVIOUS
  <1>5. k < 6 => next \in WrittenNodes /\ next.ops = "fl"
    <2>1. next = FlNode(i, k + 1, r)
      BY <1>1, <1>4 DEF FlNode
    <2>2. k < 6 => k + 1 \in 0 .. 6
      OBVIOUS
    <2>3. k < 6 => FlNode(i, k + 1, r) \in WrittenNodes
      BY <2>2, Constructed
    <2>4. QED  BY <2>1, <2>3 DEF FlNode
  <1>6. /\ r = 0 => FlNextChild(n, cur) = Step(n, NullNode, cur)
        /\ r = 1 /\ dyn <= 0 => FlNextChild(n, cur) = Step(next, FlNode(i, k, 0), cur)
        /\ r = 1 /\ dyn \in 1 .. Len(e.dynamic) =>
              FlNextChild(n, cur) = Step(next, DynamicNode(e.dynamic[dyn]),
                                         DynamicCursor(e.dynamic[dyn], cur))
        /\ r = 1 /\ ~(dyn <= 0) /\ dyn \notin 1 .. Len(e.dynamic) =>
              FlNextChild(n, cur) = Step(n, NullNode, cur)
    BY <1>1, <1>2, <1>3, <1>4 DEF FlNextChild, FlNode
  <1>7. CASE r = 1 /\ dyn <= 0
    <2>1. k < 6
      BY <1>7
    <2>2. QED  BY <1>1, <1>5, <1>6, <1>7, <2>1, Constructed DEF Returns, Step
  <1>8. CASE r = 1 /\ dyn \in 1 .. Len(e.dynamic)
    <2>1. Len(e.dynamic) = 1 /\ e.dynamic[1] \in {"ps", "netif", "devices"}
      <3>1. Len(e.dynamic) \in 0 .. 1
        BY Entries
      <3>2. QED  BY <1>8, <3>1, Entries
    <2>2. dyn = 1 /\ k < 6
      BY <1>8, <2>1
    <2>3. /\ DynamicNode(e.dynamic[dyn]) \in WrittenNodes
          /\ DynamicCursor(e.dynamic[dyn], cur) \in CursorSet
      BY <2>1, <2>2, DynamicWritten
    <2>4. QED  BY <1>5, <1>6, <1>8, <2>2, <2>3, StepReturns
  <1>9. QED  BY <1>6, <1>7, <1>8 DEF Returns, Step

\* The next pid is that of a thread, or the one after the last.
LEMMA NextPidIs ==
    ASSUME threads \subseteq 1 .. PidLast, NEW p \in 1 .. PidLast
    PROVE  NextPid(p) \in {q \in threads : q > p} \cup {PidLast + 1}
  <1> DEFINE Q == {q \in threads : q > p} \cup {PidLast + 1}
  <1>1. Q \in SUBSET Nat /\ Q # {}
    <2>1. PidLast + 1 \in Nat /\ threads \subseteq Nat
      BY DbAssumption
    <2>2. QED  BY <2>1
  <1>2. Min(Q) \in Q
    BY <1>1, MinIs
  <1>3. QED  BY <1>2 DEF NextPid

LEMMA PsReturns ==
    ASSUME threads \subseteq 1 .. PidLast,
           NEW n \in WrittenNodes, n.ops = "ps", NEW c,
           NEW seen \in CursorSet, NEW cur \in CursorSet
    PROVE  Returns(PsNextChild(n, c, seen, cur), n, c)
  <1>1. PICK p \in 1 .. PidLast + 1, r \in 0 .. 2 : n = PsNode(p, r)
    BY Kinds
  <1>2. PICK q : q = NextPid(p)
    OBVIOUS
  <1>3. p <= PidLast => q \in 1 .. PidLast + 1
    <2>1. PidLast \in Nat \ {0}
      BY DbAssumption
    <2>2. p <= PidLast => p \in 1 .. PidLast
      BY <2>1
    <2>3. p <= PidLast => q \in 1 .. PidLast \/ q = PidLast + 1
      BY <1>2, <2>2, NextPidIs
    <2>4. QED  BY <2>1, <2>3
  <1>4. /\ WithPs(cur, 0) \in CursorSet
        /\ WithPs(cur, IncInt8(cur.ps)) \in CursorSet
    BY Widths, CursorWritten, CursorFields
  <1>5. [n EXCEPT !.pid = NextPid(@)] = PsNode(q, r)
    BY <1>1, <1>2 DEF PsNode
  <1>6. \/ /\ p <= PidLast
           /\ \/ PsNextChild(n, c, seen, cur) = Step(PsNode(q, r), PsNode(p, 1), cur)
              \/ PsNextChild(n, c, seen, cur) = Step(PsNode(q, 0), PsNode(p, 0), cur)
        \/ PsNextChild(n, c, seen, cur) = Step(n, NullNode, cur)
        \/ PsNextChild(n, c, seen, cur) = Step(n, NullNode, WithPs(cur, 0))
        \/ PsNextChild(n, c, seen, cur) = Step(n, c, WithPs(cur, IncInt8(cur.ps)))
        \/ PsNextChild(n, c, seen, cur) = Step(n, c, cur)
    BY <1>1, <1>2, <1>5
       DEF PsNextChild, PsNode, PsFieldsBegin, PsFieldsEnd, WithPs
  <1>7. /\ PsNode(p, 1) \in WrittenNodes /\ PsNode(p, 0) \in WrittenNodes
        /\ p <= PidLast => PsNode(q, r) \in WrittenNodes
                             /\ PsNode(q, 0) \in WrittenNodes
        /\ PsNode(q, r).ops = "ps" /\ PsNode(q, 0).ops = "ps"
    <2>1. 0 \in 0 .. 2 /\ 1 \in 0 .. 2
      OBVIOUS
    <2>2. \A x, k : PsNode(x, k).ops = "ps"
      BY DEF PsNode
    <2>3. QED  BY <1>1, <1>3, <2>1, <2>2, Constructed
  <1>8. QED  BY <1>4, <1>6, <1>7, StepReturns

LEMMA SaulReturns ==
    ASSUME NEW n \in WrittenNodes, n.ops = "saul", NEW c,
           NEW seen \in CursorSet, NEW cur \in CursorSet
    PROVE  Returns(SaulNextChild(n, c, seen, cur), n, c)
  <1>1. PICK d \in 0 .. Len(DeviceName), r \in 0 .. 2 : n = SaulNode(d, r)
    BY Kinds
  <1>2. PICK q : q = DeviceNext(d)
    OBVIOUS
  <1>3. q \in 0 .. Len(DeviceName)
    BY <1>1, <1>2, DbAssumption DEF DeviceNext, NULL
  <1>4. /\ WithSaul(cur, 0) \in CursorSet
        /\ WithSaul(cur, IncInt8(cur.saul)) \in CursorSet
    BY Widths, CursorWritten, CursorFields
  <1>5. [n EXCEPT !.dev = DeviceNext(@)] = SaulNode(q, r)
    BY <1>1, <1>2 DEF SaulNode
  <1>6. \/ SaulNextChild(n, c, seen, cur) = Step(SaulNode(q, r), SaulNode(d, 1), cur)
        \/ SaulNextChild(n, c, seen, cur) = Step(SaulNode(q, 0), SaulNode(d, 0), cur)
        \/ SaulNextChild(n, c, seen, cur) = Step(n, NullNode, cur)
        \/ SaulNextChild(n, c, seen, cur) = Step(n, NullNode, WithSaul(cur, 0))
        \/ SaulNextChild(n, c, seen, cur)
              = Step(n, c, WithSaul(cur, IncInt8(cur.saul)))
        \/ SaulNextChild(n, c, seen, cur) = Step(n, c, cur)
    BY <1>1, <1>2, <1>5 DEF SaulNextChild, SaulNode, WithSaul
  <1>7. /\ SaulNode(d, 1) \in WrittenNodes /\ SaulNode(d, 0) \in WrittenNodes
        /\ SaulNode(q, r) \in WrittenNodes /\ SaulNode(q, 0) \in WrittenNodes
        /\ SaulNode(q, r).ops = "saul" /\ SaulNode(q, 0).ops = "saul"
    <2>1. 0 \in 0 .. 2 /\ 1 \in 0 .. 2
      OBVIOUS
    <2>2. \A x, k : SaulNode(x, k).ops = "saul"
      BY DEF SaulNode
    <2>3. QED  BY <1>1, <1>3, <2>1, <2>2, Constructed
  <1>8. QED  BY <1>4, <1>6, <1>7, StepReturns

\* The cases of get_next_child of netif.c, level by level.
LEMMA NetifLevel4 ==
    ASSUME NEW i, NEW c, NEW seen, NEW cur
    PROVE  NetifNextChild(NetifNode(i, 4), c, seen, cur) =
              IF i # NULL
              THEN Step(NetifNode(IfaceIter(i), 4), NetifNode(i, 3), cur)
              ELSE Step(NetifNode(i, 4), NullNode, cur)
  BY DEF NetifNextChild, NetifNode

LEMMA NetifLevel3 ==
    ASSUME NEW i, NEW c, NEW seen, NEW cur
    PROVE  NetifNextChild(NetifNode(i, 3), c, seen, cur) =
              IF i # NULL /\ seen.field < 5
              THEN Step(NetifNode(IfaceIter(i), 2), NetifNode(i, 2), cur)
              ELSE Step(NetifNode(i, 3), c, cur)
  BY DEF NetifNextChild, NetifNode, NetifFields

LEMMA NetifLevel2 ==
    ASSUME NEW i, NEW c, NEW seen \in CursorSet, NEW cur
    PROVE  NetifNextChild(NetifNode(i, 2), c, seen, cur) =
              IF seen.field = 4 /\ i # NULL /\ seen.num > 0
              THEN Step(NetifNode(i, 1), NetifNode(i, 1),
                        WithSub(cur, IncUint8(cur.sub)))
              ELSE IF seen.field < 4
              THEN Step(NetifNode(i, 2), c, WithField(cur, IncUint8(cur.field)))
              ELSE Step(NetifNode(i, 2), NullNode, cur)
  <1>1. PICK f, m : f \in Nat /\ f = seen.field /\ m = seen.num
    <2>1. Uint8 \subseteq Nat
      BY DEF Uint8
    <2>2. QED  BY <2>1, CursorFields
  <1>2. /\ NetifNode(i, 2).is_root = 2 /\ NetifNode(i, 2).iface = i
        /\ [NetifNode(i, 2) EXCEPT !.is_root = 1] = NetifNode(i, 1)
    BY DEF NetifNode
  <1>3. Len(NetifFields) = 5
    BY DEF NetifFields
  <1>4. NetifNextChild(NetifNode(i, 2), c, seen, cur) =
          IF f = 4 /\ i # NULL /\ m > 0
          THEN Step(NetifNode(i, 1), NetifNode(i, 1),
                    WithSub(cur, IncUint8(cur.sub)))
          ELSE IF f < 4
          THEN Step(NetifNode(i, 2), c, WithField(cur, IncUint8(cur.field)))
          ELSE Step(NetifNode(i, 2), NullNode, cur)
    BY <1>1, <1>2, <1>3 DEF NetifNextChild, WithSub, WithField
  <1>5. QED  BY <1>1, <1>4

LEMMA NetifLevel1 ==
    ASSUME NEW i, NEW c, NEW seen \in CursorSet, NEW cur
    PROVE  NetifNextChild(NetifNode(i, 1), c, seen, cur) =
              IF seen.num = 0
              THEN Step(NetifNode(i, 1), NullNode, WithSub(cur, 1))
              ELSE IF seen.sub = 1
              THEN Step(NetifNode(i, 1), NetifNode(i, 1),
                        WithSub(cur, IncUint8(cur.sub)))
              ELSE IF seen.sub < 4
              THEN Step(NetifNode(i, 0), NetifNode(i, 0), cur)
              ELSE NextNeighbour(NetifNode(i, 1), cur)
  <1>1. PICK u \in Nat, m \in Nat : u = seen.sub /\ m = seen.num
    <2>1. Uint8 \subseteq Nat
      BY DEF Uint8
    <2>2. QED  BY <2>1, CursorFields
  <1>2. /\ NetifNode(i, 1).is_root = 1 /\ NetifNode(i, 1).iface = i
        /\ [NetifNode(i, 1) EXCEPT !.is_root = 0] = NetifNode(i, 0)
        /\ [NetifNode(i, 1) EXCEPT !.is_root = 1] = NetifNode(i, 1)
    BY DEF NetifNode
  <1>3. Len(QosFields) = 4
    BY DEF QosFields
  <1>4. NetifNextChild(NetifNode(i, 1), c, seen, cur) =
          IF m = 0
          THEN Step(NetifNode(i, 1), NullNode, WithSub(cur, 1))
          ELSE IF u = 1
          THEN Step(NetifNode(i, 1), NetifNode(i, 1),
                    WithSub(cur, IncUint8(cur.sub)))
          ELSE IF u < 4
          THEN Step(NetifNode(i, 0), NetifNode(i, 0), cur)
          ELSE NextNeighbour(NetifNode(i, 1), cur)
    BY <1>1, <1>2, <1>3 DEF NetifNextChild, WithSub, WithField
  <1>5. QED  BY <1>1, <1>4

LEMMA NetifLevel0 ==
    ASSUME NEW i, NEW c, NEW seen \in CursorSet, NEW cur
    PROVE  NetifNextChild(NetifNode(i, 0), c, seen, cur) =
              IF seen.sub < 4
              THEN Step(NetifNode(i, 0), c, WithSub(cur, IncUint8(cur.sub)))
              ELSE IF seen.sub = 4 /\ seen.num # 0
              THEN Step(NetifNode(i, 0), NullNode,
                        WithSub(cur, IncUint8(cur.sub)))
              ELSE NextNeighbour(NetifNode(i, 0), cur)
  <1>1. seen.sub \in Nat
    <2>1. Uint8 \subseteq Nat
      BY DEF Uint8
    <2>2. QED  BY <2>1, CursorFields
  <1>2. NetifNode(i, 0).is_root = 0
    BY DEF NetifNode
  <1>3. Len(QosFields) = 4
    BY DEF QosFields
  <1>4. QED  BY <1>1, <1>2, <1>3 DEF NetifNextChild, WithSub, WithField

\* The end of a neighbour's fields.
LEMMA NeighbourEnds ==
    ASSUME NEW i, NEW k, NEW cur
    PROVE  NextNeighbour(NetifNode(i, k), cur) =
              IF DecUint8(cur.num) = 0
              THEN Step(NetifNode(i, k), NullNode, WithNum(cur, 0, 1))
              ELSE Step(NetifNode(i, 1), NetifNode(i, 1),
                        WithNum(cur, DecUint8(cur.num), 2))
  <1>1. /\ [NetifNode(i, k) EXCEPT !.is_root = 1] = NetifNode(i, 1)
        /\ NetifNode(i, k).iface = i
    BY DEF NetifNode
  <1>2. QED  BY <1>1 DEF NextNeighbour, WithNum

LEMMA NetifReturns ==
    ASSUME NEW n \in WrittenNodes, n.ops = "netif", NEW c,
           NEW seen \in CursorSet, NEW cur \in CursorSet
    PROVE  Returns(NetifNextChild(n, c, seen, cur), n, c)
  <1>1. PICK i \in 0 .. Len(IfaceName), r \in 0 .. 4 : n = NetifNode(i, r)
    BY Kinds
  <1>2. IfaceIter(i) \in 0 .. Len(IfaceName)
    BY <1>1, DbAssumption DEF IfaceIter, NULL
  <1>3. /\ WithField(cur, IncUint8(cur.field)) \in CursorSet
        /\ WithSub(cur, IncUint8(cur.sub)) \in CursorSet
        /\ WithSub(cur, 1) \in CursorSet
        /\ WithNum(cur, 0, 1) \in CursorSet
        /\ WithNum(cur, DecUint8(cur.num), 2) \in CursorSet
    BY Widths, CursorWritten, CursorFields
  <1>4. /\ \A k \in 0 .. 4 : NetifNode(i, k) \in WrittenNodes
        /\ \A k \in 0 .. 4 : NetifNode(IfaceIter(i), k) \in WrittenNodes
        /\ \A j, k : NetifNode(j, k).ops = "netif"
    <2>1. \A j, k : NetifNode(j, k).ops = "netif"
      BY DEF NetifNode
    <2>2. QED  BY <1>1, <1>2, <2>1, Constructed
  <1>5. /\ \A k \in 0 .. 4, b \in WrittenNodes \cup {NullNode, c}, x \in CursorSet :
              Returns(Step(NetifNode(i, k), b, x), n, c)
        /\ {NetifNode(i, 0), NetifNode(i, 1)} \subseteq WrittenNodes
        /\ {0, 1, 2} \subseteq 0 .. 4
    BY <1>1, <1>4, StepReturns
  <1>6. \A k \in 0 .. 4 : Returns(NextNeighbour(NetifNode(i, k), cur), n, c)
    <2>1. ASSUME NEW k \in 0 .. 4
          PROVE  Returns(NextNeighbour(NetifNode(i, k), cur), n, c)
      <3>1. /\ Returns(Step(NetifNode(i, k), NullNode,
                            WithNum(cur, 0, 1)), n, c)
            /\ Returns(Step(NetifNode(i, 1), NetifNode(i, 1),
                   WithNum(cur, DecUint8(cur.num), 2)), n, c)
        BY <1>3, <1>4, <1>5
      <3>2. QED  BY <3>1, NeighbourEnds
    <2>2. QED  BY <2>1
  <1>7. CASE r = 4
    BY <1>1, <1>4, <1>7, NetifLevel4, StepReturns
  <1>8. CASE r = 3
    BY <1>1, <1>4, <1>8, NetifLevel3, StepReturns
  <1>9. CASE r = 2
    <2>1. /\ Returns(Step(NetifNode(i, 1), NetifNode(i, 1),
                          WithSub(cur, IncUint8(cur.sub))), n, c)
          /\ Returns(Step(NetifNode(i, 2), c,
                          WithField(cur, IncUint8(cur.field))), n, c)
          /\ Returns(Step(NetifNode(i, 2), NullNode, cur), n, c)
      BY <1>3, <1>4, <1>5
    <2>2. QED  BY <1>1, <1>9, <2>1, NetifLevel2
  <1>10. CASE r = 1
    <2>1. /\ Returns(Step(NetifNode(i, 1), NullNode, WithSub(cur, 1)), n, c)
          /\ Returns(Step(NetifNode(i, 1), NetifNode(i, 1),
                          WithSub(cur, IncUint8(cur.sub))), n, c)
          /\ Returns(Step(NetifNode(i, 0), NetifNode(i, 0), cur), n, c)
      BY <1>3, <1>4, <1>5
    <2>2. QED  BY <1>1, <1>6, <1>10, <2>1, NetifLevel1
  <1>11. CASE r = 0
    <2>1. /\ Returns(Step(NetifNode(i, 0), c, WithSub(cur, IncUint8(cur.sub))), n, c)
          /\ Returns(Step(NetifNode(i, 0), NullNode,
                          WithSub(cur, IncUint8(cur.sub))), n, c)
      BY <1>3, <1>4, <1>5
    <2>2. QED  BY <1>1, <1>6, <1>11, <2>1, NetifLevel0
  <1>12. QED  BY <1>7, <1>8, <1>9, <1>10, <1>11

LEMMA NextChildReturns ==
    ASSUME threads \subseteq 1 .. PidLast,
           NEW n \in WrittenNodes, NEW c,
           NEW seen \in CursorSet, NEW cur \in CursorSet
    PROVE  Returns(NextChild(n, c, seen, cur), n, c)
  BY Kinds, RootReturns, FlReturns, PsReturns, SaulReturns, NetifReturns
     DEF NextChild

-----------------------------------------------------------------------------
(* What a call does to the counters when nothing disturbs it.              *)

\* The counters are indices of the field tables (the counter of the QoS fields
\* from 1 on, and one past its table at the end of a neighbour).
InTables(cur) ==
    /\ cur.ps \in 0 .. 4
    /\ cur.saul = 0
    /\ cur.field \in 0 .. 4
    /\ cur.sub \in 1 .. 5

\* Nodes of netif.c: the folders of the subtree, of an interface and its fields,
\* and those of a neighbour and its fields.
OfNetif(n) == n.ops = "netif"
High(n)    == OfNetif(n) /\ n.is_root \in 2 .. 4
Low(n)     == OfNetif(n) /\ n.is_root \in 0 .. 1

\* Counting within the tables.
LEMMA Counting ==
    ASSUME NEW cur \in CursorSet, InTables(cur)
    PROVE  /\ InTables(WithPs(cur, 0)) /\ InTables(WithSaul(cur, 0))
           /\ cur.ps # 4 => InTables(WithPs(cur, IncInt8(cur.ps)))
           /\ cur.field < 4 => InTables(WithField(cur, IncUint8(cur.field)))
           /\ cur.sub < 5 => InTables(WithSub(cur, IncUint8(cur.sub)))
           /\ cur.sub < 5 => WithSub(cur, IncUint8(cur.sub)).sub = cur.sub + 1
           /\ InTables(WithSub(cur, 1)) /\ WithSub(cur, 1).sub = 1
           /\ \A x : /\ InTables(WithNum(cur, x, 1)) /\ InTables(WithNum(cur, x, 2))
                     /\ WithNum(cur, x, 1).sub = 1 /\ WithNum(cur, x, 2).sub = 2
                     /\ WithNum(cur, x, 1).field = cur.field
                     /\ WithNum(cur, x, 2).field = cur.field
                     /\ WithNum(cur, x, 2).num = x
           /\ \A x : /\ WithSub(cur, x).field = cur.field
                     /\ WithSub(cur, x).num = cur.num
           /\ \A x : WithPs(cur, x).sub = cur.sub /\ WithSaul(cur, x).sub = cur.sub
                     /\ WithField(cur, x).sub = cur.sub
  <1>1. /\ \A x \in 0 .. 3 : IncInt8(x) = x + 1
        /\ \A x \in 0 .. 4 : IncUint8(x) = x + 1
    BY DEF IncInt8, IncUint8
  <1>2. /\ cur.ps # 4 => IncInt8(cur.ps) \in 0 .. 4
        /\ cur.field < 4 => IncUint8(cur.field) \in 0 .. 4
        /\ cur.sub < 5 => IncUint8(cur.sub) = cur.sub + 1 /\ cur.sub + 1 \in 1 .. 5
    BY <1>1 DEF InTables
  <1>3. \A x : WithPs(cur, x).sub = cur.sub /\ WithSaul(cur, x).sub = cur.sub
               /\ WithField(cur, x).sub = cur.sub
    BY DEF CursorSet, WithPs, WithSaul, WithField
  <1>4. \A x : /\ WithSub(cur, x).field = cur.field /\ WithSub(cur, x).num = cur.num
               /\ WithSub(cur, x).sub = x
    BY DEF CursorSet, WithSub
  <1>5. \A x : /\ WithNum(cur, x, 1).sub = 1 /\ WithNum(cur, x, 2).sub = 2
               /\ WithNum(cur, x, 1).field = cur.field
               /\ WithNum(cur, x, 2).field = cur.field
               /\ WithNum(cur, x, 2).num = x
    BY DEF CursorSet, WithNum
  <1>6. /\ \A x \in 0 .. 4 : InTables(WithPs(cur, x))
        /\ InTables(WithSaul(cur, 0))
        /\ \A x \in 0 .. 4 : InTables(WithField(cur, x))
        /\ \A x \in 1 .. 5 : InTables(WithSub(cur, x))
    BY DEF CursorSet, InTables, WithPs, WithSaul, WithField, WithSub
  <1>7. \A x : InTables(WithNum(cur, x, 1)) /\ InTables(WithNum(cur, x, 2))
    BY DEF CursorSet, InTables, WithNum
  <1>8. 0 \in 0 .. 4 /\ 1 \in 1 .. 5
    OBVIOUS
  <1>9. QED  BY <1>2, <1>3, <1>4, <1>5, <1>6, <1>7, <1>8

\* Outside netif.c a call leaves the counter of the QoS fields alone, or sets it
\* to 1 and hands over to the subtree of netif.c.
OutsideNetif(s, c, cur) ==
    /\ InTables(s.cursor) /\ s.cursor.sub \in {cur.sub, 1}
    /\ OfNetif(s.child) /\ s.child # c => s.child.is_root = 4 /\ s.cursor.sub = 1

LEMMA OutsideCounts ==
    ASSUME threads \subseteq 1 .. PidLast,
           NEW n \in WrittenNodes, ~OfNetif(n), NEW c,
           NEW cur \in CursorSet, InTables(cur)
    PROVE  OutsideNetif(NextChild(n, c, cur, cur), c, cur)
  <1>1. PICK s : s = NextChild(n, c, cur, cur)
    OBVIOUS
  <1>2. n.ops \in {"root", "fl", "ps", "saul"}
    BY Kinds DEF OfNetif
  <1>3. ASSUME NEW a, NEW b, b = c \/ ~OfNetif(b),
               NEW x, InTables(x), x.sub = cur.sub
        PROVE  OutsideNetif(Step(a, b, x), c, cur)
    BY <1>3 DEF Step, OutsideNetif
  <1>4. /\ ~OfNetif(NullNode)
        /\ \A i, k, r : ~OfNetif(FlNode(i, k, r))
        /\ \A p, r : ~OfNetif(PsNode(p, r)) /\ ~OfNetif(SaulNode(p, r))
    BY DEF OfNetif, NullNode, FlNode, PsNode, SaulNode
  <1>5. CASE n.ops = "root"
    <2>1. \/ \E a, i : s = Step(a, FlNode(i, 0, 1), cur)
          \/ s = Step(n, NullNode, cur)
      BY <1>1, <1>5 DEF NextChild, RootNextChild
    <2>2. QED  BY <1>1, <1>3, <1>4, <2>1
  <1>6. CASE n.ops = "fl"
    <2>1. PICK e : e = FlEntry(n)
      OBVIOUS
    <2>2. \/ \E a, i, k : s = Step(a, FlNode(i, k, 0), cur)
          \/ \E a, kind : s = Step(a, DynamicNode(kind), DynamicCursor(kind, cur))
                         /\ kind \in {"ps", "netif", "devices"}
          \/ s = Step(n, NullNode, cur)
      <3>1. PICK i \in 0 .. Len(db_index) - 1, k \in 0 .. 6, r \in 0 .. 1 :
                n = FlNode(i, k, r)
        BY <1>6, Kinds
      <3>2. r \in {0, 1} /\ n.is_root = r
        BY <3>1 DEF FlNode
      <3>3. e \in Branches
        BY <2>1, <3>1, Index DEF FlEntry, FlNode
      <3>4. \A d \in 1 .. Len(e.dynamic) : e.dynamic[d] \in {"ps", "netif", "devices"}
        <4>1. PICK len \in 0 .. 1 : len = Len(e.dynamic)
          BY <3>3, Entries
        <4>2. QED  BY <3>3, <4>1, Entries
      <3>5. s = FlNextChild(n, cur)
        BY <1>1, <1>6 DEF NextChild
      <3>6. PICK dyn, next :
              /\ dyn = n.sub_idx - Len(e.static) + 1
              /\ next = [n EXCEPT !.sub_idx = @ + 1]
        OBVIOUS
      <3>7. /\ r = 0 => s = Step(n, NullNode, cur)
            /\ r = 1 /\ dyn <= 0 => s = Step(next, FlNode(n.fl_idx, n.sub_idx, 0), cur)
            /\ r = 1 /\ dyn \in 1 .. Len(e.dynamic) =>
                  s = Step(next, DynamicNode(e.dynamic[dyn]),
                           DynamicCursor(e.dynamic[dyn], cur))
            /\ r = 1 /\ ~(dyn <= 0) /\ dyn \notin 1 .. Len(e.dynamic) =>
                  s = Step(n, NullNode, cur)
        <4>1. dyn \in Int
          <5>1. n.sub_idx \in Int
            BY <3>1 DEF FlNode
          <5>2. PICK len \in 1 .. 5 : len = Len(e.static)
            BY <3>3, Entries
          <5>3. QED  BY <3>6, <5>1, <5>2
        <4>2. dyn <= 0 => dyn \notin 1 .. Len(e.dynamic)
          BY <4>1
        <4>3. QED  BY <2>1, <3>2, <3>5, <3>6, <4>2 DEF FlNextChild
      <3>8. QED  BY <3>2, <3>4, <3>7
    <2>3. ASSUME NEW a, NEW kind \in {"ps", "netif", "devices"}
          PROVE  OutsideNetif(Step(a, DynamicNode(kind), DynamicCursor(kind, cur)),
                              c, cur)
      <3>1. CASE kind = "netif"
        <4>1. DynamicNode(kind).is_root = 4
          BY <3>1 DEF DynamicNode, NetifNode
        <4>2. PICK x : x = [cur EXCEPT !.field = 0, !.sub = 1]
          OBVIOUS
        <4>3. DynamicCursor(kind, cur) = x
          BY <3>1, <4>2 DEF DynamicCursor
        <4>4. x.sub = 1 /\ InTables(x)
          BY <4>2 DEF CursorSet, InTables
        <4>5. QED  BY <4>1, <4>3, <4>4 DEF Step, OutsideNetif
      <3>2. CASE kind # "netif"
        <4>1. DynamicCursor(kind, cur) = cur
          BY <3>2 DEF DynamicCursor
        <4>2. ~OfNetif(DynamicNode(kind))
          BY <1>4, <3>2 DEF DynamicNode
        <4>3. QED  BY <1>3, <4>1, <4>2
      <3>3. QED  BY <3>1, <3>2
    <2>4. QED  BY <1>1, <1>3, <1>4, <2>2, <2>3
  <1>7. CASE n.ops = "ps"
    <2>1. \/ \E a, p, r : s = Step(a, PsNode(p, r), cur)
          \/ s = Step(n, NullNode, cur) \/ s = Step(n, c, cur)
          \/ s = Step(n, NullNode, WithPs(cur, 0))
          \/ cur.ps # 4 /\ s = Step(n, c, WithPs(cur, IncInt8(cur.ps)))
      <3>1. Len(PsFields) = 5
        BY DEF PsFields
      <3>2. AtLastField(cur) <=> cur.ps = 4
        BY <3>1 DEF AtLastField, InTables
      <3>3. s = PsNextChild(n, c, cur, cur)
        BY <1>1, <1>7 DEF NextChild
      <3>4. QED  BY <3>2, <3>3 DEF PsNextChild, PsFieldsBegin, PsFieldsEnd, WithPs
    <2>2. QED  BY <1>1, <1>3, <1>4, <2>1, Counting
  <1>8. CASE n.ops = "saul"
    <2>1. \/ \E a, p, r : s = Step(a, SaulNode(p, r), cur)
          \/ s = Step(n, NullNode, cur) \/ s = Step(n, c, cur)
          \/ s = Step(n, NullNode, WithSaul(cur, 0))
      <3>1. s = SaulNextChild(n, c, cur, cur)
        BY <1>1, <1>8 DEF NextChild
      <3>2. QED  BY <3>1 DEF SaulNextChild, WithSaul, InTables
    <2>2. QED  BY <1>1, <1>3, <1>4, <2>1, Counting
  <1>9. QED  BY <1>1, <1>2, <1>5, <1>6, <1>7, <1>8

\* A node of netif.c by its level.
LEMMA NetifAt ==
    ASSUME NEW n \in WrittenNodes, OfNetif(n)
    PROVE  \E i : n = NetifNode(i, n.is_root)
  BY Kinds DEF OfNetif, NetifNode

LEMMA NetifIs ==
    ASSUME NEW i, NEW k
    PROVE  OfNetif(NetifNode(i, k)) /\ NetifNode(i, k).is_root = k
  BY DEF OfNetif, NetifNode

\* Above the neighbours, where the counter of the QoS fields is 1: the call
\* leaves it there, or it turns to the first neighbour.
LEMMA HighCounts ==
    ASSUME NEW n \in WrittenNodes, High(n), NEW c,
           NEW cur \in CursorSet, InTables(cur), cur.sub = 1
    PROVE  LET s == NextChild(n, c, cur, cur)
           IN  /\ InTables(s.cursor)
               /\ \/ /\ n.is_root = 2 /\ cur.field = 4
                     /\ s.cursor.sub = 2 /\ s.cursor.field = 4 /\ s.cursor.num > 0
                     /\ OfNetif(s.node) /\ s.node.is_root = 1
                     /\ OfNetif(s.child) /\ s.child.is_root = 1
                  \/ /\ s.cursor.sub = 1 /\ High(s.node)
                     /\ s.node.is_root \in {n.is_root, 2}
                     /\ n.is_root = 4 => s.node.is_root = 4
                     /\ \/ s.child = NullNode
                        \/ High(s.child) /\ s.child.is_root # 4 /\ s.node.is_root # 3
                        \/ /\ s.child = c /\ s.node = n /\ n.is_root # 4
                           /\ n.is_root = 2 => cur.field < 4
  <1>1. PICK s : s = NextChild(n, c, cur, cur) /\ s = NetifNextChild(n, c, cur, cur)
    BY DEF NextChild, High, OfNetif
  <1>2. PICK i : n = NetifNode(i, n.is_root)
    BY NetifAt DEF High
  <1>3. n.is_root \in {2, 3, 4}
    BY DEF High
  <1>4. ASSUME NEW a, NEW b, NEW x, s = Step(a, b, x)
        PROVE  s.node = a /\ s.child = b /\ s.cursor = x
    BY <1>4 DEF Step
  <1>5. /\ \A j, k : OfNetif(NetifNode(j, k)) /\ NetifNode(j, k).is_root = k
        /\ \A j : \A k \in {2, 3, 4} : High(NetifNode(j, k))
    BY NetifIs DEF High
  <1>6. CASE n.is_root = 4
    <2>1. \/ s = Step(NetifNode(IfaceIter(i), 4), NetifNode(i, 3), cur)
          \/ s = Step(n, NullNode, cur)
      BY <1>1, <1>2, <1>6, NetifLevel4
    <2>2. CASE s = Step(NetifNode(IfaceIter(i), 4), NetifNode(i, 3), cur)
      BY <1>1, <1>4, <1>5, <1>6, <2>2
    <2>3. CASE s = Step(n, NullNode, cur)
      BY <1>1, <1>4, <1>6, <2>3
    <2>4. QED  BY <2>1, <2>2, <2>3
  <1>7. CASE n.is_root = 3
    <2>1. \/ s = Step(NetifNode(IfaceIter(i), 2), NetifNode(i, 2), cur)
          \/ s = Step(n, c, cur)
      BY <1>1, <1>2, <1>7, NetifLevel3
    <2>2. CASE s = Step(NetifNode(IfaceIter(i), 2), NetifNode(i, 2), cur)
      BY <1>1, <1>4, <1>5, <1>7, <2>2
    <2>3. CASE s = Step(n, c, cur)
      BY <1>1, <1>4, <1>7, <2>3
    <2>4. QED  BY <2>1, <2>2, <2>3
  <1>8. CASE n.is_root = 2
    <2>1. \/ /\ cur.field = 4 /\ cur.num > 0
             /\ s = Step(NetifNode(i, 1), NetifNode(i, 1),
                         WithSub(cur, IncUint8(cur.sub)))
          \/ cur.field < 4 /\ s = Step(n, c, WithField(cur, IncUint8(cur.field)))
          \/ s = Step(n, NullNode, cur)
      BY <1>1, <1>2, <1>8, NetifLevel2
    <2>2. CASE /\ cur.field = 4 /\ cur.num > 0
               /\ s = Step(NetifNode(i, 1), NetifNode(i, 1),
                           WithSub(cur, IncUint8(cur.sub)))
      <3>1. PICK x : x = WithSub(cur, IncUint8(cur.sub))
        OBVIOUS
      <3>2. InTables(x) /\ x.sub = 2 /\ x.field = cur.field /\ x.num = cur.num
        BY <3>1, Counting
      <3>3. QED  BY <1>1, <1>4, <1>5, <1>8, <2>2, <3>1, <3>2
    <2>3. CASE cur.field < 4 /\ s = Step(n, c, WithField(cur, IncUint8(cur.field)))
      <3>1. PICK x : x = WithField(cur, IncUint8(cur.field))
        OBVIOUS
      <3>2. InTables(x) /\ x.sub = 1
        BY <2>3, <3>1, Counting
      <3>3. QED  BY <1>1, <1>4, <1>8, <2>3, <3>1, <3>2
    <2>4. CASE s = Step(n, NullNode, cur)
      BY <1>1, <1>4, <1>8, <2>4
    <2>5. QED  BY <2>1, <2>2, <2>3, <2>4
  <1>9. QED  BY <1>3, <1>6, <1>7, <1>8

\* Among the neighbours: whatever the counters are, the call stays there.
LEMMA LowCounts ==
    ASSUME NEW n \in WrittenNodes, Low(n), NEW c,
           NEW cur \in CursorSet, InTables(cur)
    PROVE  LET s == NextChild(n, c, cur, cur)
           IN  /\ InTables(s.cursor) /\ Low(s.node)
               /\ s.child = c \/ s.child = NullNode \/ Low(s.child)
  <1>1. PICK s : s = NextChild(n, c, cur, cur) /\ s = NetifNextChild(n, c, cur, cur)
    BY DEF NextChild, Low, OfNetif
  <1>2. PICK i : n = NetifNode(i, n.is_root)
    BY NetifAt DEF Low
  <1>3. n.is_root \in {0, 1}
    BY DEF Low
  <1>4. ASSUME NEW a, NEW b, NEW x, s = Step(a, b, x)
        PROVE  s.node = a /\ s.child = b /\ s.cursor = x
    BY <1>4 DEF Step
  <1>5. \A j : \A k \in {0, 1} : Low(NetifNode(j, k))
    BY NetifIs DEF Low
  <1>6. \E k \in {0, 1} :
            \/ s = Step(NetifNode(i, k), NullNode, WithSub(cur, 1))
            \/ /\ cur.sub < 5
               /\ \/ s = Step(n, NetifNode(i, 1), WithSub(cur, IncUint8(cur.sub)))
                  \/ s = Step(n, c, WithSub(cur, IncUint8(cur.sub)))
                  \/ s = Step(n, NullNode, WithSub(cur, IncUint8(cur.sub)))
            \/ s = Step(NetifNode(i, 0), NetifNode(i, 0), cur)
            \/ s = NextNeighbour(n, cur)
    <2>1. CASE n.is_root = 1
      BY <1>1, <1>2, <2>1, NetifLevel1
    <2>2. CASE n.is_root = 0
      <3>1. s = IF cur.sub < 4
                THEN Step(n, c, WithSub(cur, IncUint8(cur.sub)))
                ELSE IF cur.sub = 4 /\ cur.num # 0
                THEN Step(n, NullNode, WithSub(cur, IncUint8(cur.sub)))
                ELSE NextNeighbour(n, cur)
        BY <1>1, <1>2, <2>2, NetifLevel0
      <3>2. cur.sub \in 1 .. 5
        BY DEF InTables
      <3>3. QED  BY <3>1, <3>2
    <2>3. QED  BY <1>3, <2>1, <2>2
  <1>7. s = NextNeighbour(n, cur) =>
           \/ s = Step(n, NullNode, WithNum(cur, 0, 1))
           \/ s = Step(NetifNode(i, 1), NetifNode(i, 1),
                       WithNum(cur, DecUint8(cur.num), 2))
    BY <1>2, NeighbourEnds
  <1>8. PICK a, b, x : s = Step(a, b, x) /\ InTables(x) /\ Low(a)
                       /\ (b = c \/ b = NullNode \/ Low(b))
    BY <1>2, <1>3, <1>5, <1>6, <1>7, Counting
  <1>9. QED  BY <1>1, <1>4, <1>8

\* The walk of a complete listing: the fields of a neighbour one by one, then
\* the end of its folder, then the next neighbour or the end of them all.
LEMMA NeighbourWalk ==
    ASSUME NEW n \in WrittenNodes, OfNetif(n), NEW c,
           NEW cur \in CursorSet, InTables(cur), cur.num > 0
    PROVE  LET s == NextChild(n, c, cur, cur)
           IN  /\ n.is_root = 1 /\ cur.sub = 5 =>
                     /\ s.cursor.field = cur.field
                     /\ OfNetif(s.node) /\ s.node.is_root = 1
                     /\ \/ s.child = NullNode /\ s.cursor.sub = 1
                        \/ /\ OfNetif(s.child) /\ s.child.is_root = 1
                           /\ s.cursor.sub = 2 /\ s.cursor.num > 0
               /\ n.is_root = 1 /\ cur.sub = 2 =>
                     /\ s.cursor = cur
                     /\ OfNetif(s.node) /\ s.node.is_root = 0
                     /\ OfNetif(s.child) /\ s.child.is_root = 0
               /\ n.is_root = 0 /\ cur.sub < 5 =>
                     /\ s.node = n
                     /\ s.child = IF cur.sub < 4 THEN c ELSE NullNode
                     /\ s.cursor.sub = cur.sub + 1
                     /\ s.cursor.field = cur.field /\ s.cursor.num = cur.num
  <1>1. PICK s : s = NextChild(n, c, cur, cur) /\ s = NetifNextChild(n, c, cur, cur)
    BY DEF NextChild, OfNetif
  <1>2. PICK i : n = NetifNode(i, n.is_root)
    BY NetifAt
  <1>3. ASSUME NEW a, NEW b, NEW x, s = Step(a, b, x)
        PROVE  s.node = a /\ s.child = b /\ s.cursor = x
    BY <1>3 DEF Step
  <1>4. \A j, k : OfNetif(NetifNode(j, k)) /\ NetifNode(j, k).is_root = k
    BY NetifIs
  <1>5. CASE n.is_root = 1 /\ cur.sub = 5
    <2>1. PICK left : left = DecUint8(cur.num)
      OBVIOUS
    <2>2. left # 0 => left > 0
      <3>1. left \in Uint8
        BY <2>1, Widths, CursorFields
      <3>2. QED  BY <3>1 DEF Uint8
    <2>3. s = NextNeighbour(NetifNode(i, 1), cur)
      BY <1>1, <1>2, <1>5, NetifLevel1
    <2>4. s = IF left = 0
              THEN Step(NetifNode(i, 1), NullNode, WithNum(cur, 0, 1))
              ELSE Step(NetifNode(i, 1), NetifNode(i, 1), WithNum(cur, left, 2))
      BY <2>1, <2>3, NeighbourEnds
    <2>5. CASE left = 0
      BY <1>1, <1>3, <1>4, <1>5, <2>4, <2>5, Counting
    <2>6. CASE left # 0
      BY <1>1, <1>3, <1>4, <1>5, <2>2, <2>4, <2>6, Counting
    <2>7. QED  BY <2>5, <2>6
  <1>6. CASE n.is_root = 1 /\ cur.sub = 2
    <2>1. s = Step(NetifNode(i, 0), NetifNode(i, 0), cur)
      BY <1>1, <1>2, <1>6, NetifLevel1
    <2>2. QED  BY <1>1, <1>3, <1>4, <1>6, <2>1
  <1>7. CASE n.is_root = 0 /\ cur.sub < 5
    <2>1. PICK x : x = WithSub(cur, IncUint8(cur.sub))
      OBVIOUS
    <2>2. x.sub = cur.sub + 1 /\ x.field = cur.field /\ x.num = cur.num
      BY <1>7, <2>1, Counting
    <2>3. cur.sub \in 1 .. 4
      BY <1>7 DEF InTables
    <2>4. s = Step(n, IF cur.sub < 4 THEN c ELSE NullNode, x)
      <3>1. s = IF cur.sub < 4
                THEN Step(n, c, WithSub(cur, IncUint8(cur.sub)))
                ELSE IF cur.sub = 4 /\ cur.num # 0
                THEN Step(n, NullNode, WithSub(cur, IncUint8(cur.sub)))
                ELSE NextNeighbour(n, cur)
        BY <1>1, <1>2, <1>7, NetifLevel0
      <3>2. QED  BY <2>1, <2>3, <3>1
    <2>5. QED  BY <1>1, <1>3, <1>7, <2>2, <2>4
  <1>8. CASE /\ ~(n.is_root = 1 /\ cur.sub = 5) /\ ~(n.is_root = 1 /\ cur.sub = 2)
             /\ ~(n.is_root = 0 /\ cur.sub < 5)
    BY <1>8
  <1>9. QED  BY <1>5, <1>6, <1>7, <1>8

-----------------------------------------------------------------------------
(* The shape of a task's locals.                                           *)

TaskFields == {"pc", "cmd", "path", "todo", "stack", "name", "seen", "type",
               "slot", "nce", "out", "res"}

\* Where a task reads the value of the node at the top of its stack.
Reading == {"print", "assert", "read", "count", "add"}

\* Every node below the top of the stack has been written; what is enumerated
\* lies below a child variable.  A dump reads the type of the root only: it
\* never prints it.
StackOK(r) ==
    LET n == Len(r.stack)
    IN  /\ r.pc \in {"lookup", "match"} => n = 2 /\ r.cmd # "dcadump"
        /\ r.pc = "list" => n >= 2
        /\ r.pc \in {"show", "type"} \cup Reading => n >= 1
        /\ r.pc # "idle" => \A i \in 1 .. n - 1 : r.stack[i] \in WrittenNodes
        /\ r.pc \in {"show", "type"} \cup Reading => r.stack[n] \in WrittenNodes
        /\ r.pc \in {"lookup", "match", "list"} =>
              r.stack[n] \in WrittenNodes \cup {Uninitialised}
        /\ r.cmd = "dcadump" /\ r.pc \in Reading => n >= 2
        /\ r.cmd # "dcadump" /\ r.pc = "show" => n >= 2
        /\ r.cmd = "dcadump" /\ r.pc \in {"show", "type"} /\ n = 1 =>
              r.stack[n] = Root

Shape(r) ==
    /\ DOMAIN r = TaskFields
    /\ r.pc \in {"idle", "lookup", "match", "list", "show", "type"} \cup Reading
    /\ r.cmd \in {"dcaq", "dcadump", "get"}
    /\ r.stack \in Seq(NodeSet)
    /\ r.seen \in Seq(CursorSet)
    /\ StackOK(r)

\* A thread inserts where it enters a neighbour it has counted or, the shell,
\* between two commands.
Settled ==
    /\ DOMAIN task = Tasks /\ DOMAIN ins = Tasks
    /\ \A t \in Tasks : /\ DOMAIN ins[t] = {"step", "addr", "rest"}
                        /\ ins[t].step \in {"none", "link", "publish"}
                        /\ ins[t].step # "none" =>
                              \/ task[t].pc = "add"
                              \/ t = Shell /\ task[t].pc = "idle"

ShapeInv ==
    /\ cursor \in CursorSet
    /\ threads \subseteq 1 .. PidLast
    /\ nib \in NibStates
    /\ halted \in BOOLEAN
    /\ DOMAIN task = Tasks /\ Settled
    /\ \A t \in Tasks : Shape(task[t])

\* The insertion of a neighbour that was counted is over.
Entered(t) ==
    /\ At(t, "add") /\ Update(t, CountOn(task[t]))
    /\ UNCHANGED <<cursor, env, hist, halted>>

\* The steps of an insertion change the list and what is said of it; a task
\* goes on only when it has entered a neighbour.
LEMMA InsertionIs ==
    ASSUME NEW t \in Tasks, Add(t) \/ Link(t) \/ Publish(t)
    PROVE  /\ CanRun(t) /\ UNCHANGED <<cursor, threads, nib, hist, halted>>
           /\ Entered(t) \/ UNCHANGED task
  <1>1. CASE Add(t)
    BY <1>1 DEF Add, Entered, At, env
  <1>2. CASE Link(t)
    BY <1>2 DEF Link, env
  <1>3. CASE Publish(t)
    BY <1>3 DEF Publish, Entered, At, env
  <1>4. QED  BY <1>1, <1>2, <1>3

\* Every step of a command keeps the insertions where they may be.
LEMMA SettledStep ==
    ASSUME Settled,
           \/ \E t \in Tasks : Request(t) \/ Call(t)
           \/ Measure \/ ThreadExit \/ NibChange
    PROVE  Settled'
  <1>1. UNCHANGED <<task, ins>> => Settled'
    BY DEF Settled
  <1>2. ASSUME NEW t \in Tasks, NEW q, Update(t, q), UNCHANGED ins,
               ins[t].step = "none"
        PROVE  Settled'
    BY <1>2 DEF Settled, Update
  <1>3. ASSUME NEW t \in Tasks, Request(t)
        PROVE  Settled'
    BY <1>2, <1>3 DEF Request, db
  <1>4. ASSUME NEW t \in Tasks, NEW q, Update(t, q), UNCHANGED ins,
               task[t].pc \notin {"idle", "add"}
        PROVE  Settled'
    BY <1>2, <1>4 DEF Settled
  <1>5. ASSUME NEW t \in Tasks, Lookup(t) \/ List(t)
        PROVE  Settled'
    BY <1>4, <1>5 DEF Lookup, List, At
  <1>6. ASSUME NEW t \in Tasks, Tests(t) \/ Match(t) \/ Type(t) \/ Show(t)
        PROVE  Settled'
    BY <1>4, <1>6 DEF Tests, Match, Type, Show, At, db
  <1>7. ASSUME NEW t \in Tasks,
               \/ ValueToStr(t) \/ CheckType(t) \/ GetValue(t)
               \/ Count(t) \/ Counted(t)
        PROVE  Settled'
    BY <1>4, <1>7 DEF ValueToStr, CheckType, GetValue, Count, Counted, At, db
  <1>8. ASSUME NEW t \in Tasks, Add(t)
        PROVE  Settled'
    <2>1. CASE Listed(task[t].nce)
      BY <1>2, <1>8, <2>1 DEF Add
    <2>2. CASE ~Listed(task[t].nce)
      BY <1>8, <2>2 DEF Add, At, Settled
    <2>3. QED  BY <2>1, <2>2
  <1>9. ASSUME NEW t \in Tasks, Link(t)
        PROVE  Settled'
    BY <1>9 DEF Link, Settled
  <1>10. ASSUME NEW t \in Tasks, Publish(t)
         PROVE  Settled'
    BY <1>10 DEF Publish, Settled, Update, NoInsertion
  <1>11. CASE Measure
    BY <1>11 DEF Measure, At, Settled
  <1>12. ASSUME NEW t \in Tasks, Fault(t)
         PROVE  Settled'
    BY <1>1, <1>12 DEF Fault, Halt, db
  <1>13. CASE ThreadExit \/ NibChange
    BY <1>1, <1>13 DEF ThreadExit, NibChange, db
  <1>14. QED  BY <1>3, <1>5, <1>6, <1>7, <1>8, <1>9, <1>10, <1>11, <1>12, <1>13
              DEF Call

\* A step of one task is a step of its record.
LEMMA TaskUpdated ==
    ASSUME DOMAIN task = Tasks, \A u \in Tasks : Shape(task[u]),
           NEW t \in Tasks, NEW r, Shape(r), Update(t, r)
    PROVE  DOMAIN task' = Tasks /\ \A u \in Tasks : Shape(task'[u])
  BY DEF Update

\* The node that is enumerated and the one that is read.
LEMMA TopOfStack ==
    ASSUME NEW t \in Tasks, Shape(task[t])
    PROVE  LET r == task[t]
               n == Len(r.stack)
           IN  /\ n \in Nat
               /\ Node(t) = r.stack[n - 1] /\ Child(t) = r.stack[n]
               /\ r.pc \in {"lookup", "list", "match"} =>
                     /\ n >= 2 /\ Node(t) \in WrittenNodes
                     /\ Child(t) \in WrittenNodes \cup {Uninitialised}
               /\ r.pc \in {"show", "type"} \cup Reading =>
                     Child(t) \in WrittenNodes
  <1>1. PICK r : r = task[t]
    OBVIOUS
  <1>2. PICK n \in Nat : n = Len(r.stack)
    BY <1>1 DEF Shape
  <1>3. Node(t) = r.stack[n - 1] /\ Child(t) = r.stack[n]
    BY <1>1, <1>2 DEF Node, Child, Last
  <1>4. r.pc \in {"lookup", "list", "match"} =>
           n >= 2 /\ n - 1 \in 1 .. n - 1
    <2>1. r.pc \in {"lookup", "match"} => n = 2
      BY <1>1, <1>2 DEF Shape, StackOK
    <2>2. r.pc = "list" => n >= 2
      BY <1>1, <1>2 DEF Shape, StackOK
    <2>3. n >= 2 => n - 1 \in 1 .. n - 1
      OBVIOUS
    <2>4. QED  BY <2>1, <2>2, <2>3
  <1>5. r.pc \in {"lookup", "list", "match"} =>
           /\ r.stack[n - 1] \in WrittenNodes
           /\ r.stack[n] \in WrittenNodes \cup {Uninitialised}
    <2>1. r.pc \in {"lookup", "list", "match"} => r.pc # "idle"
      OBVIOUS
    <2>2. r.pc # "idle" => \A i \in 1 .. n - 1 : r.stack[i] \in WrittenNodes
      BY <1>1, <1>2 DEF Shape, StackOK
    <2>3. r.pc \in {"lookup", "list", "match"} =>
             r.stack[n] \in WrittenNodes \cup {Uninitialised}
      BY <1>1, <1>2 DEF Shape, StackOK
    <2>4. QED  BY <1>4, <2>1, <2>2, <2>3
  <1>6. r.pc \in {"show", "type"} \cup Reading => r.stack[n] \in WrittenNodes
    BY <1>1, <1>2 DEF Shape, StackOK
  <1>7. QED  BY <1>1, <1>2, <1>3, <1>4, <1>5, <1>6

\* Whatever a preemption mixes up, get_next_child returns nodes and counters.
LEMMA OutcomesReturn ==
    ASSUME ShapeInv, NEW t \in Tasks, task[t].pc \in {"lookup", "list"},
           NEW s \in Outcomes(t)
    PROVE  Returns(s, Node(t), Child(t))
  <1>1. /\ Shape(task[t]) /\ cursor \in CursorSet
        /\ threads \subseteq 1 .. PidLast
        /\ Node(t) \in WrittenNodes
    BY TopOfStack DEF ShapeInv
  <1>2. CASE task[t].seen = <<>>
    <2>1. s = NextChild(Node(t), Child(t), cursor, cursor)
      BY <1>2 DEF Outcomes
    <2>2. QED  BY <1>1, <2>1, NextChildReturns
  <1>3. CASE task[t].seen # <<>>
    <2>1. PICK seen \in CursorSet : seen = Head(task[t].seen)
      BY <1>1, <1>3 DEF Shape
    <2>2. CASE s = NextChild(Node(t), Child(t), seen, cursor)
      BY <1>1, <2>1, <2>2, NextChildReturns
    <2>3. CASE s = Assigned(t, seen)
      <3>1. PICK q : q = NextChild(Node(t), Child(t), seen, seen)
        OBVIOUS
      <3>2. Returns(q, Node(t), Child(t))
        BY <1>1, <2>1, <3>1, NextChildReturns
      <3>3. PICK x : x = [f \in DOMAIN cursor |->
                IF q.cursor[f] = seen[f] THEN cursor[f] ELSE q.cursor[f]]
        OBVIOUS
      <3>4. x \in CursorSet
        BY <1>1, <3>2, <3>3 DEF CursorSet, Returns
      <3>5. s = [q EXCEPT !.cursor = x]
        BY <2>3, <3>1, <3>3 DEF Assigned
      <3>6. s = Step(q.node, q.child, x)
        BY <3>2, <3>5 DEF Returns, Step
      <3>7. /\ q.node \in WrittenNodes /\ q.node.ops = Node(t).ops
            /\ q.child \in WrittenNodes \cup {NullNode, Child(t)}
        BY <3>2 DEF Returns
      <3>8. QED  BY <3>4, <3>6, <3>7, StepReturns
    <2>4. QED  BY <1>3, <2>1, <2>2, <2>3 DEF Outcomes
  <1>4. QED  BY <1>2, <1>3

\* What the locals of a task become: those of the command that has ended, with
\* another answer, and those that go on with another field of no consequence.
LEMMA FinishedShape ==
    ASSUME NEW r, Shape(r), NEW res
    PROVE  Shape(Finished(r, res)) /\ Finished(r, res).pc = "idle"
  <1>1. PICK q : q = Finished(r, res)
    OBVIOUS
  <1>2. /\ DOMAIN q = TaskFields /\ q.pc = "idle" /\ q.stack = <<>>
        /\ q.seen = <<>> /\ q.cmd = r.cmd
    BY <1>1 DEF Finished, Idle, TaskFields
  <1>3. QED  BY <1>1, <1>2 DEF Shape, StackOK, Reading

LEMMA IdleShape ==
    Shape(Idle)
  BY DEF Shape, StackOK, Idle, TaskFields, Reading

\* A record that differs in other fields has the same shape.
LEMMA SameShape ==
    ASSUME NEW r, Shape(r), NEW q, DOMAIN q = TaskFields, q.pc = r.pc,
           q.cmd = r.cmd, q.stack = r.stack, q.seen \in Seq(CursorSet)
    PROVE  Shape(q)
  BY DEF Shape, StackOK

\* So has one at another place of the code, if the stack fits.
LEMMA MovedShape ==
    ASSUME NEW r, Shape(r), NEW q, DOMAIN q = TaskFields, q.cmd = r.cmd,
           q.seen \in Seq(CursorSet), q.stack = r.stack,
           \/ r.pc = "match" /\ q.pc = "lookup"
           \/ r.pc = "show" /\ q.pc = IF r.cmd = "dcadump" THEN "type" ELSE "list"
           \/ r.pc = "type" /\ q.pc = "print"
                /\ ~(r.cmd = "dcadump" /\ r.stack[Len(r.stack)] = Root)
           \/ r.pc \in Reading /\ q.pc \in Reading
           \/ r.pc \in Reading /\ q.pc = "list" /\ r.cmd = "dcadump"
    PROVE  Shape(q)
  <1>1. PICK n \in Nat : n = Len(r.stack) /\ n = Len(q.stack)
    BY DEF Shape
  <1>2. /\ r.cmd \in {"dcaq", "dcadump", "get"} /\ q.stack \in Seq(NodeSet)
        /\ StackOK(r)
    BY DEF Shape
  <1>3. CASE r.pc = "match" /\ q.pc = "lookup"
    BY <1>1, <1>2, <1>3 DEF Shape, StackOK, Reading
  <1>4. CASE r.pc = "show" /\ q.pc = IF r.cmd = "dcadump" THEN "type" ELSE "list"
    <2>1. CASE r.cmd = "dcadump"
      BY <1>1, <1>2, <1>4, <2>1 DEF Shape, StackOK, Reading
    <2>2. CASE r.cmd # "dcadump"
      BY <1>1, <1>2, <1>4, <2>2 DEF Shape, StackOK, Reading
    <2>3. QED  BY <2>1, <2>2
  <1>5. CASE /\ r.pc = "type" /\ q.pc = "print"
             /\ ~(r.cmd = "dcadump" /\ r.stack[Len(r.stack)] = Root)
    <2>1. n >= 1 /\ r.stack[n] \in WrittenNodes
      BY <1>1, <1>2, <1>5 DEF StackOK
    <2>2. r.cmd = "dcadump" => n >= 2
      <3>1. r.cmd = "dcadump" => n # 1
        BY <1>1, <1>2, <1>5 DEF StackOK
      <3>2. QED  BY <2>1, <3>1
    <2>3. \A i \in 1 .. n - 1 : r.stack[i] \in WrittenNodes
      BY <1>1, <1>2, <1>5 DEF StackOK
    <2>4. StackOK(q)
      <3>1. q.pc = "print"
        BY <1>5
      <3>2. QED  BY <1>1, <2>1, <2>2, <2>3, <3>1 DEF StackOK, Reading
    <2>5. QED  BY <1>2, <1>5, <2>4 DEF Shape, Reading
  <1>6. CASE r.pc \in Reading /\ q.pc \in Reading
    BY <1>1, <1>2, <1>6 DEF Shape, StackOK, Reading
  <1>7. CASE r.pc \in Reading /\ q.pc = "list" /\ r.cmd = "dcadump"
    BY <1>1, <1>2, <1>7 DEF Shape, StackOK, Reading
  <1>8. QED  BY <1>3, <1>4, <1>5, <1>6, <1>7

\* The stack after get_next_child: two nodes have changed.
LEMMA EnumeratedStack ==
    ASSUME ShapeInv, NEW t \in Tasks, task[t].pc \in {"lookup", "list"},
           NEW s, Returns(s, Node(t), Child(t))
    PROVE  LET r == task[t]
               n == Len(r.stack)
               q == Enumerated(t, s)
           IN  /\ DOMAIN q = TaskFields
               /\ q.pc = r.pc /\ q.cmd = r.cmd /\ q.seen = <<>>
               /\ q.path = r.path /\ q.todo = r.todo /\ q.res = r.res
               /\ q.stack \in Seq(NodeSet) /\ Len(q.stack) = n /\ n >= 2
               /\ \A i \in 1 .. n - 2 : q.stack[i] = r.stack[i]
               /\ q.stack[n - 1] = s.node /\ q.stack[n] = s.child
               /\ \A i \in 1 .. n - 1 : q.stack[i] \in WrittenNodes
               /\ s.child \in WrittenNodes \cup {NullNode, Uninitialised}
  <1>1. PICK r : r = task[t] /\ Shape(r)
    BY DEF ShapeInv
  <1>2. PICK n \in Nat, st \in Seq(NodeSet) : st = r.stack /\ n = Len(st)
    BY <1>1 DEF Shape
  <1>3. n >= 2
    BY <1>1, <1>2, TopOfStack
  <1>4. /\ s.node \in WrittenNodes
        /\ s.child \in WrittenNodes \cup {NullNode, Uninitialised}
    BY <1>1, TopOfStack DEF Returns
  <1>5. s.node \in NodeSet /\ s.child \in NodeSet
    BY <1>4 DEF NodeSet
  <1>6. PICK sq : sq = [st EXCEPT ![n - 1] = s.node, ![n] = s.child]
    OBVIOUS
  <1>7. /\ sq \in Seq(NodeSet) /\ Len(sq) = n
        /\ \A i \in 1 .. n - 2 : sq[i] = st[i]
        /\ sq[n - 1] = s.node /\ sq[n] = s.child
    BY <1>2, <1>3, <1>5, <1>6
  <1>8. \A i \in 1 .. n - 1 : sq[i] \in WrittenNodes
    <2>1. \A i \in 1 .. n - 2 : st[i] \in WrittenNodes
      <3>1. r.pc # "idle"
        BY <1>1
      <3>2. \A i \in 1 .. n - 1 : st[i] \in WrittenNodes
        BY <1>1, <1>2, <3>1 DEF Shape, StackOK
      <3>3. QED  BY <1>2, <3>2
    <2>2. QED  BY <1>3, <1>4, <1>7, <2>1
  <1>9. PICK q : q = Enumerated(t, s)
    OBVIOUS
  <1>10. q = [r EXCEPT !.stack = sq, !.seen = <<>>]
    BY <1>1, <1>2, <1>6, <1>9 DEF Enumerated
  <1>11. /\ DOMAIN q = TaskFields
         /\ q.pc = r.pc /\ q.cmd = r.cmd /\ q.seen = <<>>
         /\ q.path = r.path /\ q.todo = r.todo /\ q.res = r.res
         /\ q.stack = sq
    BY <1>1, <1>10 DEF Shape, TaskFields
  <1>12. QED  BY <1>1, <1>2, <1>3, <1>4, <1>7, <1>8, <1>9, <1>11

-----------------------------------------------------------------------------
(* The shape is invariant.                                                 *)

LEMMA ShapeInit ==
    ASSUME Init
    PROVE  ShapeInv
  <1>1. cursor \in CursorSet
    <2>1. 0 \in Int8 /\ {0, 1} \subseteq Uint8
      BY Widths
    <2>2. QED  BY <2>1 DEF Init, CursorInit, CursorSet
  <1>2. \A t \in Tasks : Shape(task[t])
    BY IdleShape DEF Init
  <1>3. Settled
    BY DEF Init, Settled, Idle, NoInsertion
  <1>4. QED  BY <1>1, <1>2, <1>3, DbAssumption DEF Init, ShapeInv

LEMMA RequestShape ==
    ASSUME ShapeInv, NEW t \in Tasks, Request(t)
    PROVE  \E r : Shape(r) /\ Update(t, r)
  <1>1. PICK q \in Requests[t], short \in BOOLEAN :
          \E r : /\ r = [Idle EXCEPT !.cmd = q.cmd, !.path = q.path, !.todo = q.path]
                 /\ Update(t, CASE q.cmd = "get" /\ q.path = <<>> /\ short ->
                                     Finished(r, <<"enoent">>)
                                [] q.cmd = "dcadump" ->
                                     [r EXCEPT !.pc = "show", !.stack = <<Root>>]
                                [] q.cmd # "dcadump" /\ q.path # <<>> ->
                                     [r EXCEPT !.pc = "lookup",
                                               !.stack = <<Root, Uninitialised>>]
                                [] OTHER ->
                                     [r EXCEPT !.pc = "type", !.stack = <<Root>>])
    BY DEF Request
  <1>2. q.cmd \in {"dcaq", "dcadump", "get"}
    BY <1>1, QueryAssumption
  <1>3. PICK r : /\ r = [Idle EXCEPT !.cmd = q.cmd, !.path = q.path, !.todo = q.path]
                 /\ Update(t, CASE q.cmd = "get" /\ q.path = <<>> /\ short ->
                                     Finished(r, <<"enoent">>)
                                [] q.cmd = "dcadump" ->
                                     [r EXCEPT !.pc = "show", !.stack = <<Root>>]
                                [] q.cmd # "dcadump" /\ q.path # <<>> ->
                                     [r EXCEPT !.pc = "lookup",
                                               !.stack = <<Root, Uninitialised>>]
                                [] OTHER ->
                                     [r EXCEPT !.pc = "type", !.stack = <<Root>>])
    BY <1>1
  <1>4. /\ DOMAIN r = TaskFields /\ r.pc = "idle" /\ r.cmd = q.cmd
        /\ r.stack = <<>> /\ r.seen = <<>>
    BY <1>3 DEF Idle, TaskFields
  <1>5. Shape(r)
    BY <1>2, <1>4 DEF Shape, StackOK, Reading
  <1>6. Root \in WrittenNodes /\ Root \in NodeSet /\ Uninitialised \in NodeSet
    BY Constructed, Index DEF Root, NodeSet
  <1>7. Shape(Finished(r, <<"enoent">>))
    BY <1>5, FinishedShape
  <1>8. \A pc : /\ pc = "show" /\ q.cmd = "dcadump"
                   => Shape([r EXCEPT !.pc = pc, !.stack = <<Root>>])
                /\ pc = "type" => Shape([r EXCEPT !.pc = pc, !.stack = <<Root>>])
    <2>1. ASSUME NEW pc \in {"show", "type"}, pc = "show" => q.cmd = "dcadump"
          PROVE  Shape([r EXCEPT !.pc = pc, !.stack = <<Root>>])
      <3>1. PICK x : x = [r EXCEPT !.pc = pc, !.stack = <<Root>>]
        OBVIOUS
      <3>2. /\ DOMAIN x = TaskFields /\ x.pc = pc /\ x.cmd = q.cmd
            /\ x.stack = <<Root>> /\ x.seen = <<>>
        BY <1>4, <3>1 DEF TaskFields
      <3>3. <<Root>> \in Seq(NodeSet) /\ Len(<<Root>>) = 1 /\ <<Root>>[1] = Root
        BY <1>6
      <3>4. StackOK(x)
        BY <1>6, <2>1, <3>2, <3>3 DEF StackOK, Reading
      <3>5. <<>> \in Seq(CursorSet)
        OBVIOUS
      <3>6. QED  BY <1>2, <2>1, <3>1, <3>2, <3>3, <3>4, <3>5 DEF Shape, Reading
    <2>2. QED  BY <2>1
  <1>9. ASSUME q.cmd # "dcadump"
        PROVE  Shape([r EXCEPT !.pc = "lookup", !.stack = <<Root, Uninitialised>>])
    <2>1. PICK x : x = [r EXCEPT !.pc = "lookup", !.stack = <<Root, Uninitialised>>]
      OBVIOUS
    <2>2. /\ DOMAIN x = TaskFields /\ x.pc = "lookup" /\ x.cmd = q.cmd
          /\ x.stack = <<Root, Uninitialised>> /\ x.seen = <<>>
      BY <1>4, <2>1 DEF TaskFields
    <2>3. /\ <<Root, Uninitialised>> \in Seq(NodeSet)
          /\ Len(<<Root, Uninitialised>>) = 2
          /\ <<Root, Uninitialised>>[1] = Root
          /\ <<Root, Uninitialised>>[2] = Uninitialised
      BY <1>6
    <2>4. StackOK(x)
      BY <1>6, <1>9, <2>2, <2>3 DEF StackOK, Reading
    <2>5. <<>> \in Seq(CursorSet)
      OBVIOUS
    <2>6. QED  BY <1>2, <2>1, <2>2, <2>3, <2>4, <2>5 DEF Shape, Reading
  <1>10. QED  BY <1>3, <1>7, <1>8, <1>9

\* What the caller of db_node_value_to_str goes on with.
LEMMA PrintedShape ==
    ASSUME NEW r, Shape(r), r.pc \in Reading, NEW res
    PROVE  Shape(Printed(r, res))
  <1>1. CASE r.cmd # "dcadump"
    BY <1>1, FinishedShape DEF Printed
  <1>2. CASE r.cmd = "dcadump"
    <2>1. PICK q : q = Printed(r, res)
      OBVIOUS
    <2>2. /\ DOMAIN q = TaskFields /\ q.pc = "list" /\ q.cmd = r.cmd
          /\ q.stack = r.stack /\ q.seen = r.seen
      BY <1>2, <2>1 DEF Printed, Shape, TaskFields
    <2>3. r.seen \in Seq(CursorSet)
      BY DEF Shape
    <2>4. QED  BY <1>2, <2>1, <2>2, <2>3, MovedShape
  <1>3. QED  BY <1>1, <1>2

LEMMA LookupShape ==
    ASSUME ShapeInv, NEW t \in Tasks, Lookup(t)
    PROVE  cursor' \in CursorSet /\ \E q : Shape(q) /\ Update(t, q)
  <1>1. PICK r : r = task[t] /\ Shape(r) /\ r.pc = "lookup"
    BY DEF ShapeInv, Lookup, At
  <1>2. PICK s \in Outcomes(t) :
          /\ cursor' = s.cursor
          /\ Update(t, IF s.child = NullNode THEN Finished(r, <<"enoent">>)
                       ELSE [Enumerated(t, s) EXCEPT !.pc = "match"])
    BY <1>1 DEF Lookup
  <1>3. Returns(s, Node(t), Child(t))
    BY <1>1, <1>2, OutcomesReturn
  <1>4. cursor' \in CursorSet
    BY <1>2, <1>3 DEF Returns
  <1>5. ASSUME s.child # NullNode
        PROVE  Shape([Enumerated(t, s) EXCEPT !.pc = "match"])
    <2>1. PICK e : e = Enumerated(t, s)
      OBVIOUS
    <2>2. PICK q : q = [e EXCEPT !.pc = "match"]
      OBVIOUS
    <2>3. Len(r.stack) = 2 /\ r.cmd # "dcadump" /\ r.cmd \in {"dcaq", "dcadump", "get"}
      BY <1>1 DEF Shape, StackOK
    <2>4. /\ DOMAIN e = TaskFields /\ e.cmd = r.cmd /\ e.seen = <<>>
          /\ e.stack \in Seq(NodeSet) /\ Len(e.stack) = 2
          /\ e.stack[1] \in WrittenNodes
          /\ e.stack[2] \in WrittenNodes \cup {Uninitialised}
      BY <1>1, <1>3, <1>5, <2>1, <2>3, EnumeratedStack
    <2>5. /\ DOMAIN q = TaskFields /\ q.cmd = r.cmd /\ q.seen = <<>>
          /\ q.stack = e.stack /\ q.pc = "match"
      BY <2>2, <2>4 DEF TaskFields
    <2>6. StackOK(q)
      BY <2>3, <2>4, <2>5 DEF StackOK, Reading
    <2>7. <<>> \in Seq(CursorSet)
      OBVIOUS
    <2>8. QED  BY <2>1, <2>2, <2>3, <2>4, <2>5, <2>6, <2>7 DEF Shape
  <1>6. QED  BY <1>1, <1>2, <1>4, <1>5, FinishedShape

LEMMA MatchShape ==
    ASSUME ShapeInv, NEW t \in Tasks, Match(t)
    PROVE  \E q : Shape(q) /\ Update(t, q)
  <1>1. PICK r : r = task[t] /\ Shape(r) /\ r.pc = "match"
    BY DEF ShapeInv, Match, At
  <1>2. PICK c : c = Child(t)
    OBVIOUS
  <1>3. c \in WrittenNodes /\ c \in NodeSet
    <2>1. c # Uninitialised
      BY <1>2 DEF Match, NameFaults, Uninitialised
    <2>2. QED  BY <1>1, <1>2, <2>1, TopOfStack DEF NodeSet
  <1>4. /\ r.cmd # "dcadump" /\ r.cmd \in {"dcaq", "dcadump", "get"}
        /\ DOMAIN r = TaskFields /\ r.seen \in Seq(CursorSet)
    BY <1>1 DEF Shape, StackOK
  <1>5. PICK name, rest :
          \/ Update(t, [r EXCEPT !.pc = "lookup", !.name = name])
          \/ Update(t, [r EXCEPT !.pc = "lookup", !.todo = rest, !.name = name,
                                !.stack = <<c, c>>])
          \/ Update(t, FoundNode(r, c))
    BY <1>1, <1>2 DEF Match
  <1>6. Shape([r EXCEPT !.pc = "lookup", !.name = name])
    <2>1. PICK q : q = [r EXCEPT !.pc = "lookup", !.name = name]
      OBVIOUS
    <2>2. /\ DOMAIN q = TaskFields /\ q.cmd = r.cmd /\ q.stack = r.stack
          /\ q.seen = r.seen /\ q.pc = "lookup"
      BY <1>4, <2>1 DEF TaskFields
    <2>3. QED  BY <1>1, <1>4, <2>1, <2>2, MovedShape
  <1>7. Shape([r EXCEPT !.pc = "lookup", !.todo = rest, !.name = name,
                        !.stack = <<c, c>>])
    <2>1. PICK q : q = [r EXCEPT !.pc = "lookup", !.todo = rest, !.name = name,
                                 !.stack = <<c, c>>]
      OBVIOUS
    <2>2. /\ DOMAIN q = TaskFields /\ q.cmd = r.cmd /\ q.stack = <<c, c>>
          /\ q.seen = r.seen /\ q.pc = "lookup"
      BY <1>4, <2>1 DEF TaskFields
    <2>3. /\ <<c, c>> \in Seq(NodeSet) /\ Len(<<c, c>>) = 2
          /\ <<c, c>>[1] = c /\ <<c, c>>[2] = c
      BY <1>3
    <2>4. StackOK(q)
      BY <1>3, <1>4, <2>2, <2>3 DEF StackOK, Reading
    <2>5. QED  BY <1>4, <2>1, <2>2, <2>3, <2>4 DEF Shape
  <1>8. Shape(FoundNode(r, c))
    <2>1. PICK q : q = FoundNode(r, c)
      OBVIOUS
    <2>2. /\ DOMAIN q = TaskFields /\ q.cmd = r.cmd /\ q.stack = <<c>>
          /\ q.seen = r.seen /\ q.pc = "type"
      BY <1>4, <2>1 DEF TaskFields, FoundNode
    <2>3. <<c>> \in Seq(NodeSet) /\ Len(<<c>>) = 1 /\ <<c>>[1] = c
      BY <1>3
    <2>4. StackOK(q)
      BY <1>3, <1>4, <2>2, <2>3 DEF StackOK, Reading
    <2>5. QED  BY <1>4, <2>1, <2>2, <2>3, <2>4 DEF Shape
  <1>9. QED  BY <1>5, <1>6, <1>7, <1>8

LEMMA TypeShape ==
    ASSUME ShapeInv, NEW t \in Tasks, Type(t)
    PROVE  \E q : Shape(q) /\ Update(t, q)
  <1>1. PICK r : r = task[t] /\ Shape(r) /\ r.pc = "type"
    BY DEF ShapeInv, Type, At
  <1>2. PICK st \in Seq(NodeSet), n \in Nat : st = r.stack /\ n = Len(st)
    BY <1>1 DEF Shape
  <1>3. /\ n >= 1 /\ st[n] = Child(t) /\ st[n] \in WrittenNodes
        /\ \A i \in 1 .. n - 1 : st[i] \in WrittenNodes
        /\ DOMAIN r = TaskFields /\ r.seen \in Seq(CursorSet)
        /\ r.cmd \in {"dcaq", "dcadump", "get"}
    <2>1. n >= 1 /\ \A i \in 1 .. n - 1 : st[i] \in WrittenNodes
      BY <1>1, <1>2 DEF Shape, StackOK
    <2>2. QED  BY <1>1, <1>2, <2>1, TopOfStack DEF Shape
  <1>4. CASE GetType(Child(t)) = "inner"
    <2>1. PICK q : q = [r EXCEPT !.pc = "list", !.stack = Append(@, Uninitialised)]
      OBVIOUS
    <2>2. Update(t, q)
      BY <1>1, <1>4, <2>1 DEF Type
    <2>3. PICK sq : sq = Append(st, Uninitialised)
      OBVIOUS
    <2>4. /\ DOMAIN q = TaskFields /\ q.cmd = r.cmd /\ q.stack = sq
          /\ q.seen = r.seen /\ q.pc = "list"
      BY <1>2, <1>3, <2>1, <2>3 DEF TaskFields
    <2>5. /\ sq \in Seq(NodeSet) /\ Len(sq) = n + 1 /\ sq[n + 1] = Uninitialised
          /\ \A i \in 1 .. n : sq[i] = st[i]
      BY <1>2, <2>3 DEF NodeSet
    <2>6. \A i \in 1 .. n : sq[i] \in WrittenNodes
      BY <1>2, <1>3, <2>5
    <2>7. n + 1 >= 2 /\ (n + 1) - 1 = n
      BY <1>2, <1>3
    <2>8. StackOK(q)
      BY <2>4, <2>5, <2>6, <2>7 DEF StackOK, Reading
    <2>9. QED  BY <1>3, <2>2, <2>4, <2>5, <2>8 DEF Shape
  <1>5. CASE GetType(Child(t)) # "inner"
    <2>1. PICK q : q = [r EXCEPT !.pc = "print"]
      OBVIOUS
    <2>2. Update(t, q)
      BY <1>1, <1>5, <2>1 DEF Type
    <2>3. /\ DOMAIN q = TaskFields /\ q.cmd = r.cmd /\ q.stack = r.stack
          /\ q.seen = r.seen /\ q.pc = "print"
      BY <1>3, <2>1 DEF TaskFields
    <2>4. r.stack[Len(r.stack)] # Root
      BY <1>2, <1>3, <1>5 DEF GetType, Root, RootNode
    <2>5. QED  BY <1>1, <1>3, <2>2, <2>3, <2>4, MovedShape
  <1>6. QED  BY <1>4, <1>5

LEMMA ReadingShape ==
    ASSUME ShapeInv, NEW t \in Tasks,
           \/ ValueToStr(t) \/ CheckType(t) \/ GetValue(t)
           \/ Count(t) \/ Entered(t) \/ Counted(t)
    PROVE  cursor' \in CursorSet /\ \E q : Shape(q) /\ Update(t, q)
  <1>1. PICK r : r = task[t] /\ Shape(r) /\ r.pc \in Reading
    BY DEF ShapeInv, ValueToStr, CheckType, GetValue, Count, Entered, Counted, At,
           Reading
  <1>2. PICK q, res :
          /\ \/ q = Printed(r, res)
             \/ \E type : q = [r EXCEPT !.pc = "assert", !.type = type]
             \/ q = [r EXCEPT !.pc = "read"]
             \/ q = [r EXCEPT !.pc = "count"]
             \/ \E i, a : q = [r EXCEPT !.pc = "add", !.slot = i, !.nce = a]
             \/ q = [r EXCEPT !.pc = "count", !.nce = Free]
          /\ Update(t, q)
    <2>1. CASE ValueToStr(t)
      BY <1>1, <2>1 DEF ValueToStr
    <2>2. CASE CheckType(t)
      BY <1>1, <2>2 DEF CheckType
    <2>3. CASE GetValue(t)
      BY <1>1, <2>3 DEF GetValue
    <2>4. CASE Count(t)
      BY <1>1, <2>4 DEF Count
    <2>5. CASE Entered(t)
      BY <1>1, <2>5 DEF Entered, CountOn
    <2>6. CASE Counted(t)
      BY <1>1, <2>6 DEF Counted
    <2>7. QED  BY <2>1, <2>2, <2>3, <2>4, <2>5, <2>6
  <1>3. q = Printed(r, res) => Shape(q)
    BY <1>1, PrintedShape
  <1>4. ASSUME q # Printed(r, res)
        PROVE  Shape(q)
    <2>1. /\ DOMAIN q = TaskFields /\ q.cmd = r.cmd /\ q.stack = r.stack
          /\ q.seen = r.seen /\ q.pc \in Reading /\ r.seen \in Seq(CursorSet)
      <3>1. DOMAIN r = TaskFields /\ r.seen \in Seq(CursorSet)
        BY <1>1 DEF Shape
      <3>2. {"assert", "read", "count", "add"} \subseteq Reading
        BY DEF Reading
      <3>3. QED  BY <1>2, <1>4, <3>1, <3>2 DEF TaskFields
    <2>2. QED  BY <1>1, <2>1, MovedShape
  <1>5. cursor' \in CursorSet
    <2>1. cursor \in CursorSet /\ 0 \in Uint8
      BY Widths DEF ShapeInv
    <2>2. \A u \in Uint8 : [cursor EXCEPT !.num = u] \in CursorSet
      BY <2>1 DEF CursorSet
    <2>3. IncUint8(cursor.num) \in Uint8
      BY <2>1, CursorFields, Widths
    <2>4. \/ cursor' = cursor
          \/ cursor' = [cursor EXCEPT !.num = 0]
          \/ cursor' = [cursor EXCEPT !.num = IncUint8(@)]
      BY DEF ValueToStr, CheckType, GetValue, Count, Entered, Counted, db
    <2>5. [cursor EXCEPT !.num = IncUint8(@)] \in CursorSet
      BY <2>2, <2>3
    <2>6. QED  BY <2>1, <2>2, <2>4, <2>5
  <1>6. QED  BY <1>2, <1>3, <1>4, <1>5

LEMMA ListShape ==
    ASSUME ShapeInv, NEW t \in Tasks, List(t)
    PROVE  cursor' \in CursorSet /\ \E q : Shape(q) /\ Update(t, q)
  <1>1. PICK r : r = task[t] /\ Shape(r) /\ r.pc = "list"
    BY DEF ShapeInv, List, At
  <1>2. PICK s \in Outcomes(t) :
          /\ s.child # Uninitialised
          /\ cursor' = s.cursor
          /\ Update(t, IF s.child = NullNode THEN Leave(Enumerated(t, s))
                       ELSE [Enumerated(t, s) EXCEPT !.pc = "show"])
    BY <1>1 DEF List
  <1>3. Returns(s, Node(t), Child(t))
    BY <1>1, <1>2, OutcomesReturn
  <1>4. cursor' \in CursorSet
    BY <1>2, <1>3 DEF Returns
  <1>5. PICK e : e = Enumerated(t, s)
    OBVIOUS
  <1>6. PICK n \in Nat, sq \in Seq(NodeSet) : sq = e.stack /\ n = Len(sq) /\ n >= 2
    BY <1>1, <1>3, <1>5, EnumeratedStack
  <1>7. /\ DOMAIN e = TaskFields /\ e.cmd = r.cmd /\ e.seen = <<>> /\ e.pc = "list"
        /\ \A i \in 1 .. n - 1 : sq[i] \in WrittenNodes
        /\ s.child = sq[n]
        /\ s.child \in WrittenNodes \cup {NullNode, Uninitialised}
        /\ e.cmd \in {"dcaq", "dcadump", "get"}
    <2>1. r.cmd \in {"dcaq", "dcadump", "get"}
      BY <1>1 DEF Shape
    <2>2. QED  BY <1>1, <1>3, <1>5, <1>6, <2>1, EnumeratedStack
  <1>8. <<>> \in Seq(CursorSet)
    OBVIOUS
  <1>9. CASE s.child = NullNode
    <2>1. PICK q : q = Leave(e)
      OBVIOUS
    <2>2. CASE n = 2
      <3>1. q = Finished(e, <<"listed">>)
        BY <1>6, <2>1, <2>2 DEF Leave
      <3>2. /\ DOMAIN q = TaskFields /\ q.pc = "idle" /\ q.stack = <<>>
            /\ q.seen = <<>> /\ q.cmd = e.cmd
        BY <3>1 DEF Finished, Idle, TaskFields
      <3>3. Shape(q)
        BY <1>7, <3>2 DEF Shape, StackOK, Reading
      <3>4. QED  BY <1>2, <1>4, <1>5, <1>9, <2>1, <3>3
    <2>3. CASE n # 2
      <3>1. PICK fq : fq = Front(sq)
        OBVIOUS
      <3>2. q = [e EXCEPT !.stack = fq]
        BY <1>6, <2>1, <2>3, <3>1 DEF Leave
      <3>3. /\ DOMAIN q = TaskFields /\ q.pc = "list" /\ q.stack = fq
            /\ q.seen = <<>> /\ q.cmd = e.cmd
        BY <1>7, <3>2 DEF TaskFields
      <3>4. PICK m \in Nat : m = n - 1 /\ m >= 2
        <4>1. \A k \in Nat : k >= 2 /\ k # 2 => k - 1 \in Nat /\ k - 1 >= 2
          OBVIOUS
        <4>2. QED  BY <1>6, <2>3, <4>1
      <3>5. /\ fq \in Seq(NodeSet) /\ Len(fq) = m
            /\ \A i \in 1 .. m : fq[i] = sq[i]
        BY <1>6, <3>1, <3>4 DEF Front
      <3>6. \A i \in 1 .. m : fq[i] \in WrittenNodes
        BY <1>7, <3>4, <3>5
      <3>7. StackOK(q)
        BY <3>3, <3>4, <3>5, <3>6 DEF StackOK, Reading
      <3>8. Shape(q)
        BY <1>7, <1>8, <3>3, <3>5, <3>7 DEF Shape
      <3>9. QED  BY <1>2, <1>4, <1>5, <1>9, <2>1, <3>8
    <2>4. QED  BY <2>2, <2>3
  <1>10. CASE s.child # NullNode
    <2>1. PICK q : q = [e EXCEPT !.pc = "show"]
      OBVIOUS
    <2>2. /\ DOMAIN q = TaskFields /\ q.pc = "show" /\ q.stack = sq
          /\ q.seen = <<>> /\ q.cmd = e.cmd
      BY <1>6, <1>7, <2>1 DEF TaskFields
    <2>3. sq[n] \in WrittenNodes
      BY <1>2, <1>7, <1>10
    <2>4. StackOK(q)
      BY <1>6, <1>7, <2>2, <2>3 DEF StackOK, Reading
    <2>5. Shape(q)
      BY <1>6, <1>7, <1>8, <2>2, <2>4 DEF Shape
    <2>6. QED  BY <1>2, <1>4, <1>5, <1>10, <2>1, <2>5
  <1>11. QED  BY <1>9, <1>10

LEMMA TestsShowShape ==
    ASSUME ShapeInv, NEW t \in Tasks, Tests(t) \/ Show(t)
    PROVE  \E q : Shape(q) /\ Update(t, q)
  <1>1. PICK r : r = task[t] /\ Shape(r)
    BY DEF ShapeInv
  <1>2. DOMAIN r = TaskFields /\ r.seen \in Seq(CursorSet)
    BY <1>1 DEF Shape
  <1>3. CASE Tests(t)
    <2>1. PICK q : q = [r EXCEPT !.seen = <<cursor>>]
      OBVIOUS
    <2>2. /\ DOMAIN q = TaskFields /\ q.pc = r.pc /\ q.cmd = r.cmd
          /\ q.stack = r.stack /\ q.seen = <<cursor>>
      BY <1>2, <2>1 DEF TaskFields
    <2>3. <<cursor>> \in Seq(CursorSet)
      BY DEF ShapeInv
    <2>4. Update(t, q)
      BY <1>1, <1>3, <2>1 DEF Tests
    <2>5. QED  BY <1>1, <2>2, <2>3, <2>4, SameShape
  <1>4. CASE Show(t)
    <2>1. PICK q, name :
            q = [r EXCEPT !.pc = IF r.cmd = "dcadump" THEN "type" ELSE "list",
                          !.name = name] /\ Update(t, q)
      BY <1>1, <1>4 DEF Show
    <2>2. /\ DOMAIN q = TaskFields /\ q.cmd = r.cmd
          /\ q.pc = IF r.cmd = "dcadump" THEN "type" ELSE "list"
          /\ q.stack = r.stack /\ q.seen = r.seen
      BY <1>2, <2>1 DEF TaskFields
    <2>3. r.pc = "show"
      BY <1>1, <1>4 DEF Show, At
    <2>4. QED  BY <1>1, <1>2, <2>1, <2>2, <2>3, MovedShape
  <1>5. QED  BY <1>3, <1>4

LEMMA ShapeStep ==
    ASSUME ShapeInv, [Next]_vars
    PROVE  ShapeInv'
  <1>. Settled'
    BY SettledStep DEF ShapeInv, Next, Settled, vars
  <1>1. ASSUME NEW t \in Tasks, NEW q, Shape(q), Update(t, q), cursor' \in CursorSet,
               UNCHANGED <<threads, nib>>, halted' \in BOOLEAN, Settled'
        PROVE  ShapeInv'
    BY <1>1, TaskUpdated DEF ShapeInv
  <1>2. CASE UNCHANGED vars
    BY <1>2 DEF ShapeInv, vars
  <1>3. ASSUME NEW t \in Tasks, Request(t)
        PROVE  ShapeInv'
    <2>1. UNCHANGED <<cursor, threads, nib, halted>>
      BY <1>3 DEF Request, db, env
    <2>2. QED  BY <1>1, <1>3, <2>1, RequestShape DEF ShapeInv
  <1>4. ASSUME NEW t \in Tasks, Lookup(t) \/ List(t)
        PROVE  ShapeInv'
    <2>1. UNCHANGED <<threads, nib, halted>>
      BY <1>4 DEF Lookup, List, env
    <2>2. QED  BY <1>1, <1>4, <2>1, LookupShape, ListShape DEF ShapeInv
  <1>5. ASSUME NEW t \in Tasks, Tests(t) \/ Match(t) \/ Type(t) \/ Show(t)
        PROVE  ShapeInv'
    <2>1. UNCHANGED <<cursor, threads, nib, halted>>
      BY <1>5 DEF Tests, Match, Type, Show, db, env
    <2>2. QED  BY <1>1, <1>5, <2>1, TestsShowShape, MatchShape, TypeShape
               DEF ShapeInv
  <1>6. ASSUME NEW t \in Tasks,
               \/ ValueToStr(t) \/ CheckType(t) \/ GetValue(t)
               \/ Count(t) \/ Entered(t) \/ Counted(t), Settled'
        PROVE  ShapeInv'
    <2>1. UNCHANGED <<threads, nib, halted>>
      BY <1>6 DEF ValueToStr, CheckType, GetValue, Count, Entered, Counted, env
    <2>2. QED  BY <1>1, <1>6, <2>1, ReadingShape DEF ShapeInv
  <1>7. ASSUME NEW t \in Tasks, Fault(t)
        PROVE  ShapeInv'
    BY <1>7 DEF Fault, Halt, ShapeInv, db, env
  <1>8. CASE ThreadExit \/ NibChange
    BY <1>8 DEF ThreadExit, NibChange, ShapeInv, db
  <1>9. ASSUME UNCHANGED <<task, cursor, threads, nib, halted>>, Settled'
        PROVE  ShapeInv'
    BY <1>9 DEF ShapeInv
  <1>10. ASSUME NEW t \in Tasks, Add(t) \/ Link(t) \/ Publish(t), Settled'
         PROVE  ShapeInv'
    BY <1>6, <1>9, <1>10, InsertionIs
  <1>11. ASSUME Measure, Settled'
         PROVE  ShapeInv'
    BY <1>9, <1>11 DEF Measure, env
  <1>12. QED  BY <1>2, <1>3, <1>4, <1>5, <1>6, <1>7, <1>8, <1>10, <1>11
              DEF Next, Call

\* The type invariant, for every board and whatever the two readers do to each
\* other: counters keep their widths, nodes stay nodes of their subtree, pids
\* and positions in the lists of devices and interfaces stay in their ranges.
THEOREM TypeCorrect ==
    Spec => []TypeOK
  <1>1. ShapeInv => TypeOK
    <2>1. ASSUME ShapeInv, NEW t \in Tasks
          PROVE  /\ task[t].pc \in {"idle", "lookup", "match", "found", "type",
                            "list", "show", "print", "assert", "read", "count",
                            "add", "readdir", "dirname"}
                 /\ ToSet(task[t].stack) \subseteq NodeSet
      <3>1. PICK r : r = task[t] /\ Shape(r)
        BY <2>1 DEF ShapeInv
      <3>2. ToSet(r.stack) \subseteq NodeSet
        BY <3>1 DEF Shape, ToSet
      <3>3. QED  BY <3>1, <3>2 DEF Shape, Reading
    <2>2. QED  BY <2>1 DEF ShapeInv, Settled, TypeOK
  <1>2. Spec => []ShapeInv
    BY ShapeInit, ShapeStep, PTL DEF Spec
  <1>3. QED  BY <1>1, <1>2, PTL

-----------------------------------------------------------------------------
(* Static entries.                                                         *)

\* The key of the static entry number k of the branch number i.
StaticKey(i, k) == <<db_index[i].name, db_index[i].static[k][1]>>

\* How a task that looks for that entry gets there: over the branches before
\* it, and over the entries before it.  All it uses lies on its own stack.
OnTheWay(r, i, k) ==
    /\ r.cmd # "dcadump" /\ r.seen = <<>>
    /\ \/ /\ r.pc = "lookup" /\ r.todo = StaticKey(i, k)
          /\ \E j \in 0 .. i - 1, c \in NodeSet : r.stack = <<RootNode(j), c>>
       \/ /\ r.pc = "match" /\ r.todo = StaticKey(i, k)
          /\ \E j \in 0 .. i - 1 : r.stack = <<RootNode(j + 1), FlNode(j, 0, 1)>>
       \/ /\ r.pc = "lookup" /\ r.todo = <<StaticKey(i, k)[2]>>
          /\ \E j \in 0 .. k - 1, c \in NodeSet : r.stack = <<FlNode(i - 1, j, 1), c>>
       \/ /\ r.pc = "match" /\ r.todo = <<StaticKey(i, k)[2]>>
          /\ \E j \in 0 .. k - 1 :
                r.stack = <<FlNode(i - 1, j + 1, 1), FlNode(i - 1, j, 0)>>
       \/ /\ r.pc \in {"type", "print", "assert", "read"}
          /\ r.stack = <<FlNode(i - 1, k - 1, 0)>>

Locates(r, i, k) ==
    r.path = StaticKey(i, k) =>
        \/ r.pc = "idle" /\ r.res = <<"value", r.path>>
        \/ OnTheWay(r, i, k)

StaticInv ==
    \A i \in 1 .. Len(db_index) : \A k \in 1 .. Len(db_index[i].static) :
        \A t \in Tasks : Locates(task[t], i, k)

\* The tables at the numbers of an entry.
LEMMA EntryAt ==
    ASSUME NEW i \in 1 .. Len(db_index), NEW k \in 1 .. Len(db_index[i].static)
    PROVE  /\ db_index[i] \in Branches
           /\ i \in 1 .. 4 /\ k \in 1 .. 5
           /\ \A r : FlEntry(FlNode(i - 1, k - 1, r)) = db_index[i]
           /\ \A r : StaticEntry(FlNode(i - 1, k - 1, r)) = db_index[i].static[k]
           /\ db_index[i].name \in StaticNames
           /\ db_index[i].static[k][1] \in StaticNames
           /\ StaticKey(i, k) = <<StaticKey(i, k)[1], StaticKey(i, k)[2]>>
  <1>1. db_index[i] \in Branches /\ i \in 1 .. 4
    BY Index
  <1>2. k \in 1 .. 5
    <2>1. PICK len \in 1 .. 5 : len = Len(db_index[i].static)
      BY <1>1, Entries
    <2>2. k \in 1 .. len
      BY <2>1
    <2>3. QED  BY <2>2
  <1>3. /\ \A r : FlEntry(FlNode(i - 1, k - 1, r)) = db_index[i]
        /\ \A r : StaticEntry(FlNode(i - 1, k - 1, r)) = db_index[i].static[k]
    <2>1. (i - 1) + 1 = i /\ (k - 1) + 1 = k
      BY <1>1, <1>2
    <2>2. QED  BY <2>1 DEF FlEntry, StaticEntry, FlNode
  <1>4. /\ db_index[i] \in ToSet(db_index)
        /\ db_index[i].static[k] \in ToSet(db_index[i].static)
    <2>1. DOMAIN db_index = 1 .. Len(db_index)
      BY Index
    <2>2. DOMAIN db_index[i].static = 1 .. Len(db_index[i].static)
      BY <1>1, Entries
    <2>3. QED  BY <2>1, <2>2 DEF ToSet
  <1>5. /\ db_index[i].name \in StaticNames
        /\ db_index[i].static[k][1] \in StaticNames
    BY <1>4 DEF StaticNames
  <1>6. QED  BY <1>1, <1>2, <1>3, <1>5 DEF StaticKey

\* A token of the static layout matches no other name of it.
LEMMA TokensMatch ==
    ASSUME NEW s \in StaticNames, NEW t \in StaticNames
    PROVE  Matches(s, t) <=> s = t
  BY NamesAssumption DEF Matches

\* What get_next_child returns on the way.
LEMMA StaticChildren ==
    ASSUME NEW i \in 1 .. Len(db_index), NEW k \in 1 .. Len(db_index[i].static),
           NEW c, NEW cur
    PROVE  /\ NextChild(RootNode(i - 1), c, cur, cur)
                 = Step(RootNode(i), FlNode(i - 1, 0, 1), cur)
           /\ NextChild(FlNode(i - 1, k - 1, 1), c, cur, cur)
                 = Step(FlNode(i - 1, k, 1), FlNode(i - 1, k - 1, 0), cur)
  <1>1. i \in 1 .. 4 /\ k \in 1 .. 5 /\ Len(db_index) \in Nat
        /\ FlEntry(FlNode(i - 1, k - 1, 1)) = db_index[i]
    BY EntryAt, Index
  <1>2. PICK a \in 0 .. 3, b \in 0 .. 4 :
            a = i - 1 /\ a + 1 = i /\ b = k - 1 /\ b + 1 = k
    BY <1>1
  <1>3. NextChild(RootNode(a), c, cur, cur) = Step(RootNode(a + 1), FlNode(a, 0, 1), cur)
    <2>1. a < Len(db_index)
      BY <1>1, <1>2
    <2>2. [RootNode(a) EXCEPT !.idx = @ + 1] = RootNode(a + 1)
      BY DEF RootNode
    <2>3. RootNode(a).ops = "root" /\ RootNode(a).idx = a
      BY DEF RootNode
    <2>4. QED  BY <2>1, <2>2, <2>3 DEF NextChild, RootNextChild
  <1>4. NextChild(FlNode(a, b, 1), c, cur, cur)
           = Step(FlNode(a, b + 1, 1), FlNode(a, b, 0), cur)
    <2>1. PICK e : e = db_index[i] /\ FlEntry(FlNode(a, b, 1)) = e
      BY <1>1, <1>2
    <2>2. Len(e.static) \in Nat /\ b + 1 <= Len(e.static)
      <3>1. Len(e.static) \in 1 .. 5
        BY <2>1, EntryAt, Entries
      <3>2. QED  BY <1>2, <2>1, <3>1
    <2>3. b - Len(e.static) + 1 <= 0
      BY <2>2
    <2>4. [FlNode(a, b, 1) EXCEPT !.sub_idx = @ + 1] = FlNode(a, b + 1, 1)
      BY DEF FlNode
    <2>5. /\ FlNode(a, b, 1).ops = "fl" /\ FlNode(a, b, 1).fl_idx = a
          /\ FlNode(a, b, 1).sub_idx = b /\ FlNode(a, b, 1).is_root = 1
      BY DEF FlNode
    <2>6. QED  BY <2>1, <2>3, <2>4, <2>5 DEF NextChild, FlNextChild
  <1>5. QED  BY <1>2, <1>3, <1>4

\* A request for the entry sets out for it.
LEMMA StaticRequest ==
    ASSUME NEW t \in Tasks, ShapeInv, Request(t),
           NEW i \in 1 .. Len(db_index), NEW k \in 1 .. Len(db_index[i].static)
    PROVE  Locates(task'[t], i, k)
  <1>1. PICK q, r, short :
          /\ q \in Requests[t]
          /\ r = [Idle EXCEPT !.cmd = q.cmd, !.path = q.path, !.todo = q.path]
          /\ Update(t, CASE q.cmd = "get" /\ q.path = <<>> /\ short ->
                              Finished(r, <<"enoent">>)
                         [] q.cmd = "dcadump" ->
                              [r EXCEPT !.pc = "show", !.stack = <<Root>>]
                         [] q.cmd # "dcadump" /\ q.path # <<>> ->
                              [r EXCEPT !.pc = "lookup",
                                        !.stack = <<Root, Uninitialised>>]
                         [] OTHER ->
                              [r EXCEPT !.pc = "type", !.stack = <<Root>>])
    BY DEF Request
  <1>2. /\ DOMAIN r = TaskFields /\ r.pc = "idle" /\ r.cmd = q.cmd
        /\ r.path = q.path /\ r.todo = q.path /\ r.seen = <<>>
    BY <1>1 DEF Idle, TaskFields
  <1>3. ASSUME q.path = StaticKey(i, k)
        PROVE  Locates(task'[t], i, k)
    <2>1. q.path # <<>> /\ q.cmd # "dcadump"
      <3>1. StaticKey(i, k) # <<>>
        BY DEF StaticKey
      <3>2. q.cmd = "dcadump" => q.path = <<>>
        BY <1>1, QueryAssumption
      <3>3. QED  BY <1>3, <3>1, <3>2
    <2>2. PICK x : x = [r EXCEPT !.pc = "lookup", !.stack = <<Root, Uninitialised>>]
      OBVIOUS
    <2>3. task'[t] = x
      BY <1>1, <2>1, <2>2 DEF Update, ShapeInv
    <2>4. /\ x.cmd # "dcadump" /\ x.seen = <<>> /\ x.pc = "lookup"
          /\ x.todo = StaticKey(i, k) /\ x.stack = <<RootNode(0), Uninitialised>>
      BY <1>2, <1>3, <2>1, <2>2 DEF TaskFields, Root
    <2>5. 0 \in 0 .. i - 1 /\ Uninitialised \in NodeSet
      BY EntryAt DEF NodeSet
    <2>6. QED  BY <2>3, <2>4, <2>5 DEF Locates, OnTheWay
  <1>4. ASSUME q.path # StaticKey(i, k)
        PROVE  Locates(task'[t], i, k)
    <2>1. task'[t].path = q.path
      <3>1. Finished(r, <<"enoent">>).path = q.path
        BY <1>2 DEF Finished, Idle
      <3>2. \A pc, st : [r EXCEPT !.pc = pc, !.stack = st].path = q.path
        BY <1>2 DEF TaskFields
      <3>3. QED  BY <1>1, <3>1, <3>2 DEF Update, ShapeInv
    <2>2. QED  BY <1>4, <2>1 DEF Locates
  <1>5. QED  BY <1>3, <1>4

\* No call changes the command, nor the path it was given.
LEMMA CommandKept ==
    ASSUME ShapeInv, NEW t \in Tasks, Call(t)
    PROVE  task'[t].path = task[t].path /\ task'[t].cmd = task[t].cmd
  <1>1. PICK r : r = task[t] /\ Shape(r)
    BY DEF ShapeInv
  <1>2. DOMAIN r = TaskFields /\ DOMAIN task = Tasks
    BY <1>1 DEF Shape, ShapeInv
  <1>3. \A x, res : /\ x.path = r.path => Finished(x, res).path = r.path
                    /\ x.cmd = r.cmd => Finished(x, res).cmd = r.cmd
    BY DEF Finished, Idle
  <1>4. \A res : Printed(r, res).path = r.path /\ Printed(r, res).cmd = r.cmd
    <2>1. CASE r.cmd # "dcadump"
      BY <1>3, <2>1 DEF Printed
    <2>2. CASE r.cmd = "dcadump"
      BY <1>2, <2>2 DEF Printed, TaskFields
    <2>3. QED  BY <2>1, <2>2
  <1>5. CASE Lookup(t)
    <2>1. PICK s \in Outcomes(t) :
          Update(t, IF s.child = NullNode THEN Finished(r, <<"enoent">>)
                    ELSE [Enumerated(t, s) EXCEPT !.pc = "match"])
      BY <1>1, <1>5 DEF Lookup
    <2>2. /\ [Enumerated(t, s) EXCEPT !.pc = "match"].path = r.path
          /\ [Enumerated(t, s) EXCEPT !.pc = "match"].cmd = r.cmd
      BY <1>1, <1>2 DEF Enumerated, TaskFields
    <2>3. /\ Finished(r, <<"enoent">>).path = r.path
          /\ Finished(r, <<"enoent">>).cmd = r.cmd
      BY <1>3
    <2>4. PICK q : Update(t, q) /\ q.path = r.path /\ q.cmd = r.cmd
      BY <2>1, <2>2, <2>3
    <2>5. QED  BY <1>1, <1>2, <2>4 DEF Update
  <1>6. CASE List(t)
    <2>1. PICK s \in Outcomes(t) :
            Update(t, IF s.child = NullNode THEN Leave(Enumerated(t, s))
                      ELSE [Enumerated(t, s) EXCEPT !.pc = "show"])
      BY <1>6 DEF List
    <2>2. PICK e : e = Enumerated(t, s)
      OBVIOUS
    <2>3. e.path = r.path /\ e.cmd = r.cmd /\ DOMAIN e = TaskFields
      BY <1>1, <1>2, <2>2 DEF Enumerated, TaskFields
    <2>4. /\ [e EXCEPT !.pc = "show"].path = r.path
          /\ [e EXCEPT !.pc = "show"].cmd = r.cmd
          /\ Leave(e).path = r.path /\ Leave(e).cmd = r.cmd
      <3>1. CASE Len(e.stack) = 2
        BY <1>3, <2>3, <3>1 DEF Leave, TaskFields
      <3>2. CASE Len(e.stack) # 2
        BY <2>3, <3>2 DEF Leave, TaskFields
      <3>3. QED  BY <3>1, <3>2
    <2>5. QED  BY <1>1, <1>2, <2>1, <2>2, <2>4 DEF Update
  <1>7. CASE Match(t)
    <2>1. PICK name, rest, c :
          \/ Update(t, [r EXCEPT !.pc = "lookup", !.name = name])
          \/ Update(t, [r EXCEPT !.pc = "lookup", !.todo = rest, !.name = name,
                                !.stack = <<c, c>>])
          \/ Update(t, FoundNode(r, c))
      BY <1>1, <1>7 DEF Match
    <2>2. FoundNode(r, c).path = r.path /\ FoundNode(r, c).cmd = r.cmd
      BY <1>2 DEF FoundNode, TaskFields
    <2>3. QED  BY <1>1, <1>2, <2>1, <2>2 DEF Update, TaskFields
  <1>8. CASE Tests(t) \/ Type(t) \/ Show(t)
    BY <1>1, <1>2, <1>8 DEF Tests, Type, Show, Update, TaskFields
  <1>9. CASE \/ ValueToStr(t) \/ CheckType(t) \/ GetValue(t)
             \/ Count(t) \/ Counted(t)
    <2>1. CASE Count(t)
      BY <1>1, <1>2, <2>1 DEF Count, Update, TaskFields
    <2>2. CASE ~Count(t)
      BY <1>1, <1>2, <1>4, <1>9, <2>2
         DEF ValueToStr, CheckType, GetValue, Counted, Update, TaskFields
    <2>3. QED  BY <2>1, <2>2
  <1>10. CASE Fault(t)
    BY <1>10 DEF Fault, Halt
  <1>11. CASE Add(t) \/ Link(t) \/ Publish(t)
    <2>1. CASE Entered(t)
      BY <1>1, <1>2, <2>1 DEF Entered, CountOn, Update, TaskFields
    <2>2. QED  BY <1>11, <2>1, InsertionIs
  <1>12. QED  BY <1>5, <1>6, <1>7, <1>8, <1>9, <1>10, <1>11 DEF Call

\* The nodes on a stack of one or two.
LEMMA SmallStack ==
    ASSUME NEW t \in Tasks, Shape(task[t]), NEW a, NEW c
    PROVE  /\ task[t].stack = <<a, c>> => Node(t) = a /\ Child(t) = c
           /\ task[t].stack = <<c>> => Child(t) = c
  <1>1. /\ Len(<<a, c>>) = 2 /\ <<a, c>>[2 - 1] = a /\ <<a, c>>[2] = c
        /\ Len(<<c>>) = 1 /\ <<c>>[1] = c
    OBVIOUS
  <1>2. /\ Node(t) = task[t].stack[Len(task[t].stack) - 1]
        /\ Child(t) = task[t].stack[Len(task[t].stack)]
    BY TopOfStack
  <1>3. QED  BY <1>1, <1>2

\* What a task in the middle of get_next_child does is what it would have done
\* undisturbed: on the way it tests no counter.
LEMMA StaticOutcome ==
    ASSUME ShapeInv, NEW t \in Tasks, task[t].pc \in {"lookup", "list"},
           task[t].seen = <<>>, NEW a, NEW c, task[t].stack = <<a, c>>,
           NEW a1, NEW b, NextChild(a, c, cursor, cursor) = Step(a1, b, cursor)
    PROVE  /\ Outcomes(t) = {Step(a1, b, cursor)}
           /\ Enumerated(t, Step(a1, b, cursor)).stack = <<a1, b>>
  <1>1. PICK r : r = task[t] /\ Shape(r)
    BY DEF ShapeInv
  <1>2. /\ Len(r.stack) = 2 /\ r.stack[1] = a /\ r.stack[2] = c
        /\ DOMAIN r = TaskFields
    <2>1. DOMAIN r = TaskFields /\ r.stack = <<a, c>>
      BY <1>1 DEF Shape
    <2>2. QED  BY <2>1
  <1>3. Node(t) = a /\ Child(t) = c
    BY <1>1, <1>2, TopOfStack
  <1>4. Outcomes(t) = {Step(a1, b, cursor)}
    BY <1>3 DEF Outcomes
  <1>5. PICK s : s = Step(a1, b, cursor) /\ s.node = a1 /\ s.child = b
    BY DEF Step
  <1>6. Enumerated(t, s).stack = [<<a, c>> EXCEPT ![1] = a1, ![2] = b]
    BY <1>1, <1>2, <1>5 DEF Enumerated, TaskFields
  <1>7. QED  BY <1>4, <1>5, <1>6

\* On the way no enumeration ends, and it goes to the next branch or entry.
LEMMA StaticLookup ==
    ASSUME ShapeInv, NEW t \in Tasks, Lookup(t),
           NEW i \in 1 .. Len(db_index), NEW k \in 1 .. Len(db_index[i].static),
           OnTheWay(task[t], i, k)
    PROVE  OnTheWay(task'[t], i, k)
  <1>1. PICK r : r = task[t] /\ Shape(r) /\ r.pc = "lookup"
    BY DEF ShapeInv, Lookup, At
  <1>2. /\ DOMAIN r = TaskFields /\ r.cmd # "dcadump" /\ r.seen = <<>>
        /\ DOMAIN task = Tasks
    BY <1>1 DEF Shape, OnTheWay, ShapeInv
  <1>3. PICK s \in Outcomes(t) :
          Update(t, IF s.child = NullNode THEN Finished(r, <<"enoent">>)
                    ELSE [Enumerated(t, s) EXCEPT !.pc = "match"])
    BY <1>1 DEF Lookup
  <1>4. ASSUME NEW a, NEW c, r.stack = <<a, c>>, NEW a1, NEW b,
               NextChild(a, c, cursor, cursor) = Step(a1, b, cursor),
               b # NullNode
        PROVE  LET q == task'[t]
               IN  /\ q.pc = "match" /\ q.cmd = r.cmd /\ q.seen = <<>>
                   /\ q.todo = r.todo /\ q.stack = <<a1, b>>
    <2>1. s = Step(a1, b, cursor) /\ Enumerated(t, s).stack = <<a1, b>>
      BY <1>1, <1>2, <1>3, <1>4, StaticOutcome
    <2>2. s.child = b
      BY <2>1 DEF Step
    <2>3. PICK e : e = Enumerated(t, s)
      OBVIOUS
    <2>4. /\ DOMAIN e = TaskFields /\ e.cmd = r.cmd /\ e.seen = <<>>
          /\ e.todo = r.todo
      BY <1>1, <1>2, <2>3 DEF Enumerated, TaskFields
    <2>5. task'[t] = [e EXCEPT !.pc = "match"]
      BY <1>2, <1>3, <1>4, <2>2, <2>3 DEF Update
    <2>6. QED  BY <2>1, <2>3, <2>4, <2>5 DEF TaskFields
  <1>5. ASSUME NEW j \in 0 .. i - 1, NEW c \in NodeSet, r.stack = <<RootNode(j), c>>,
               r.todo = StaticKey(i, k)
        PROVE  OnTheWay(task'[t], i, k)
    <2>1. PICK m \in 1 .. Len(db_index) : m = j + 1 /\ m - 1 = j
      BY Index
    <2>2. 1 \in 1 .. Len(db_index[m].static)
      <3>1. PICK len \in 1 .. 5 : len = Len(db_index[m].static)
        BY Index, Entries
      <3>2. 1 \in 1 .. len
        OBVIOUS
      <3>3. QED  BY <3>1, <3>2
    <2>3. NextChild(RootNode(j), c, cursor, cursor)
             = Step(RootNode(j + 1), FlNode(j, 0, 1), cursor)
      BY <2>1, <2>2, StaticChildren
    <2>4. FlNode(j, 0, 1) # NullNode
      BY DEF FlNode, NullNode
    <2>5. QED  BY <1>2, <1>4, <1>5, <2>3, <2>4 DEF OnTheWay
  <1>6. ASSUME NEW j \in 0 .. k - 1, NEW c \in NodeSet,
               r.stack = <<FlNode(i - 1, j, 1), c>>,
               r.todo = <<StaticKey(i, k)[2]>>
        PROVE  OnTheWay(task'[t], i, k)
    <2>1. PICK m \in 1 .. Len(db_index[i].static) : m = j + 1 /\ m - 1 = j
      BY EntryAt, Entries
    <2>2. NextChild(FlNode(i - 1, j, 1), c, cursor, cursor)
             = Step(FlNode(i - 1, j + 1, 1), FlNode(i - 1, j, 0), cursor)
      BY <2>1, StaticChildren
    <2>3. FlNode(i - 1, j, 0) # NullNode
      BY DEF FlNode, NullNode
    <2>4. QED  BY <1>2, <1>4, <1>6, <2>2, <2>3 DEF OnTheWay
  <1>7. QED  BY <1>1, <1>5, <1>6 DEF OnTheWay

\* A branch or an entry with another name is passed over, the one looked for
\* is entered.
LEMMA StaticMatch ==
    ASSUME ShapeInv, NEW t \in Tasks, Match(t),
           NEW i \in 1 .. Len(db_index), NEW k \in 1 .. Len(db_index[i].static),
           OnTheWay(task[t], i, k)
    PROVE  OnTheWay(task'[t], i, k)
  <1>1. PICK r : r = task[t] /\ Shape(r) /\ r.pc = "match"
    BY DEF ShapeInv, Match, At
  <1>2. /\ DOMAIN r = TaskFields /\ r.cmd # "dcadump" /\ r.seen = <<>>
        /\ DOMAIN task = Tasks
        /\ r.cmd # "vfs"
    BY <1>1 DEF Shape, OnTheWay, ShapeInv
  <1>3. ASSUME NEW a, NEW c, r.stack = <<a, c>>
        PROVE  LET name == GetName(c, r.name)
                   hit  == Matches(Head(r.todo), name)
                   q    == task'[t]
               IN  /\ q.cmd = r.cmd /\ q.seen = <<>>
                   /\ ~hit => /\ q.pc = "lookup" /\ q.todo = r.todo
                              /\ q.stack = <<a, c>>
                   /\ hit /\ Tail(r.todo) # <<>> =>
                         /\ q.pc = "lookup" /\ q.todo = Tail(r.todo)
                         /\ q.stack = <<c, c>>
                   /\ hit /\ Tail(r.todo) = <<>> =>
                         q.pc = "type" /\ q.stack = <<c>>
    <2>1. Child(t) = c
      BY <1>1, <1>3, TopOfStack
    <2>2. PICK name, hit, rest :
            /\ name = GetName(c, r.name)
            /\ hit = Matches(Head(r.todo), name)
            /\ rest = Tail(r.todo)
      OBVIOUS
    <2>3. CASE ~Matches(Head(r.todo), name)
      <3>1. task'[t] = [r EXCEPT !.pc = "lookup", !.name = name]
        BY <1>1, <1>2, <2>1, <2>2, <2>3 DEF Match, Update
      <3>2. QED  BY <1>2, <1>3, <2>2, <2>3, <3>1 DEF TaskFields
    <2>4. CASE Matches(Head(r.todo), name) /\ rest # <<>>
      <3>1. task'[t] = [r EXCEPT !.pc = "lookup", !.todo = rest, !.name = name,
                                 !.stack = <<c, c>>]
        BY <1>1, <1>2, <2>1, <2>2, <2>4 DEF Match, Update
      <3>2. QED  BY <1>2, <2>2, <2>4, <3>1 DEF TaskFields
    <2>5. CASE Matches(Head(r.todo), name) /\ rest = <<>>
      <3>1. task'[t] = FoundNode(r, c)
        BY <1>1, <1>2, <2>1, <2>2, <2>5 DEF Match, Update
      <3>2. QED  BY <1>2, <2>2, <2>5, <3>1 DEF FoundNode, TaskFields
    <2>6. QED  BY <2>3, <2>4, <2>5
  <1>4. PICK key, name : /\ StaticKey(i, k) = <<key, name>>
                         /\ key = db_index[i].name
                         /\ name = db_index[i].static[k][1]
                         /\ key \in StaticNames /\ name \in StaticNames
    BY EntryAt DEF StaticKey
  <1>5. ASSUME NEW j \in 0 .. i - 1,
               r.stack = <<RootNode(j + 1), FlNode(j, 0, 1)>>,
               r.todo = StaticKey(i, k)
        PROVE  OnTheWay(task'[t], i, k)
    <2>1. PICK m \in 1 .. Len(db_index) : m = j + 1 /\ m - 1 = j
      BY Index
    <2>2. 1 \in 1 .. Len(db_index[m].static)
      <3>1. PICK len \in 1 .. 5 : len = Len(db_index[m].static)
        BY Index, Entries
      <3>2. 1 \in 1 .. len
        OBVIOUS
      <3>3. QED  BY <3>1, <3>2
    <2>3. /\ GetName(FlNode(j, 0, 1), r.name) = db_index[m].name
          /\ db_index[m].name \in StaticNames
      <3>1. FlEntry(FlNode(m - 1, 1 - 1, 1)) = db_index[m]
            /\ db_index[m].name \in StaticNames
        BY <2>2, EntryAt
      <3>2. QED  BY <2>1, <3>1 DEF GetName, FlName, FlNode
    <2>4. Head(r.todo) = key /\ Tail(r.todo) = <<name>> /\ <<name>> # <<>>
      BY <1>4, <1>5
    <2>5. Matches(key, db_index[m].name) <=> m = i
      BY <1>4, <2>3, TokensMatch, Index
    <2>6. CASE m # i
      <3>1. j + 1 \in 0 .. i - 1
        BY <2>1, <2>6
      <3>2. /\ task'[t].pc = "lookup" /\ task'[t].todo = StaticKey(i, k)
            /\ task'[t].stack = <<RootNode(j + 1), FlNode(j, 0, 1)>>
            /\ task'[t].cmd = r.cmd /\ task'[t].seen = <<>>
        BY <1>3, <1>5, <2>3, <2>4, <2>5, <2>6
      <3>3. FlNode(j, 0, 1) \in NodeSet
        BY <1>1, <1>5 DEF Shape
      <3>4. QED  BY <1>2, <3>1, <3>2, <3>3 DEF OnTheWay
    <2>7. CASE m = i
      <3>1. /\ task'[t].pc = "lookup" /\ task'[t].todo = <<name>>
            /\ task'[t].stack = <<FlNode(j, 0, 1), FlNode(j, 0, 1)>>
            /\ task'[t].cmd = r.cmd /\ task'[t].seen = <<>>
        BY <1>3, <1>5, <2>3, <2>4, <2>5, <2>7
      <3>2. FlNode(j, 0, 1) \in NodeSet
        BY <1>1, <1>5 DEF Shape
      <3>3. j = i - 1 /\ 0 \in 0 .. k - 1 /\ StaticKey(i, k)[2] = name
        BY <1>4, <2>1, <2>7, EntryAt
      <3>4. QED  BY <1>2, <3>1, <3>2, <3>3 DEF OnTheWay
    <2>8. QED  BY <2>6, <2>7
  <1>6. ASSUME NEW j \in 0 .. k - 1,
               r.stack = <<FlNode(i - 1, j + 1, 1), FlNode(i - 1, j, 0)>>,
               r.todo = <<StaticKey(i, k)[2]>>
        PROVE  OnTheWay(task'[t], i, k)
    <2>1. PICK m \in 1 .. Len(db_index[i].static) : m = j + 1 /\ m - 1 = j
      BY EntryAt, Entries
    <2>2. /\ GetName(FlNode(i - 1, j, 0), r.name) = db_index[i].static[m][1]
          /\ db_index[i].static[m][1] \in StaticNames
      <3>1. StaticEntry(FlNode(i - 1, m - 1, 0)) = db_index[i].static[m]
            /\ db_index[i].static[m][1] \in StaticNames
        BY EntryAt
      <3>2. QED  BY <2>1, <3>1 DEF GetName, FlName, FlNode
    <2>3. Head(r.todo) = name /\ Tail(r.todo) = <<>>
      BY <1>4, <1>6
    <2>4. Matches(name, db_index[i].static[m][1]) <=> m = k
      BY <1>4, <2>2, TokensMatch, EntryAt, Entries
    <2>5. CASE m # k
      <3>1. j + 1 \in 0 .. k - 1
        BY <2>1, <2>5, EntryAt
      <3>2. /\ task'[t].pc = "lookup" /\ task'[t].todo = <<StaticKey(i, k)[2]>>
            /\ task'[t].stack = <<FlNode(i - 1, j + 1, 1), FlNode(i - 1, j, 0)>>
            /\ task'[t].cmd = r.cmd /\ task'[t].seen = <<>>
        BY <1>3, <1>6, <2>2, <2>3, <2>4, <2>5
      <3>3. FlNode(i - 1, j, 0) \in NodeSet
        BY <1>1, <1>6 DEF Shape
      <3>4. QED  BY <1>2, <3>1, <3>2, <3>3 DEF OnTheWay
    <2>6. CASE m = k
      <3>1. /\ task'[t].pc = "type" /\ task'[t].stack = <<FlNode(i - 1, j, 0)>>
            /\ task'[t].cmd = r.cmd /\ task'[t].seen = <<>>
        BY <1>3, <1>6, <2>2, <2>3, <2>4, <2>6
      <3>2. j = k - 1
        BY <2>1, <2>6
      <3>3. QED  BY <1>2, <3>1, <3>2 DEF OnTheWay
    <2>7. QED  BY <2>5, <2>6
  <1>7. QED  BY <1>1, <1>5, <1>6 DEF OnTheWay

\* Once found, the entry is read: its type cannot change, its getter reads no
\* counter, and the command ends with the entry's own value.
LEMMA StaticRead ==
    ASSUME ShapeInv, NEW t \in Tasks,
           Type(t) \/ ValueToStr(t) \/ CheckType(t) \/ GetValue(t),
           NEW i \in 1 .. Len(db_index), NEW k \in 1 .. Len(db_index[i].static),
           OnTheWay(task[t], i, k)
    PROVE  \/ OnTheWay(task'[t], i, k)
           \/ task'[t].pc = "idle" /\ task'[t].res = <<"value", StaticKey(i, k)>>
  <1>1. PICK r : /\ r = task[t] /\ Shape(r)
                 /\ r.pc \in {"type", "print", "assert", "read"}
    BY DEF ShapeInv, Type, ValueToStr, CheckType, GetValue, At
  <1>2. /\ DOMAIN r = TaskFields /\ r.cmd # "dcadump" /\ r.seen = <<>>
        /\ DOMAIN task = Tasks
    BY <1>1 DEF Shape, OnTheWay, ShapeInv
  <1>3. PICK c : c = FlNode(i - 1, k - 1, 0) /\ r.stack = <<c>>
    BY <1>1 DEF OnTheWay
  <1>4. Child(t) = c
    BY <1>1, <1>3, SmallStack
  <1>5. PICK type \in {"str", "int", "float"} : type = db_index[i].static[k][2]
    BY EntryAt, Entries
  <1>6. /\ GetType(c) = type /\ c.ops = "fl"
        /\ FlDatum(c) = StaticKey(i, k)
    <2>1. /\ c.ops = "fl" /\ c.is_root = 0
          /\ FlEntry(c) = db_index[i] /\ StaticEntry(c) = db_index[i].static[k]
      BY <1>3, EntryAt DEF FlNode
    <2>2. QED  BY <1>5, <2>1 DEF GetType, FlType, FlDatum, StaticKey
  <1>7. ASSUME NEW q, q = task'[t], q.cmd = r.cmd, q.seen = <<>>,
               q.pc \in {"print", "assert", "read"}, q.stack = <<c>>
        PROVE  OnTheWay(task'[t], i, k)
    BY <1>2, <1>3, <1>7 DEF OnTheWay
  <1>8. CASE Type(t)
    <2>1. task'[t] = [r EXCEPT !.pc = "print"]
      BY <1>1, <1>2, <1>4, <1>6, <1>8 DEF Type, Update
    <2>2. QED  BY <1>2, <1>3, <1>7, <2>1 DEF TaskFields
  <1>9. CASE ValueToStr(t)
    <2>1. task'[t] = [r EXCEPT !.pc = "assert", !.type = type]
      BY <1>1, <1>2, <1>4, <1>6, <1>9 DEF ValueToStr, Update
    <2>2. QED  BY <1>2, <1>3, <1>7, <2>1 DEF TaskFields
  <1>10. CASE CheckType(t)
    <2>1. task'[t] = [r EXCEPT !.pc = "read"]
      BY <1>1, <1>2, <1>10 DEF CheckType, Update
    <2>2. QED  BY <1>2, <1>3, <1>7, <2>1 DEF TaskFields
  <1>11. CASE GetValue(t)
    <2>1. ~CountsNeighbours(c, r.type) /\ Datum(c, r.type) = StaticKey(i, k)
      BY <1>6 DEF CountsNeighbours, Datum
    <2>2. task'[t] = Printed(r, <<"value", StaticKey(i, k)>>)
      BY <1>1, <1>2, <1>4, <1>11, <2>1 DEF GetValue, Update
    <2>3. QED  BY <1>2, <2>2 DEF Printed, Finished, Idle
  <1>12. QED  BY <1>8, <1>9, <1>10, <1>11

\* Every step keeps every task that looks for a static entry on its way.
LEMMA StaticStep ==
    ASSUME ShapeInv, StaticInv, [Next]_vars
    PROVE  StaticInv'
  <1>1. SUFFICES ASSUME NEW i \in 1 .. Len(db_index),
                        NEW k \in 1 .. Len(db_index[i].static), NEW u \in Tasks
                 PROVE  Locates(task'[u], i, k)
    BY DEF StaticInv
  <1>2. Locates(task[u], i, k)
    BY DEF StaticInv
  <1>3. CASE task'[u] = task[u]
    BY <1>2, <1>3
  <1>4. CASE Request(u)
    BY <1>4, StaticRequest
  <1>5. CASE Call(u) /\ task[u].path # StaticKey(i, k)
    BY <1>5, CommandKept DEF Locates
  <1>9. \A t \in Tasks : Add(t) \/ Link(t) \/ Publish(t) =>
                              Entered(t) \/ UNCHANGED task
    BY InsertionIs
  <1>6. CASE Call(u) /\ task[u].path = StaticKey(i, k) /\ task'[u] # task[u]
    <2>1. task[u].pc # "idle"
      BY <1>6, <1>9
         DEF Call, Tests, Lookup, Match, Type, List, Show, ValueToStr, CheckType,
             GetValue, Count, Entered, Counted, Fault, At
    <2>2. OnTheWay(task[u], i, k)
      BY <1>2, <1>6, <2>1 DEF Locates
    <2>3. task[u].pc \in {"lookup", "match", "type", "print", "assert", "read"}
      BY <2>2 DEF OnTheWay
    <2>4. ~Tests(u)
      <3>1. PICK r : r = task[u] /\ Shape(r)
        BY DEF ShapeInv
      <3>2. CASE \E a, c : r.stack = <<a, c>> /\ a.ops \in {"root", "fl"}
        <4>1. PICK a, c : r.stack = <<a, c>> /\ a.ops \in {"root", "fl"}
          BY <3>2
        <4>2. Node(u) = a
          BY <3>1, <4>1, SmallStack
        <4>3. QED  BY <4>1, <4>2 DEF Tests
      <3>3. CASE r.pc # "lookup"
        BY <2>3, <3>1, <3>3 DEF Tests, At
      <3>4. r.pc = "lookup" => \E a, c : r.stack = <<a, c>> /\ a.ops \in {"root", "fl"}
        <4>1. /\ \A j : RootNode(j).ops = "root"
              /\ \A j, m, b : FlNode(j, m, b).ops = "fl"
          BY DEF RootNode, FlNode
        <4>2. QED  BY <2>2, <3>1, <4>1 DEF OnTheWay
      <3>5. QED  BY <3>2, <3>3, <3>4
    <2>5. \/ Lookup(u) \/ Match(u) \/ Fault(u)
          \/ Type(u) \/ ValueToStr(u) \/ CheckType(u) \/ GetValue(u)
      BY <1>6, <1>9, <2>3, <2>4 DEF Call, List, Show, Count, Entered, Counted, At
    <2>6. CASE Fault(u)
      BY <1>2, <2>6 DEF Fault, Halt
    <2>7. CASE Lookup(u) \/ Match(u)
      BY <2>2, <2>7, StaticLookup, StaticMatch DEF Locates
    <2>8. CASE Type(u) \/ ValueToStr(u) \/ CheckType(u) \/ GetValue(u)
      BY <1>6, <2>2, <2>8, StaticRead, CommandKept DEF Locates
    <2>9. QED  BY <2>5, <2>6, <2>7, <2>8
  <1>7. \/ task'[u] = task[u] \/ Request(u) \/ Call(u)
    <2>1. ASSUME NEW t \in Tasks, t # u, Request(t) \/ Call(t)
          PROVE  task'[u] = task[u]
      BY <1>9, <2>1
         DEF Request, Call, Tests, Lookup, Match, Type, List, Show, ValueToStr,
             CheckType, GetValue, Count, Entered, Counted, Fault, Halt, Update,
             ShapeInv, Settled
    <2>2. QED  BY <2>1 DEF Next, vars, Measure, ThreadExit, NibChange
  <1>8. QED  BY <1>3, <1>4, <1>5, <1>6, <1>7

\* The static keys are those of the entries: every other key is longer.
LEMMA StaticKeysAre ==
    ASSUME NEW key \in StaticKeys
    PROVE  \E i \in 1 .. Len(db_index) : \E k \in 1 .. Len(db_index[i].static) :
              key = StaticKey(i, k)
  <1>1. key \in Keys /\ Len(key) = 2
    BY DEF StaticKeys
  <1>2. ASSUME NEW e \in ToSet(db_index), NEW s \in ToSet(e.static),
               key = <<e.name, s[1]>>
        PROVE  \E i \in 1 .. Len(db_index) : \E k \in 1 .. Len(db_index[i].static) :
                  key = StaticKey(i, k)
    <2>1. PICK i \in 1 .. Len(db_index) : e = db_index[i]
      BY Index DEF ToSet
    <2>2. PICK k \in 1 .. Len(db_index[i].static) : s = db_index[i].static[k]
      <3>1. DOMAIN e.static = 1 .. Len(e.static)
        BY <2>1, Index, Entries
      <3>2. QED  BY <2>1, <3>1 DEF ToSet
    <2>3. QED  BY <1>2, <2>1, <2>2 DEF StaticKey
  <1>3. \A a, b, c, d : <<a, b, c, d>> # key
    BY <1>1
  <1>4. \A a, b, c, d, e, f : <<a, b, c, d, e, f>> # key
    BY <1>1
  <1>5. \E e \in ToSet(db_index) : \E s \in ToSet(e.static) : key = <<e.name, s[1]>>
    <2>. DEFINE Flat == UNION {{<<e.name, s[1]>> : s \in ToSet(e.static)} :
                                 e \in ToSet(db_index)}
                Ps == {<<"runtime", "ps", ThreadName[p], f>> :
                          p \in threads, f \in ToSet(PsFields)}
                Devices == {<<"saul", "devices", d, "class">> :
                               d \in ToSet(DeviceName)}
                Ifaces == UNION {
                  {<<"network", "netif", IfaceName[i], f>> :
                          f \in ToSet(NetifFields) \ {"neighbours"}}
                  \cup {<<"network", "netif", IfaceName[i], "neighbours", a, f>> :
                          a \in ToSet(nib[i]) \ {Free},
                          f \in ToSet(QosFields) \ {"ip"}} :
                  i \in DOMAIN IfaceName}
    <2>1. key \in Flat \cup Ps \cup Devices \cup Ifaces
      <3>1. Keys = Flat \cup (IF "PS" \in Config THEN Ps ELSE {})
                       \cup (IF "SAUL" \in Config THEN Devices ELSE {})
                       \cup (IF "NETWORK" \in Config THEN Ifaces ELSE {})
        BY SMT DEF Keys
      <3>. HIDE DEF Flat, Ps, Devices, Ifaces
      <3>2. QED  BY <1>1, <3>1
    <2>2. key \notin Ps
      BY <1>3
    <2>3. key \notin Devices
      BY <1>3
    <2>4. key \notin Ifaces
      BY <1>3, <1>4
    <2>5. key \in Flat
      BY <2>1, <2>2, <2>3, <2>4
    <2>6. QED  BY <2>5
  <1>6. QED  BY <1>2, <1>5

\* A query of one of the static entries below /board, /runtime, /network and
\* /saul is answered with its value: whatever ran before, whatever the handler
\* of the CoAP server does in between, and however the counters stand.
THEOREM StaticCorrect ==
    Spec => []StaticAnswered
  <1>1. Init => StaticInv
    <2>1. ASSUME Init, NEW i \in 1 .. Len(db_index),
                 NEW k \in 1 .. Len(db_index[i].static), NEW t \in Tasks
          PROVE  Locates(task[t], i, k)
      <3>1. task[t].path = <<>>
        BY <2>1 DEF Init, Idle
      <3>2. StaticKey(i, k) # <<>>
        BY DEF StaticKey
      <3>3. QED  BY <3>1, <3>2 DEF Locates
    <2>2. QED  BY <2>1 DEF StaticInv
  <1>2. StaticInv => StaticAnswered
    <2>1. ASSUME StaticInv, NEW t \in Tasks, Answered(t),
                 task[t].path \in StaticKeys
          PROVE  task[t].res = <<"value", task[t].path>>
      <3>1. PICK i \in 1 .. Len(db_index) :
              \E k \in 1 .. Len(db_index[i].static) : task[t].path = StaticKey(i, k)
        BY <2>1, StaticKeysAre
      <3>. PICK k \in 1 .. Len(db_index[i].static) : task[t].path = StaticKey(i, k)
        BY <3>1
      <3>2. Locates(task[t], i, k)
        BY <2>1 DEF StaticInv
      <3>3. task[t].pc = "idle"
        BY <2>1 DEF Answered
      <3>4. ~OnTheWay(task[t], i, k)
        BY <3>3 DEF OnTheWay
      <3>5. QED  BY <3>1, <3>2, <3>4 DEF Locates
    <2>2. QED  BY <2>1 DEF StaticAnswered
  <1>3. Spec => []ShapeInv
    BY ShapeInit, ShapeStep, PTL DEF Spec
  <1>4. QED  BY <1>1, <1>2, <1>3, StaticStep, PTL DEF Spec

-----------------------------------------------------------------------------
(* The counters of one reader.                                             *)

\* Only one of the two threads is given commands.
OneReader == \E t \in Tasks : \A u \in Tasks \ {t} : Requests[u] = {}

\* The stack of a query or a listing.  The counter of the QoS fields is 1 as long
\* as there is a node above the neighbours on it.
Single(st, pc, cur) ==
    /\ Len(st) <= 2 /\ (pc = "type" => Len(st) = 1)
    /\ (\E i \in 1 .. Len(st) : High(st[i])) => cur.sub = 1
    /\ Len(st) = 2 /\ Low(st[1]) => ~High(st[2])

\* The first n nodes on the stack of a dump.  A node of netif.c lies below
\* another, or it is the root of the subtree.
Family(st, n) ==
    /\ ~OfNetif(st[1])
    /\ \A j \in 2 .. n : OfNetif(st[j]) /\ st[j].is_root # 4 =>
                            OfNetif(st[j - 1]) /\ st[j - 1].is_root # 3

\* The node enumerated is not one of a neighbour...
Above(st, n, pc, cur) ==
    /\ \A j \in 1 .. n - 1 : ~Low(st[j])
    /\ (\E j \in 1 .. n : OfNetif(st[j])) => cur.sub = 1
    /\ Low(st[n]) => pc = "list" /\ cur.field = 4

\* ...it is the folder of the neighbours, before the fields of one of them or
\* after them...
AtFolder(st, n, pc, cur) ==
    /\ n >= 3 /\ \A j \in 1 .. n - 2 : ~Low(st[j])
    /\ OfNetif(st[n - 1]) /\ st[n - 1].is_root = 1
    /\ cur.field = 4 /\ cur.num > 0
    /\ \/ pc = "list" /\ cur.sub = 5
       \/ /\ pc \in {"show", "type"} /\ cur.sub = 2
          /\ OfNetif(st[n]) /\ st[n].is_root = 1

\* ...or a neighbour, before its fields or among them.
AtFields(st, n, pc, cur) ==
    /\ n >= 4 /\ \A j \in 1 .. n - 3 : ~Low(st[j])
    /\ OfNetif(st[n - 2]) /\ st[n - 2].is_root = 1
    /\ OfNetif(st[n - 1])
    /\ cur.field = 4 /\ cur.num > 0
    /\ \/ pc = "list" /\ cur.sub = 2 /\ st[n - 1].is_root = 1
       \/ /\ pc \in {"list", "show", "type", "print", "assert", "read"}
          /\ cur.sub \in 2 .. 4 /\ st[n - 1].is_root = 0
          /\ OfNetif(st[n]) /\ st[n].is_root = 0

Dumping(st, n, pc, cur) ==
    /\ Family(st, n)
    /\ Above(st, n, pc, cur) \/ AtFolder(st, n, pc, cur) \/ AtFields(st, n, pc, cur)

\* Where the node enumerated is outside netif.c.
LEMMA DumpOutside ==
    ASSUME NEW n \in Nat, n >= 2, NEW st, NEW cur \in CursorSet,
           Dumping(st, n, "list", cur), ~OfNetif(st[n - 1]),
           NEW s, OutsideNetif(s, st[n], cur), ~OfNetif(s.node),
           NEW sq, \A i \in 1 .. n - 2 : sq[i] = st[i],
           sq[n - 1] = s.node, sq[n] = s.child
    PROVE  /\ Dumping(sq, n, "show", s.cursor)
           /\ Dumping(sq, n - 1, "list", s.cursor)
  <1>1. Above(st, n, "list", cur) /\ Family(st, n)
    BY DEF Dumping, AtFolder, AtFields
  <1>2. PICK m \in Nat : m = n - 1 /\ m >= 1
    OBVIOUS
  <1>3. /\ s.child = st[n] \/ ~OfNetif(s.child)
             \/ (s.child.is_root = 4 /\ s.cursor.sub = 1)
        /\ s.cursor.sub = cur.sub \/ s.cursor.sub = 1
    BY DEF OutsideNetif
  <1>4. OfNetif(s.child) => s.child.is_root = 4
    <2>1. n \in 2 .. n
      OBVIOUS
    <2>2. OfNetif(st[n]) => st[n].is_root = 4
      BY <1>1, <2>1 DEF Family
    <2>3. QED  BY <1>3, <2>2
  <1>5. Family(sq, n)
    BY <1>1, <1>4 DEF Family
  <1>6. \A j \in 1 .. n - 1 : ~Low(sq[j])
    BY <1>1 DEF Above, Low
  <1>7. (\E j \in 1 .. n : OfNetif(sq[j])) => s.cursor.sub = 1
    BY <1>1, <1>3 DEF Above
  <1>8. ~Low(sq[n])
    BY <1>4 DEF Low
  <1>9. Above(sq, n, "show", s.cursor)
    BY <1>6, <1>7, <1>8 DEF Above
  <1>10. Above(sq, n - 1, "list", s.cursor)
    BY <1>6, <1>7 DEF Above, Low
  <1>11. Family(sq, n - 1)
    BY <1>5 DEF Family
  <1>12. QED  BY <1>5, <1>9, <1>10, <1>11 DEF Dumping

\* Where it is one of netif.c above the neighbours: the listing of them begins,
\* or it stays above.
LEMMA DumpAbove ==
    ASSUME NEW n \in Nat, n >= 2, NEW st, st[n - 1] \in WrittenNodes,
           NEW cur \in CursorSet, InTables(cur),
           Dumping(st, n, "list", cur), High(st[n - 1]),
           NEW s, s = NextChild(st[n - 1], st[n], cur, cur),
           NEW sq, \A i \in 1 .. n - 2 : sq[i] = st[i],
           sq[n - 1] = s.node, sq[n] = s.child
    PROVE  /\ InTables(s.cursor)
           /\ s.child # NullNode => Dumping(sq, n, "show", s.cursor)
           /\ s.child = NullNode => Dumping(sq, n - 1, "list", s.cursor)
  <1>1. PICK e, c : e = st[n - 1] /\ c = st[n] /\ e \in WrittenNodes
    OBVIOUS
  <1>2. OfNetif(e) /\ e.is_root \in 2 .. 4 /\ ~Low(e)
    BY <1>1 DEF High, Low
  <1>3. Above(st, n, "list", cur) /\ Family(st, n)
    BY <1>1, <1>2 DEF Dumping, AtFolder, AtFields
  <1>4. cur.sub = 1 /\ n >= 3
    <2>1. n - 1 \in 1 .. n /\ n - 1 \in 1 .. n - 1
      OBVIOUS
    <2>2. cur.sub = 1
      BY <1>1, <1>2, <1>3, <2>1 DEF Above
    <2>3. n - 1 # 1
      BY <1>1, <1>2, <1>3 DEF Family
    <2>4. QED  BY <2>2, <2>3
  <1>5. /\ e.is_root # 4 => OfNetif(st[n - 2]) /\ st[n - 2].is_root # 3
        /\ OfNetif(c) /\ c.is_root # 4 => e.is_root # 3
        /\ Low(c) => cur.field = 4
    <2>1. n - 1 \in 2 .. n /\ n \in 2 .. n /\ (n - 1) - 1 = n - 2
      BY <1>4
    <2>2. QED  BY <1>1, <1>2, <1>3, <2>1 DEF Family, Above
  <1>6. /\ \A j \in 1 .. n - 2 : ~Low(sq[j])
        /\ Family(sq, n - 2)
    BY <1>3, <1>4 DEF Family, Above
  <1>7. ASSUME OfNetif(s.node), s.node.is_root # 4 => e.is_root # 4
        PROVE  /\ Family(sq, n - 1)
               /\ ~OfNetif(s.child) \/ s.child.is_root = 4 \/ s.node.is_root # 3
                     => Family(sq, n)
    <2>1. sq[n - 2] = st[n - 2]
      BY <1>4
    <2>2. OfNetif(sq[n - 1]) /\ sq[n - 1].is_root # 4 =>
             OfNetif(sq[n - 2]) /\ sq[n - 2].is_root # 3
      BY <1>5, <1>7, <2>1
    <2>3. \A j \in 2 .. n : j \in 2 .. n - 2 \/ j = n - 1 \/ j = n
      OBVIOUS
    <2>4. (n - 1) - 1 = n - 2
      OBVIOUS
    <2>5. Family(sq, n - 1)
      <3>1. \A j \in 2 .. n - 1 : j \in 2 .. n - 2 \/ j = n - 1
        OBVIOUS
      <3>2. QED  BY <1>6, <2>2, <2>4, <3>1 DEF Family
    <2>6. ASSUME ~OfNetif(s.child) \/ s.child.is_root = 4 \/ s.node.is_root # 3
          PROVE  Family(sq, n)
      <3>1. \A j \in 2 .. n : j \in 2 .. n - 1 \/ j = n
        OBVIOUS
      <3>2. QED  BY <1>7, <2>5, <2>6, <3>1 DEF Family
    <2>7. QED  BY <2>5, <2>6
  <1>8. InTables(s.cursor)
    BY <1>1, <1>4, HighCounts
  <1>9. CASE /\ e.is_root = 2 /\ cur.field = 4
             /\ s.cursor.sub = 2 /\ s.cursor.field = 4 /\ s.cursor.num > 0
             /\ OfNetif(s.node) /\ s.node.is_root = 1
             /\ OfNetif(s.child) /\ s.child.is_root = 1
    <2>1. AtFolder(sq, n, "show", s.cursor)
      BY <1>4, <1>6, <1>9 DEF AtFolder
    <2>2. Family(sq, n)
      BY <1>7, <1>9
    <2>3. s.child # NullNode
      BY <1>9 DEF OfNetif, NullNode
    <2>4. QED  BY <1>8, <2>1, <2>2, <2>3 DEF Dumping
  <1>10. CASE /\ s.cursor.sub = 1 /\ High(s.node)
              /\ s.node.is_root \in {e.is_root, 2}
              /\ e.is_root = 4 => s.node.is_root = 4
              /\ \/ s.child = NullNode
                 \/ High(s.child) /\ s.child.is_root # 4 /\ s.node.is_root # 3
                 \/ /\ s.child = c /\ s.node = e /\ e.is_root # 4
                    /\ e.is_root = 2 => cur.field < 4
    <2>1. OfNetif(s.node) /\ ~Low(s.node) /\ (s.node.is_root # 4 => e.is_root # 4)
      BY <1>10 DEF High, Low
    <2>2. \A j \in 1 .. n - 1 : ~Low(sq[j])
      <3>1. \A j \in 1 .. n - 1 : j \in 1 .. n - 2 \/ j = n - 1
        OBVIOUS
      <3>2. QED  BY <1>6, <2>1, <3>1
    <2>3. Above(sq, n - 1, "list", s.cursor) /\ Family(sq, n - 1)
      <3>1. Family(sq, n - 1)
        BY <1>7, <2>1
      <3>2. \A j \in 1 .. (n - 1) - 1 : ~Low(sq[j])
        BY <1>6
      <3>3. QED  BY <1>10, <2>1, <3>1, <3>2 DEF Above
    <2>4. ASSUME s.child # NullNode
          PROVE  ~Low(s.child) /\ Family(sq, n)
      <3>1. CASE High(s.child) /\ s.child.is_root # 4 /\ s.node.is_root # 3
        BY <1>7, <2>1, <3>1 DEF High, Low
      <3>2. CASE /\ s.child = c /\ s.node = e /\ e.is_root # 4
                 /\ e.is_root = 2 => cur.field < 4
        <4>1. ~Low(c)
          <5>1. Low(c) => OfNetif(c) /\ c.is_root # 4 /\ cur.field = 4
            BY <1>5 DEF Low
          <5>2. Low(c) => e.is_root = 2
            BY <1>2, <1>5, <3>2, <5>1
          <5>3. cur.field \in 0 .. 4
            BY DEF InTables
          <5>4. QED  BY <3>2, <5>1, <5>2, <5>3
        <4>2. ~OfNetif(c) \/ c.is_root = 4 \/ e.is_root # 3
          BY <1>5
        <4>3. QED  BY <1>7, <2>1, <3>2, <4>1, <4>2
      <3>3. QED  BY <1>10, <2>4, <3>1, <3>2
    <2>5. s.child # NullNode => Above(sq, n, "show", s.cursor)
      BY <1>10, <2>2, <2>4 DEF Above
    <2>6. QED  BY <1>8, <2>3, <2>4, <2>5 DEF Dumping
  <1>11. QED  BY <1>1, <1>4, <1>9, <1>10, HighCounts

\* Replacing the last two nodes keeps the family, if the new ones belong there.
LEMMA FamilyKept ==
    ASSUME NEW n \in Nat, n >= 3, NEW st, Family(st, n), OfNetif(st[n - 1]),
           st[n - 1].is_root # 4,
           NEW sq, \A i \in 1 .. n - 2 : sq[i] = st[i],
           OfNetif(sq[n - 1]), sq[n - 1].is_root # 3
    PROVE  Family(sq, n - 1) /\ Family(sq, n) /\ OfNetif(sq[n - 2])
  <1>1. OfNetif(st[n - 2]) /\ st[n - 2].is_root # 3 /\ sq[n - 2] = st[n - 2]
    <2>1. n - 1 \in 2 .. n /\ (n - 1) - 1 = n - 2 /\ n - 2 \in 1 .. n - 2
      OBVIOUS
    <2>2. QED  BY <2>1 DEF Family
  <1>2. Family(sq, n - 2)
    BY DEF Family
  <1>3. Family(sq, n - 1)
    <2>1. \A j \in 2 .. n - 1 : j \in 2 .. n - 2 \/ (j = n - 1 /\ j - 1 = n - 2)
      OBVIOUS
    <2>2. QED  BY <1>1, <1>2, <2>1 DEF Family
  <1>4. Family(sq, n)
    <2>1. \A j \in 2 .. n : j \in 2 .. n - 1 \/ j = n
      OBVIOUS
    <2>2. QED  BY <1>3, <2>1 DEF Family
  <1>5. QED  BY <1>1, <1>3, <1>4

\* Among the neighbours the listing goes from field to field and from neighbour
\* to neighbour, and leaves the counter of the QoS fields at 1.
LEMMA DumpNeighbours ==
    ASSUME NEW n \in Nat, NEW st, st[n - 1] \in WrittenNodes,
           NEW cur \in CursorSet, InTables(cur), Family(st, n),
           AtFolder(st, n, "list", cur) \/ AtFields(st, n, "list", cur),
           NEW s, s = NextChild(st[n - 1], st[n], cur, cur),
           NEW sq, \A i \in 1 .. n - 2 : sq[i] = st[i],
           sq[n - 1] = s.node, sq[n] = s.child
    PROVE  /\ InTables(s.cursor)
           /\ s.child # NullNode => Dumping(sq, n, "show", s.cursor)
           /\ s.child = NullNode => Dumping(sq, n - 1, "list", s.cursor)
  <1>1. PICK e, c : e = st[n - 1] /\ c = st[n] /\ e \in WrittenNodes
    OBVIOUS
  <1>2. /\ n >= 3 /\ OfNetif(e) /\ e.is_root \in {0, 1} /\ Low(e)
        /\ cur.field = 4 /\ cur.num > 0
    BY <1>1 DEF AtFolder, AtFields, Low
  <1>3. InTables(s.cursor)
    BY <1>1, <1>2, LowCounts
  <1>4. \A b : OfNetif(b) => b # NullNode
    BY DEF OfNetif, NullNode
  <1>5. ASSUME OfNetif(s.node), s.node.is_root # 3
        PROVE  Family(sq, n - 1) /\ Family(sq, n)
    BY <1>1, <1>2, <1>5, FamilyKept
  <1>6. CASE AtFolder(st, n, "list", cur)
    <2>1. /\ e.is_root = 1 /\ cur.sub = 5
          /\ \A j \in 1 .. n - 2 : ~Low(sq[j])
      BY <1>1, <1>6 DEF AtFolder
    <2>2. /\ s.cursor.field = 4
          /\ OfNetif(s.node) /\ s.node.is_root = 1
          /\ \/ s.child = NullNode /\ s.cursor.sub = 1
             \/ /\ OfNetif(s.child) /\ s.child.is_root = 1
                /\ s.cursor.sub = 2 /\ s.cursor.num > 0
      BY <1>1, <1>2, <2>1, NeighbourWalk
    <2>3. CASE s.child = NullNode /\ s.cursor.sub = 1
      <3>1. Above(sq, n - 1, "list", s.cursor)
        <4>1. \A j \in 1 .. (n - 1) - 1 : ~Low(sq[j])
          BY <2>1
        <4>2. QED  BY <2>2, <2>3, <4>1 DEF Above
      <3>2. QED  BY <1>3, <1>5, <2>2, <2>3, <3>1 DEF Dumping
    <2>4. CASE /\ OfNetif(s.child) /\ s.child.is_root = 1
               /\ s.cursor.sub = 2 /\ s.cursor.num > 0
      <3>1. AtFolder(sq, n, "show", s.cursor)
        BY <1>2, <2>1, <2>2, <2>4 DEF AtFolder
      <3>2. QED  BY <1>3, <1>4, <1>5, <2>2, <2>4, <3>1 DEF Dumping
    <2>5. QED  BY <2>2, <2>3, <2>4
  <1>7. CASE AtFields(st, n, "list", cur)
    <2>1. /\ n >= 4 /\ \A j \in 1 .. n - 3 : ~Low(sq[j])
          /\ OfNetif(sq[n - 2]) /\ sq[n - 2].is_root = 1
      BY <1>7 DEF AtFields
    <2>2. CASE cur.sub = 2 /\ e.is_root = 1
      <3>1. /\ s.cursor = cur
            /\ OfNetif(s.node) /\ s.node.is_root = 0
            /\ OfNetif(s.child) /\ s.child.is_root = 0
        BY <1>1, <1>2, <2>2, NeighbourWalk
      <3>2. AtFields(sq, n, "show", s.cursor)
        BY <1>2, <2>1, <2>2, <3>1 DEF AtFields
      <3>3. QED  BY <1>3, <1>4, <1>5, <3>1, <3>2 DEF Dumping
    <2>3. CASE /\ cur.sub \in 2 .. 4 /\ e.is_root = 0
               /\ OfNetif(c) /\ c.is_root = 0
      <3>1. /\ s.node = e
            /\ s.child = IF cur.sub < 4 THEN c ELSE NullNode
            /\ s.cursor.sub = cur.sub + 1
            /\ s.cursor.field = 4 /\ s.cursor.num > 0
        BY <1>1, <1>2, <2>3, NeighbourWalk
      <3>2. Family(sq, n - 1) /\ Family(sq, n)
        BY <1>2, <1>5, <2>3, <3>1
      <3>3. CASE cur.sub < 4
        <4>1. s.cursor.sub \in 2 .. 4
          BY <2>3, <3>1, <3>3
        <4>2. AtFields(sq, n, "show", s.cursor)
          BY <1>2, <2>1, <2>3, <3>1, <3>3, <4>1 DEF AtFields
        <4>3. QED  BY <1>3, <1>4, <2>3, <3>1, <3>2, <3>3, <4>2 DEF Dumping
      <3>4. CASE cur.sub = 4
        <4>1. AtFolder(sq, n - 1, "list", s.cursor)
          <5>1. n - 1 >= 3 /\ (n - 1) - 1 = n - 2 /\ (n - 1) - 2 = n - 3
            BY <2>1
          <5>2. QED  BY <2>1, <3>1, <3>4, <5>1 DEF AtFolder
        <4>2. QED  BY <1>3, <3>1, <3>2, <3>4, <4>1 DEF Dumping
      <3>5. QED  BY <2>3, <3>3, <3>4
    <2>4. QED  BY <1>1, <1>7, <2>2, <2>3 DEF AtFields
  <1>8. QED  BY <1>6, <1>7

\* So a step of a complete listing keeps the counters in their tables.
LEMMA DumpStep ==
    ASSUME threads \subseteq 1 .. PidLast,
           NEW n \in Nat, n >= 2, NEW st, st[n - 1] \in WrittenNodes,
           NEW cur \in CursorSet, InTables(cur), Dumping(st, n, "list", cur),
           NEW s, s = NextChild(st[n - 1], st[n], cur, cur),
           NEW sq, \A i \in 1 .. n - 2 : sq[i] = st[i],
           sq[n - 1] = s.node, sq[n] = s.child
    PROVE  /\ InTables(s.cursor)
           /\ s.child # NullNode => Dumping(sq, n, "show", s.cursor)
           /\ s.child = NullNode => Dumping(sq, n - 1, "list", s.cursor)
  <1>1. PICK e, c : e = st[n - 1] /\ c = st[n] /\ e \in WrittenNodes
    OBVIOUS
  <1>2. CASE ~OfNetif(e)
    <2>1. OutsideNetif(s, c, cur)
      BY <1>1, <1>2, OutsideCounts
    <2>2. ~OfNetif(s.node)
      BY <1>1, <1>2, NextChildReturns DEF Returns, OfNetif
    <2>3. InTables(s.cursor)
      BY <2>1 DEF OutsideNetif
    <2>4. QED  BY <1>1, <1>2, <2>1, <2>2, <2>3, DumpOutside
  <1>3. CASE High(e)
    BY <1>1, <1>3, DumpAbove
  <1>4. CASE Low(e)
    <2>1. ~Above(st, n, "list", cur)
      <3>1. n - 1 \in 1 .. n - 1
        OBVIOUS
      <3>2. QED  BY <1>1, <1>4, <3>1 DEF Above
    <2>2. Family(st, n) /\ (AtFolder(st, n, "list", cur) \/ AtFields(st, n, "list", cur))
      BY <2>1 DEF Dumping
    <2>3. QED  BY <1>1, <2>2, DumpNeighbours
  <1>5. OfNetif(e) => High(e) \/ Low(e)
    BY <1>1, Kinds, NetifIs DEF OfNetif, High, Low
  <1>6. QED  BY <1>2, <1>3, <1>4, <1>5

\* Only the nodes on the stack matter.
LEMMA DumpSame ==
    ASSUME NEW n \in Nat, n >= 1, NEW st, NEW pc, NEW cur, Dumping(st, n, pc, cur),
           NEW sq, \A i \in 1 .. n : sq[i] = st[i]
    PROVE  Dumping(sq, n, pc, cur)
  <1>1. Family(sq, n)
    BY DEF Dumping, Family
  <1>2. Above(st, n, pc, cur) => Above(sq, n, pc, cur)
    BY DEF Above
  <1>3. AtFolder(st, n, pc, cur) => AtFolder(sq, n, pc, cur)
    BY DEF AtFolder
  <1>4. AtFields(st, n, pc, cur) => AtFields(sq, n, pc, cur)
    BY DEF AtFields
  <1>5. QED  BY <1>1, <1>2, <1>3, <1>4 DEF Dumping

\* A dump reads a value: the fields of a neighbour at once, and where it counts
\* neighbours it is above them.
LEMMA DumpReads ==
    ASSUME NEW n \in Nat, NEW st, NEW pc \in Reading, NEW cur,
           Dumping(st, n, pc, cur), NEW to \in Reading \cup {"list"},
           NEW now, now.sub = cur.sub, now.field = cur.field,
           \/ now = cur /\ to \in {"list", "assert", "read"}
           \/ cur.field # 4
           \/ pc \in {"count", "add"}
    PROVE  Dumping(st, n, to, now)
  <1>1. CASE Above(st, n, pc, cur)
    BY <1>1 DEF Dumping, Above, Reading
  <1>2. ~AtFolder(st, n, pc, cur)
    BY DEF AtFolder, Reading
  <1>3. CASE AtFields(st, n, pc, cur)
    <2>1. pc \notin {"count", "add"} /\ cur.field = 4
      BY <1>3 DEF AtFields
    <2>2. now = cur /\ to \in {"list", "assert", "read"}
      BY <2>1
    <2>3. pc # "list"
      BY DEF Reading
    <2>4. AtFields(st, n, to, now)
      BY <1>3, <2>2, <2>3 DEF AtFields
    <2>5. QED  BY <2>4 DEF Dumping
  <1>4. QED  BY <1>1, <1>2, <1>3 DEF Dumping

\* It shows a name and asks for the type.
LEMMA DumpShows ==
    ASSUME NEW n \in Nat, NEW st, NEW cur, Dumping(st, n, "show", cur)
    PROVE  Dumping(st, n, "type", cur)
  BY DEF Dumping, Above, AtFolder, AtFields

\* The type sends it below a folder, never below a field of a neighbour.
LEMMA DumpTypes ==
    ASSUME NEW n \in Nat, n >= 1, NEW st, Dumping(st, n, "type", cursor)
    PROVE  /\ GetType(st[n]) # "inner" => Dumping(st, n, "print", cursor)
           /\ GetType(st[n]) = "inner" =>
                 \A sq : (\A i \in 1 .. n : sq[i] = st[i]) /\ sq[n + 1] = Uninitialised
                         => Dumping(sq, n + 1, "list", cursor)
  <1>1. ~OfNetif(Uninitialised) /\ ~Low(Uninitialised)
    BY DEF OfNetif, Low, Uninitialised
  <1>2. Family(st, n)
    BY DEF Dumping
  <1>3. ASSUME NEW sq, \A i \in 1 .. n : sq[i] = st[i], sq[n + 1] = Uninitialised
        PROVE  Family(sq, n + 1)
    <2>1. Family(sq, n)
      BY <1>2, <1>3 DEF Family
    <2>2. \A j \in 2 .. n + 1 : j \in 2 .. n \/ j = n + 1
      OBVIOUS
    <2>3. QED  BY <1>1, <1>3, <2>1, <2>2 DEF Family
  <1>4. CASE Above(st, n, "type", cursor)
    <2>1. Above(st, n, "print", cursor)
      BY <1>4 DEF Above
    <2>2. \A j \in 1 .. n : ~Low(st[j])
      <3>1. \A j \in 1 .. n : j \in 1 .. n - 1 \/ j = n
        OBVIOUS
      <3>2. QED  BY <1>4, <3>1 DEF Above
    <2>3. ASSUME NEW sq, \A i \in 1 .. n : sq[i] = st[i], sq[n + 1] = Uninitialised
          PROVE  Above(sq, n + 1, "list", cursor)
      <3>1. \A j \in 1 .. (n + 1) - 1 : ~Low(sq[j])
        BY <2>2, <2>3
      <3>2. \A j \in 1 .. n + 1 : j \in 1 .. n \/ j = n + 1
        OBVIOUS
      <3>3. (\E j \in 1 .. n + 1 : OfNetif(sq[j])) => cursor.sub = 1
        BY <1>1, <1>4, <2>3, <3>2 DEF Above
      <3>4. QED  BY <1>1, <2>3, <3>1, <3>3 DEF Above
    <2>4. QED  BY <1>2, <1>3, <2>1, <2>3 DEF Dumping
  <1>5. CASE AtFolder(st, n, "type", cursor)
    <2>1. /\ n >= 3 /\ \A j \in 1 .. n - 2 : ~Low(st[j])
          /\ OfNetif(st[n - 1]) /\ st[n - 1].is_root = 1
          /\ OfNetif(st[n]) /\ st[n].is_root = 1
          /\ cursor.field = 4 /\ cursor.num > 0 /\ cursor.sub = 2
      BY <1>5 DEF AtFolder
    <2>2. GetType(st[n]) = "inner"
      BY <2>1 DEF GetType, NetifType, OfNetif
    <2>3. ASSUME NEW sq, \A i \in 1 .. n : sq[i] = st[i], sq[n + 1] = Uninitialised
          PROVE  AtFields(sq, n + 1, "list", cursor)
      <3>1. PICK m : m = n + 1 /\ m >= 4 /\ m - 1 = n /\ m - 2 = n - 1 /\ m - 3 = n - 2
        BY <2>1
      <3>2. sq[m - 1] = st[n] /\ sq[m - 2] = st[n - 1]
        BY <2>1, <2>3, <3>1
      <3>3. \A j \in 1 .. m - 3 : ~Low(sq[j])
        BY <2>1, <2>3, <3>1
      <3>4. QED  BY <2>1, <3>1, <3>2, <3>3 DEF AtFields
    <2>4. QED  BY <1>3, <2>2, <2>3 DEF Dumping
  <1>6. CASE AtFields(st, n, "type", cursor)
    <2>1. /\ OfNetif(st[n]) /\ st[n].is_root = 0
          /\ cursor.field = 4 /\ cursor.sub \in 2 .. 4
      BY <1>6 DEF AtFields
    <2>2. GetType(st[n]) = "float"
      BY <2>1 DEF GetType, NetifType, OfNetif
    <2>3. AtFields(st, n, "print", cursor)
      BY <1>6 DEF AtFields
    <2>4. QED  BY <1>2, <2>2, <2>3 DEF Dumping
  <1>7. QED  BY <1>4, <1>5, <1>6 DEF Dumping

\* A query or a listing: the enumeration returns nodes and counters that fit.
LEMMA SingleStep ==
    ASSUME threads \subseteq 1 .. PidLast,
           NEW n \in WrittenNodes, NEW c, NEW cur \in CursorSet, InTables(cur),
           NEW pc, Single(<<n, c>>, pc, cur),
           NEW s, s = NextChild(n, c, cur, cur), NEW to, to # "type"
    PROVE  InTables(s.cursor) /\ Single(<<s.node, s.child>>, to, s.cursor)
  <1>1. /\ \A a, b : Len(<<a, b>>) = 2 /\ <<a, b>>[1] = a /\ <<a, b>>[2] = b
        /\ \A i \in 1 .. 2 : i = 1 \/ i = 2
    OBVIOUS
  <1>2. /\ High(n) \/ High(c) => cur.sub = 1
        /\ Low(n) => ~High(c)
    BY <1>1 DEF Single
  <1>3. ASSUME High(s.node) \/ High(s.child) => s.cursor.sub = 1,
               Low(s.node) => ~High(s.child)
        PROVE  Single(<<s.node, s.child>>, to, s.cursor)
    BY <1>1, <1>3 DEF Single
  <1>4. ~High(NullNode)
    BY DEF High, OfNetif, NullNode
  <1>5. CASE ~OfNetif(n)
    <2>1. OutsideNetif(s, c, cur)
      BY <1>5, OutsideCounts
    <2>2. ~OfNetif(s.node)
      BY <1>5, NextChildReturns DEF Returns, OfNetif
    <2>3. QED  BY <1>2, <1>3, <2>1, <2>2 DEF OutsideNetif, High, Low
  <1>6. CASE High(n)
    <2>1. cur.sub = 1
      BY <1>2, <1>6
    <2>2. InTables(s.cursor)
      BY <1>6, <2>1, HighCounts
    <2>3. CASE /\ OfNetif(s.node) /\ s.node.is_root = 1
               /\ OfNetif(s.child) /\ s.child.is_root = 1
      BY <1>3, <2>2, <2>3 DEF High
    <2>4. CASE s.cursor.sub = 1 /\ High(s.node)
      <3>1. ~Low(s.node)
        BY <2>4 DEF High, Low
      <3>2. QED  BY <1>3, <2>2, <2>4, <3>1
    <2>5. QED  BY <1>6, <2>1, <2>3, <2>4, HighCounts
  <1>7. CASE Low(n)
    <2>1. /\ InTables(s.cursor) /\ Low(s.node)
          /\ s.child = c \/ s.child = NullNode \/ Low(s.child)
      BY <1>7, LowCounts
    <2>2. ~High(s.node) /\ ~High(s.child)
      BY <1>2, <1>4, <1>7, <2>1 DEF High, Low
    <2>3. QED  BY <1>3, <2>1, <2>2
  <1>8. OfNetif(n) => High(n) \/ Low(n)
    BY Kinds, NetifIs DEF OfNetif, High, Low
  <1>9. QED  BY <1>5, <1>6, <1>7, <1>8

\* What holds of a reader and the counters, and of the other tasks.
Fits(r, cur) ==
    r.pc # "idle" =>
        IF r.cmd = "dcadump" THEN Dumping(r.stack, Len(r.stack), r.pc, cur)
        ELSE Single(r.stack, r.pc, cur)

CountersInv ==
    /\ InTables(cursor)
    /\ \A t \in Tasks : /\ task[t].seen = <<>> /\ Fits(task[t], cursor)
                        /\ Requests[t] = {} => task[t].pc = "idle"

\* A step of the reader t keeps that.
Goes(t) ==
    /\ InTables(cursor')
    /\ \E q : Update(t, q) /\ q.seen = <<>> /\ Fits(q, cursor')

LEMMA FinishedFits ==
    ASSUME NEW r, NEW res, NEW cur
    PROVE  Finished(r, res).seen = <<>> /\ Fits(Finished(r, res), cur)
  BY DEF Finished, Idle, Fits

\* What the step works with.
LEMMA Reader ==
    ASSUME ShapeInv, CountersInv, NEW t \in Tasks, task[t].pc # "idle"
    PROVE  LET r == task[t]
               n == Len(r.stack)
           IN  /\ DOMAIN r = TaskFields /\ r.seen = <<>> /\ n \in Nat
               /\ r.cmd = "dcadump" => Dumping(r.stack, n, r.pc, cursor)
               /\ r.cmd # "dcadump" => Single(r.stack, r.pc, cursor)
               /\ r.stack \in Seq(NodeSet) /\ InTables(cursor)
  BY DEF ShapeInv, Shape, CountersInv, Fits

LEMMA RequestGoes ==
    ASSUME ShapeInv, CountersInv, NEW t \in Tasks, Request(t)
    PROVE  Goes(t)
  <1>1. PICK q, r, short :
          /\ q \in Requests[t]
          /\ r = [Idle EXCEPT !.cmd = q.cmd, !.path = q.path, !.todo = q.path]
          /\ Update(t, CASE q.cmd = "get" /\ q.path = <<>> /\ short ->
                                     Finished(r, <<"enoent">>)
                         [] q.cmd = "dcadump" ->
                                     [r EXCEPT !.pc = "show", !.stack = <<Root>>]
                         [] q.cmd # "dcadump" /\ q.path # <<>> ->
                                     [r EXCEPT !.pc = "lookup",
                                               !.stack = <<Root, Uninitialised>>]
                         [] OTHER -> [r EXCEPT !.pc = "type", !.stack = <<Root>>])
    BY DEF Request
  <1>2. cursor' = cursor /\ InTables(cursor')
    BY DEF Request, db, CountersInv
  <1>3. DOMAIN r = TaskFields /\ r.cmd = q.cmd /\ r.seen = <<>>
    BY <1>1 DEF Idle, TaskFields
  <1>4. /\ ~OfNetif(Root) /\ ~OfNetif(Uninitialised)
    BY DEF OfNetif, Root, RootNode, Uninitialised
  <1>5. ASSUME q.cmd = "dcadump"
        PROVE  /\ [r EXCEPT !.pc = "show", !.stack = <<Root>>].seen = <<>>
               /\ Fits([r EXCEPT !.pc = "show", !.stack = <<Root>>], cursor')
    <2>1. PICK x : x = [r EXCEPT !.pc = "show", !.stack = <<Root>>]
      OBVIOUS
    <2>2. x.pc = "show" /\ x.stack = <<Root>> /\ x.seen = <<>> /\ x.cmd = "dcadump"
      BY <1>3, <1>5, <2>1 DEF TaskFields
    <2>3. Len(<<Root>>) = 1 /\ <<Root>>[1] = Root
      OBVIOUS
    <2>4. Dumping(<<Root>>, 1, "show", cursor)
      BY <1>4, <2>3 DEF Dumping, Family, Above, Low
    <2>5. QED  BY <1>2, <2>1, <2>2, <2>3, <2>4 DEF Fits
  <1>6. ASSUME q.cmd # "dcadump"
        PROVE  /\ [r EXCEPT !.pc = "type", !.stack = <<Root>>].seen = <<>>
               /\ Fits([r EXCEPT !.pc = "type", !.stack = <<Root>>], cursor')
    <2>1. PICK x : x = [r EXCEPT !.pc = "type", !.stack = <<Root>>]
      OBVIOUS
    <2>2. x.pc = "type" /\ x.stack = <<Root>> /\ x.seen = <<>> /\ x.cmd # "dcadump"
      BY <1>3, <1>6, <2>1 DEF TaskFields
    <2>3. Len(<<Root>>) = 1 /\ <<Root>>[1] = Root
      OBVIOUS
    <2>4. Single(<<Root>>, "type", cursor)
      BY <1>4, <2>3 DEF Single, High
    <2>5. QED  BY <1>2, <2>1, <2>2, <2>4 DEF Fits
  <1>7. ASSUME q.cmd # "dcadump"
        PROVE  LET x == [r EXCEPT !.pc = "lookup", !.stack = <<Root, Uninitialised>>]
               IN  x.seen = <<>> /\ Fits(x, cursor')
    <2>1. PICK x : x = [r EXCEPT !.pc = "lookup", !.stack = <<Root, Uninitialised>>]
      OBVIOUS
    <2>2. /\ x.pc = "lookup" /\ x.stack = <<Root, Uninitialised>>
          /\ x.seen = <<>> /\ x.cmd # "dcadump"
      BY <1>3, <1>7, <2>1 DEF TaskFields
    <2>3. /\ Len(<<Root, Uninitialised>>) = 2
          /\ <<Root, Uninitialised>>[1] = Root
          /\ <<Root, Uninitialised>>[2] = Uninitialised
      OBVIOUS
    <2>4. Single(<<Root, Uninitialised>>, "lookup", cursor)
      BY <1>4, <2>3 DEF Single, High
    <2>5. QED  BY <1>2, <2>1, <2>2, <2>4 DEF Fits
  <1>8. QED  BY <1>1, <1>2, <1>5, <1>6, <1>7, FinishedFits DEF Goes

LEMMA LookupGoes ==
    ASSUME ShapeInv, CountersInv, NEW t \in Tasks, Lookup(t)
    PROVE  Goes(t)
  <1>1. PICK r : r = task[t] /\ Shape(r) /\ r.pc = "lookup"
    BY DEF ShapeInv, Lookup, At
  <1>2. /\ r.cmd # "dcadump" /\ Len(r.stack) = 2 /\ r.seen = <<>>
        /\ Single(r.stack, "lookup", cursor) /\ InTables(cursor)
        /\ r.stack \in Seq(NodeSet)
    <2>1. r.cmd # "dcadump" /\ Len(r.stack) = 2
      BY <1>1 DEF Shape, StackOK
    <2>2. QED  BY <1>1, <2>1, Reader
  <1>3. PICK n, c : /\ n = Node(t) /\ c = Child(t) /\ n \in WrittenNodes
                    /\ r.stack = <<n, c>>
    <2>1. Node(t) \in WrittenNodes
      BY <1>1, TopOfStack
    <2>2. Node(t) = r.stack[1] /\ Child(t) = r.stack[2]
      BY <1>1, <1>2, TopOfStack
    <2>3. QED  BY <1>2, <2>1, <2>2
  <1>4. PICK s : /\ s = NextChild(n, c, cursor, cursor)
                 /\ s \in Outcomes(t)
                 /\ cursor' = s.cursor
                 /\ Update(t, IF s.child = NullNode THEN Finished(r, <<"enoent">>)
                              ELSE [Enumerated(t, s) EXCEPT !.pc = "match"])
    BY <1>1, <1>2, <1>3 DEF Lookup, Outcomes
  <1>5. InTables(s.cursor) /\ Single(<<s.node, s.child>>, "match", s.cursor)
    BY <1>2, <1>3, <1>4, SingleStep DEF ShapeInv
  <1>6. ASSUME s.child # NullNode
        PROVE  LET q == [Enumerated(t, s) EXCEPT !.pc = "match"]
               IN  q.seen = <<>> /\ Fits(q, s.cursor)
    <2>1. PICK e : e = Enumerated(t, s)
      OBVIOUS
    <2>2. Returns(s, n, c)
      BY <1>1, <1>3, <1>4, OutcomesReturn
    <2>3. /\ DOMAIN e = TaskFields /\ e.cmd = r.cmd /\ e.seen = <<>>
          /\ e.stack \in Seq(NodeSet) /\ Len(e.stack) = 2
          /\ e.stack[1] = s.node /\ e.stack[2] = s.child
      BY <1>1, <1>2, <1>3, <2>1, <2>2, EnumeratedStack
    <2>4. e.stack = <<s.node, s.child>>
      BY <2>3
    <2>5. PICK q : q = [e EXCEPT !.pc = "match"]
      OBVIOUS
    <2>6. /\ q.pc = "match" /\ q.cmd # "dcadump" /\ q.seen = <<>>
          /\ q.stack = <<s.node, s.child>>
      BY <1>2, <2>3, <2>4, <2>5 DEF TaskFields
    <2>7. QED  BY <1>5, <2>1, <2>5, <2>6 DEF Fits
  <1>7. QED  BY <1>4, <1>5, <1>6, FinishedFits DEF Goes

LEMMA MatchGoes ==
    ASSUME ShapeInv, CountersInv, NEW t \in Tasks, Match(t)
    PROVE  Goes(t)
  <1>1. PICK r : r = task[t] /\ Shape(r) /\ r.pc = "match"
    BY DEF ShapeInv, Match, At
  <1>2. PICK c : c = Child(t)
    OBVIOUS
  <1>3. /\ r.cmd # "dcadump" /\ Len(r.stack) = 2 /\ r.seen = <<>>
        /\ Single(r.stack, "match", cursor) /\ InTables(cursor)
        /\ DOMAIN r = TaskFields /\ r.stack[2] = c
    <2>1. r.cmd # "dcadump" /\ Len(r.stack) = 2
      BY <1>1 DEF Shape, StackOK
    <2>2. QED  BY <1>1, <1>2, <2>1, Reader, TopOfStack
  <1>4. High(c) => cursor.sub = 1
    <2>1. 2 \in 1 .. 2
      OBVIOUS
    <2>2. QED  BY <1>3, <2>1 DEF Single
  <1>5. cursor' = cursor
    BY DEF Match, db
  <1>6. PICK name, rest :
          \/ Update(t, [r EXCEPT !.pc = "lookup", !.name = name])
          \/ Update(t, [r EXCEPT !.pc = "lookup", !.todo = rest, !.name = name,
                                !.stack = <<c, c>>])
          \/ Update(t, FoundNode(r, c))
    BY <1>1, <1>2 DEF Match
  <1>7. LET q == [r EXCEPT !.pc = "lookup", !.name = name]
        IN  q.seen = <<>> /\ Fits(q, cursor)
    <2>1. PICK q : q = [r EXCEPT !.pc = "lookup", !.name = name]
      OBVIOUS
    <2>2. q.pc = "lookup" /\ q.cmd = r.cmd /\ q.stack = r.stack /\ q.seen = <<>>
      BY <1>3, <2>1 DEF TaskFields
    <2>3. Single(r.stack, "lookup", cursor)
      BY <1>3 DEF Single
    <2>4. QED  BY <1>3, <2>1, <2>2, <2>3 DEF Fits
  <1>8. LET q == [r EXCEPT !.pc = "lookup", !.todo = rest, !.name = name,
                           !.stack = <<c, c>>]
        IN  q.seen = <<>> /\ Fits(q, cursor)
    <2>1. PICK q : q = [r EXCEPT !.pc = "lookup", !.todo = rest, !.name = name,
                                 !.stack = <<c, c>>]
      OBVIOUS
    <2>2. q.pc = "lookup" /\ q.cmd = r.cmd /\ q.stack = <<c, c>> /\ q.seen = <<>>
      BY <1>3, <2>1 DEF TaskFields
    <2>3. Len(<<c, c>>) = 2 /\ \A i \in 1 .. 2 : <<c, c>>[i] = c
      OBVIOUS
    <2>4. Single(<<c, c>>, "lookup", cursor)
      BY <1>4, <2>3 DEF Single, High, Low
    <2>5. QED  BY <1>3, <2>1, <2>2, <2>4 DEF Fits
  <1>9. FoundNode(r, c).seen = <<>> /\ Fits(FoundNode(r, c), cursor)
    <2>1. PICK q : q = FoundNode(r, c)
      OBVIOUS
    <2>2. /\ q.cmd = r.cmd /\ q.stack = <<c>> /\ q.seen = <<>> /\ q.pc # "idle"
      BY <1>3, <2>1 DEF TaskFields, FoundNode
    <2>3. Len(<<c>>) = 1 /\ <<c>>[1] = c
      OBVIOUS
    <2>4. Single(<<c>>, q.pc, cursor)
      BY <1>4, <2>3 DEF Single
    <2>5. QED  BY <1>3, <2>1, <2>2, <2>4 DEF Fits
  <1>10. QED  BY <1>3, <1>5, <1>6, <1>7, <1>8, <1>9 DEF Goes

LEMMA TypeGoes ==
    ASSUME ShapeInv, CountersInv, NEW t \in Tasks, Type(t)
    PROVE  Goes(t)
  <1>1. PICK r : r = task[t] /\ Shape(r) /\ r.pc = "type"
    BY DEF ShapeInv, Type, At
  <1>2. PICK st \in Seq(NodeSet), n \in Nat : st = r.stack /\ n = Len(st)
    BY <1>1 DEF Shape
  <1>3. /\ n >= 1 /\ st[n] = Child(t)
        /\ DOMAIN r = TaskFields /\ r.seen = <<>>
        /\ r.cmd = "dcadump" => Dumping(st, n, "type", cursor)
        /\ r.cmd # "dcadump" => Single(st, "type", cursor)
        /\ InTables(cursor) /\ cursor' = cursor
    <2>1. n >= 1
      BY <1>1, <1>2 DEF Shape, StackOK
    <2>2. cursor' = cursor
      BY DEF Type, db
    <2>3. QED  BY <1>1, <1>2, <2>1, <2>2, Reader, TopOfStack
  <1>4. CASE GetType(Child(t)) = "inner"
    <2>1. PICK q : q = [r EXCEPT !.pc = "list", !.stack = Append(@, Uninitialised)]
      OBVIOUS
    <2>2. Update(t, q)
      BY <1>1, <1>4, <2>1 DEF Type
    <2>3. PICK sq : sq = Append(st, Uninitialised)
      OBVIOUS
    <2>4. q.cmd = r.cmd /\ q.stack = sq /\ q.seen = <<>> /\ q.pc = "list"
      BY <1>2, <1>3, <2>1, <2>3 DEF TaskFields
    <2>5. /\ Len(sq) = n + 1 /\ sq[n + 1] = Uninitialised
          /\ \A i \in 1 .. n : sq[i] = st[i]
      BY <1>2, <2>3
    <2>6. r.cmd = "dcadump" => Dumping(sq, n + 1, "list", cursor)
      BY <1>2, <1>3, <1>4, <2>5, DumpTypes
    <2>7. r.cmd # "dcadump" => Single(sq, "list", cursor)
      <3>1. SUFFICES ASSUME r.cmd # "dcadump"
                     PROVE  Single(sq, "list", cursor)
        OBVIOUS
      <3>2. Single(st, "type", cursor)
        BY <1>3, <3>1
      <3>3. n = 1 /\ 1 \in 1 .. Len(st)
        BY <1>2, <3>2 DEF Single
      <3>4. Len(sq) = 2 /\ sq[2] = Uninitialised /\ sq[1] = st[1]
        BY <2>5, <3>3
      <3>5. High(sq[1]) => cursor.sub = 1
        BY <3>2, <3>3, <3>4 DEF Single
      <3>6. ~High(Uninitialised) /\ \A i \in 1 .. 2 : i = 1 \/ i = 2
        BY DEF High, OfNetif, Uninitialised
      <3>7. QED  BY <3>4, <3>5, <3>6 DEF Single
    <2>8. QED  BY <1>3, <2>2, <2>4, <2>5, <2>6, <2>7 DEF Goes, Fits
  <1>5. CASE GetType(Child(t)) # "inner"
    <2>1. PICK q : q = [r EXCEPT !.pc = "print"]
      OBVIOUS
    <2>2. Update(t, q)
      BY <1>1, <1>5, <2>1 DEF Type
    <2>3. q.cmd = r.cmd /\ q.stack = st /\ q.seen = <<>> /\ q.pc = "print"
      BY <1>2, <1>3, <2>1 DEF TaskFields
    <2>4. r.cmd = "dcadump" => Dumping(st, n, "print", cursor)
      BY <1>2, <1>3, <1>5, DumpTypes
    <2>5. r.cmd # "dcadump" => Single(st, "print", cursor)
      BY <1>3 DEF Single
    <2>6. QED  BY <1>2, <1>3, <2>2, <2>3, <2>4, <2>5 DEF Goes, Fits
  <1>6. QED  BY <1>4, <1>5

LEMMA ShowGoes ==
    ASSUME ShapeInv, CountersInv, NEW t \in Tasks, Show(t)
    PROVE  Goes(t)
  <1>1. PICK r : r = task[t] /\ r.pc = "show"
    BY DEF Show, At
  <1>2. /\ DOMAIN r = TaskFields /\ r.seen = <<>> /\ Len(r.stack) \in Nat
        /\ r.cmd = "dcadump" => Dumping(r.stack, Len(r.stack), "show", cursor)
        /\ r.cmd # "dcadump" => Single(r.stack, "show", cursor)
        /\ InTables(cursor) /\ cursor' = cursor
    <2>1. cursor' = cursor
      BY DEF Show, db
    <2>2. QED  BY <1>1, <2>1, Reader
  <1>3. PICK q, name :
          q = [r EXCEPT !.pc = IF r.cmd = "dcadump" THEN "type" ELSE "list",
                        !.name = name] /\ Update(t, q)
    BY <1>1 DEF Show
  <1>4. /\ q.cmd = r.cmd /\ q.stack = r.stack /\ q.seen = <<>>
        /\ q.pc = IF r.cmd = "dcadump" THEN "type" ELSE "list"
    BY <1>2, <1>3 DEF TaskFields
  <1>5. r.cmd = "dcadump" => Dumping(r.stack, Len(r.stack), "type", cursor)
    BY <1>2, DumpShows
  <1>6. r.cmd # "dcadump" => Single(r.stack, "list", cursor)
    BY <1>2 DEF Single
  <1>7. QED  BY <1>2, <1>3, <1>4, <1>5, <1>6 DEF Goes, Fits

LEMMA ReadingGoes ==
    ASSUME ShapeInv, CountersInv, NEW t \in Tasks,
           \/ ValueToStr(t) \/ CheckType(t) \/ GetValue(t)
           \/ Count(t) \/ Entered(t) \/ Counted(t)
    PROVE  Goes(t)
  <1>1. PICK r : r = task[t] /\ Shape(r) /\ r.pc \in Reading
    BY DEF ShapeInv, ValueToStr, CheckType, GetValue, Count, Entered, Counted, At,
           Reading
  <1>2. PICK st \in Seq(NodeSet), n \in Nat : st = r.stack /\ n = Len(st)
    BY <1>1 DEF Shape
  <1>3. /\ DOMAIN r = TaskFields /\ r.seen = <<>> /\ InTables(cursor)
        /\ r.cmd = "dcadump" => Dumping(st, n, r.pc, cursor)
        /\ r.cmd # "dcadump" => Single(st, r.pc, cursor)
    <2>1. r.pc # "idle"
      BY <1>1 DEF Reading
    <2>2. QED  BY <1>1, <1>2, <2>1, Reader
  <1>4. /\ cursor'.sub = cursor.sub /\ cursor'.field = cursor.field
        /\ InTables(cursor')
    <2>1. \/ cursor' = cursor
          \/ cursor' = [cursor EXCEPT !.num = 0]
          \/ cursor' = [cursor EXCEPT !.num = IncUint8(@)]
      BY DEF ValueToStr, CheckType, GetValue, Count, Entered, Counted, db
    <2>2. cursor \in CursorSet
      BY DEF ShapeInv
    <2>3. QED  BY <1>3, <2>1, <2>2 DEF InTables, CursorSet
  <1>5. PICK q, to, res :
          /\ Update(t, q) /\ to \in {"list", "assert", "read", "count", "add"}
          /\ \/ q = Printed(r, res) /\ to = "list"
             \/ \E type : q = [r EXCEPT !.pc = "assert", !.type = type] /\ to = "assert"
             \/ q = [r EXCEPT !.pc = "read"] /\ to = "read"
             \/ q = [r EXCEPT !.pc = "count"] /\ to = "count"
             \/ \E i, a : q = [r EXCEPT !.pc = "add", !.slot = i, !.nce = a]
                          /\ to = "add"
             \/ q = [r EXCEPT !.pc = "count", !.nce = Free] /\ to = "count"
          /\ \/ cursor' = cursor /\ to \in {"list", "assert", "read"}
             \/ cursor.field # 4
             \/ r.pc \in {"count", "add"}
    <2>1. CASE ValueToStr(t)
      BY <1>1, <2>1 DEF ValueToStr, db
    <2>2. CASE CheckType(t)
      BY <1>1, <2>2 DEF CheckType, db
    <2>3. CASE GetValue(t)
      <3>1. CASE CountsNeighbours(Child(t), r.type)
        <4>1. cursor.field # 4
          BY <3>1 DEF CountsNeighbours
        <4>2. Update(t, [r EXCEPT !.pc = "count"])
          BY <1>1, <2>3, <3>1 DEF GetValue
        <4>3. QED  BY <4>1, <4>2
      <3>2. CASE ~CountsNeighbours(Child(t), r.type)
        <4>1. cursor' = cursor
          BY <1>1, <2>3, <3>2 DEF GetValue
        <4>2. Update(t, Printed(r, <<"value", Datum(Child(t), r.type)>>))
          BY <1>1, <2>3, <3>2 DEF GetValue
        <4>3. QED  BY <4>1, <4>2
      <3>3. QED  BY <3>1, <3>2
    <2>4. CASE Count(t)
      BY <1>1, <2>4 DEF Count, At
    <2>5. CASE Entered(t)
      BY <1>1, <2>5 DEF Entered, CountOn, At
    <2>6. CASE Counted(t)
      BY <1>1, <2>6 DEF Counted, db
    <2>7. QED  BY <2>1, <2>2, <2>3, <2>4, <2>5, <2>6
  <1>6. CASE q = Printed(r, res) /\ r.cmd # "dcadump"
    <2>1. q = Finished(r, res)
      BY <1>6 DEF Printed
    <2>2. QED  BY <1>4, <1>5, <2>1, FinishedFits DEF Goes
  <1>7. CASE ~(q = Printed(r, res) /\ r.cmd # "dcadump")
    <2>1. q.cmd = r.cmd /\ q.stack = st /\ q.seen = <<>> /\ q.pc = to
      BY <1>2, <1>3, <1>5, <1>7 DEF Printed, TaskFields
    <2>2. to \in Reading \cup {"list"}
      BY <1>5 DEF Reading
    <2>3. r.cmd = "dcadump" => Dumping(st, n, to, cursor')
      BY <1>1, <1>2, <1>3, <1>4, <1>5, <2>2, DumpReads
    <2>4. r.cmd # "dcadump" => Single(st, to, cursor')
      BY <1>3, <1>4, <1>5 DEF Single
    <2>5. QED  BY <1>2, <1>4, <1>5, <2>1, <2>3, <2>4 DEF Goes, Fits
  <1>8. QED  BY <1>6, <1>7

LEMMA ListGoes ==
    ASSUME ShapeInv, CountersInv, NEW t \in Tasks, List(t)
    PROVE  Goes(t)
  <1>1. PICK r : r = task[t] /\ Shape(r) /\ r.pc = "list"
    BY DEF ShapeInv, List, At
  <1>2. PICK st \in Seq(NodeSet), n \in Nat : st = r.stack /\ n = Len(st)
    BY <1>1 DEF Shape
  <1>3. /\ n >= 2 /\ Node(t) = st[n - 1] /\ Child(t) = st[n]
        /\ st[n - 1] \in WrittenNodes
    BY <1>1, <1>2, TopOfStack
  <1>4. /\ r.seen = <<>> /\ InTables(cursor) /\ cursor \in CursorSet
        /\ threads \subseteq 1 .. PidLast
        /\ r.cmd = "dcadump" => Dumping(st, n, "list", cursor)
        /\ r.cmd # "dcadump" => Single(st, "list", cursor)
    BY <1>1, <1>2, Reader DEF ShapeInv
  <1>5. PICK s : /\ s = NextChild(st[n - 1], st[n], cursor, cursor)
                 /\ s \in Outcomes(t)
                 /\ cursor' = s.cursor
                 /\ Update(t, IF s.child = NullNode THEN Leave(Enumerated(t, s))
                              ELSE [Enumerated(t, s) EXCEPT !.pc = "show"])
    BY <1>1, <1>3, <1>4 DEF List, Outcomes
  <1>6. PICK e, sq : e = Enumerated(t, s) /\ sq = e.stack
    OBVIOUS
  <1>7. /\ DOMAIN e = TaskFields /\ e.cmd = r.cmd /\ e.seen = <<>> /\ e.pc = "list"
        /\ sq \in Seq(NodeSet) /\ Len(sq) = n
        /\ \A i \in 1 .. n - 2 : sq[i] = st[i]
        /\ sq[n - 1] = s.node /\ sq[n] = s.child
    <2>1. Returns(s, Node(t), Child(t))
      BY <1>1, <1>5, OutcomesReturn
    <2>2. QED  BY <1>1, <1>2, <1>6, <2>1, EnumeratedStack
  <1>8. CASE r.cmd = "dcadump"
    <2>1. /\ InTables(s.cursor)
          /\ s.child # NullNode => Dumping(sq, n, "show", s.cursor)
          /\ s.child = NullNode => Dumping(sq, n - 1, "list", s.cursor)
      <3>1. Dumping(st, n, "list", cursor)
        BY <1>4, <1>8
      <3>2. /\ n \in Nat /\ n >= 2 /\ st[n - 1] \in WrittenNodes
            /\ s = NextChild(st[n - 1], st[n], cursor, cursor)
            /\ \A i \in 1 .. n - 2 : sq[i] = st[i]
            /\ sq[n - 1] = s.node /\ sq[n] = s.child
        BY <1>2, <1>3, <1>5, <1>7
      <3>3. QED  BY <1>4, <3>1, <3>2, DumpStep
    <2>2. CASE s.child # NullNode
      <3>1. PICK q : q = [e EXCEPT !.pc = "show"]
        OBVIOUS
      <3>2. q.pc = "show" /\ q.cmd = r.cmd /\ q.stack = sq /\ q.seen = <<>>
        BY <1>6, <1>7, <3>1 DEF TaskFields
      <3>3. Fits(q, s.cursor)
        BY <1>7, <1>8, <2>1, <2>2, <3>2 DEF Fits
      <3>4. QED  BY <1>5, <1>6, <2>1, <2>2, <3>1, <3>2, <3>3 DEF Goes
    <2>3. CASE s.child = NullNode /\ n = 2
      <3>1. Leave(e) = Finished(e, <<"listed">>)
        BY <1>6, <1>7, <2>3 DEF Leave
      <3>2. QED  BY <1>5, <1>6, <2>1, <2>3, <3>1, FinishedFits DEF Goes
    <2>4. CASE s.child = NullNode /\ n # 2
      <3>1. PICK fq, q : fq = Front(sq) /\ q = [e EXCEPT !.stack = fq]
        OBVIOUS
      <3>2. Leave(e) = q
        BY <1>6, <1>7, <2>4, <3>1 DEF Leave
      <3>3. q.pc = "list" /\ q.cmd = r.cmd /\ q.stack = fq /\ q.seen = <<>>
        BY <1>7, <3>1 DEF TaskFields
      <3>4. PICK m \in Nat : m = n - 1 /\ m >= 1
        BY <1>3
      <3>5. Len(fq) = m /\ \A i \in 1 .. m : fq[i] = sq[i]
        BY <1>7, <3>1, <3>4 DEF Front
      <3>6. Dumping(fq, m, "list", s.cursor)
        BY <2>1, <2>4, <3>4, <3>5, DumpSame
      <3>7. Fits(q, s.cursor)
        BY <1>8, <3>3, <3>5, <3>6 DEF Fits
      <3>8. QED  BY <1>5, <1>6, <2>1, <2>4, <3>2, <3>3, <3>7 DEF Goes
    <2>5. QED  BY <2>2, <2>3, <2>4
  <1>9. CASE r.cmd # "dcadump"
    <2>1. n = 2 /\ st = <<st[1], st[2]>>
      <3>1. n = 2
        <4>1. Single(st, "list", cursor)
          BY <1>4, <1>9
        <4>2. Len(st) <= 2
          BY <4>1 DEF Single
        <4>3. n \in Nat /\ n <= 2 /\ n >= 2
          BY <1>2, <1>3, <4>2
        <4>4. QED  BY <4>3
      <3>2. Len(st) = 2
        BY <1>2, <3>1
      <3>3. QED  BY <1>2, <3>2
    <2>2. PICK a, c : a = st[1] /\ c = st[2] /\ st = <<a, c>>
      BY <2>1
    <2>3. InTables(s.cursor) /\ Single(<<s.node, s.child>>, "show", s.cursor)
      <3>1. a \in WrittenNodes /\ s = NextChild(a, c, cursor, cursor)
        BY <1>3, <1>5, <2>1, <2>2
      <3>2. Single(<<a, c>>, "list", cursor)
        BY <1>4, <1>9, <2>2
      <3>3. QED  BY <1>4, <1>5, <3>1, <3>2, SingleStep
    <2>4. sq = <<s.node, s.child>>
      BY <1>7, <2>1
    <2>5. CASE s.child # NullNode
      <3>1. PICK q : q = [e EXCEPT !.pc = "show"]
        OBVIOUS
      <3>2. q.pc = "show" /\ q.cmd = r.cmd /\ q.stack = sq /\ q.seen = <<>>
        BY <1>6, <1>7, <3>1 DEF TaskFields
      <3>3. Fits(q, s.cursor)
        BY <1>9, <2>3, <2>4, <3>2 DEF Fits
      <3>4. QED  BY <1>5, <1>6, <2>3, <2>5, <3>1, <3>2, <3>3 DEF Goes
    <2>6. CASE s.child = NullNode
      <3>1. Leave(e) = Finished(e, <<"listed">>)
        BY <1>6, <1>7, <2>1 DEF Leave
      <3>2. QED  BY <1>5, <1>6, <2>3, <2>6, <3>1, FinishedFits DEF Goes
    <2>7. QED  BY <2>5, <2>6
  <1>10. QED  BY <1>8, <1>9

LEMMA CountersStep ==
    ASSUME OneReader, ShapeInv, CountersInv, [Next]_vars
    PROVE  CountersInv'
  <1>1. \A t \in Tasks : Shape(task[t]) /\ DOMAIN task = Tasks
    BY DEF ShapeInv
  <1>2. ASSUME NEW t \in Tasks, Requests[t] # {}, Goes(t)
        PROVE  CountersInv'
    <2>1. \A u \in Tasks \ {t} : Requests[u] = {} /\ task[u].pc = "idle"
      BY <1>2 DEF OneReader, CountersInv
    <2>2. PICK q : Update(t, q) /\ q.seen = <<>> /\ Fits(q, cursor')
      BY <1>2 DEF Goes
    <2>3. task'[t] = q /\ \A u \in Tasks \ {t} : task'[u] = task[u]
      BY <1>1, <2>2 DEF Update
    <2>4. \A u \in Tasks \ {t} : Fits(task'[u], cursor') /\ task'[u].seen = <<>>
      BY <2>1, <2>3 DEF Fits, CountersInv
    <2>5. QED  BY <1>2, <2>1, <2>2, <2>3, <2>4 DEF CountersInv, Goes
  <1>3. ASSUME NEW t \in Tasks, Request(t)
        PROVE  CountersInv'
    <2>1. Requests[t] # {}
      BY <1>3 DEF Request
    <2>2. QED  BY <1>2, <1>3, <2>1, RequestGoes
  <1>4. ASSUME NEW t \in Tasks, Call(t) \/ Entered(t), ~Fault(t),
               ~(Add(t) \/ Link(t) \/ Publish(t)) \/ Entered(t)
        PROVE  CountersInv'
    <2>1. task[t].pc # "idle"
      BY <1>4
         DEF Call, Tests, Lookup, Match, Type, List, Show, ValueToStr, CheckType,
             GetValue, Count, Entered, Counted, At
    <2>2. Requests[t] # {} /\ ~Tests(t)
      <3>1. Requests[t] # {}
        BY <2>1 DEF CountersInv
      <3>2. ~Tests(t)
        BY <3>1, QueryAssumption DEF OneReader, Tests, Tasks
      <3>3. QED  BY <3>1, <3>2
    <2>3. Goes(t)
      BY <1>4, <2>2, LookupGoes, MatchGoes, TypeGoes, ListGoes, ShowGoes, ReadingGoes
         DEF Call
    <2>4. QED  BY <1>2, <2>2, <2>3
  <1>5. UNCHANGED <<task, cursor>> => CountersInv'
    BY DEF CountersInv, Fits
  <1>6. ASSUME NEW t \in Tasks, Add(t) \/ Link(t) \/ Publish(t)
        PROVE  CountersInv'
    <2>1. Entered(t) => ~Fault(t)
      BY DEF Entered, Fault, At
    <2>2. QED  BY <1>4, <1>5, <1>6, <2>1, InsertionIs
  <1>7. QED  BY <1>3, <1>4, <1>5, <1>6
             DEF Next, Call, Fault, Halt, Measure, ThreadExit, NibChange, vars, db

\* With one reader the counters of ps.c, saul_devices.c and netif.c stay within
\* the tables of names, for every board, every sequence of queries, listings and
\* dumps, and however the threads and the neighbours change during them: what
\* one command leaves in them is where the next one can start.
THEOREM CountersCorrect ==
    ASSUME OneReader
    PROVE  Spec => []CountersInTables
  <1>1. Init => CountersInv
    <2>1. ASSUME Init
          PROVE  InTables(cursor)
      BY <2>1 DEF Init, CursorInit, InTables
    <2>2. ASSUME Init, NEW t \in Tasks
          PROVE  task[t].seen = <<>> /\ task[t].pc = "idle"
      BY <2>2 DEF Init, Idle
    <2>3. QED  BY <2>1, <2>2 DEF CountersInv, Fits
  <1>2. CountersInv => CountersInTables
    <2>1. Len(PsFields) = 5 /\ Len(NetifFields) = 5 /\ Len(QosFields) = 4
      BY DEF PsFields, NetifFields, QosFields
    <2>2. QED  BY <2>1 DEF CountersInv, CountersInTables, InTables
  <1>3. Spec => []ShapeInv
    BY ShapeInit, ShapeStep, PTL DEF Spec
  <1>4. OneReader /\ ShapeInv /\ CountersInv /\ [Next]_vars => CountersInv'
    BY CountersStep
  <1>5. QED  BY <1>1, <1>2, <1>3, <1>4, OneReader, PTL DEF Spec
===============================================================================
