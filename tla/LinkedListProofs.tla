--------------------------- MODULE LinkedListProofs ---------------------------
(***************************************************************************)
(* Lemmas about the operations on the list of neighbours, for lists of any *)
(* length and entries of any kind that have an address; and, before them,  *)
(* induction over the natural numbers, by which positions are found.       *)
(***************************************************************************)
EXTENDS LinkedList, Integers, FiniteSets, FiniteSetTheorems, WellFoundedInduction,
        TLAPS

-----------------------------------------------------------------------------
(* Induction over the natural numbers, stated with a set in the place of   *)
(* a predicate, so that first-order provers can use it: a statement about  *)
(* every n is proved for the set of the n it holds for.                    *)

\* Every set of natural numbers has a least element: the sets 0 .. n - 1 of its
\* elements n are finite, and strict inclusion of finite sets is well-founded.
LEMMA Least ==
    ASSUME NEW A \in SUBSET Nat, A # {}
    PROVE  \E m \in A : \A k \in A : m <= k
  <1> DEFINE T == {0 .. n - 1 : n \in A}
             R == StrictSubsetOrdering(Nat)
  <1>1. T \subseteq FiniteSubsetsOf(Nat)
    <2>1. \A n \in A : IsFiniteSet(0 .. n - 1)  BY FS_Interval
    <2>2. QED  BY <2>1 DEF FiniteSubsetsOf
  <1>2. T # {}  OBVIOUS
  <1>3. PICK x \in T : \A y \in T : <<y, x>> \notin R
    <2>1. IsWellFoundedOn(R, FiniteSubsetsOf(Nat))
      BY FS_StrictSubsetOrderingWellFounded
    <2> HIDE DEF T, R
    <2>2. QED  BY <1>1, <1>2, <2>1, WFMin
  <1>4. PICK m \in A : x = 0 .. m - 1  OBVIOUS
  <1>5. ASSUME NEW k \in A, k < m  PROVE FALSE
    <2>1. 0 .. k - 1 \in SUBSET x /\ k \in x /\ k \notin 0 .. k - 1
      BY <1>4, <1>5
    <2>2. <<0 .. k - 1, x>> \in R
      BY <2>1, <1>4 DEF StrictSubsetOrdering
    <2>3. QED  BY <1>3, <2>2
  <1>6. QED  BY <1>5

\* What holds for 0, and for n + 1 whenever it does for n, holds for every
\* natural number.
LEMMA Induction ==
    ASSUME NEW S, 0 \in S, \A n \in Nat : n \in S => n + 1 \in S
    PROVE  Nat \subseteq S
  <1> DEFINE A == Nat \ S
  <1>1. SUFFICES ASSUME A # {} PROVE FALSE
    OBVIOUS
  <1>2. PICK m \in A : \A k \in A : m <= k
    BY <1>1, Least
  <1>3. m # 0 /\ m - 1 \in Nat /\ m - 1 \in S
    BY <1>2
  <1>4. QED  BY <1>2, <1>3

-----------------------------------------------------------------------------
(* The operations on the list.                                             *)

\* The first position of a set of positions is in it and before all others.
LEMMA FirstIsLeast ==
    ASSUME NEW S \in SUBSET Nat, S # {}
    PROVE  /\ First(S) \in S
           /\ \A i \in S : First(S) <= i
  BY Least DEF First

\* linked_list_node_exists finds an address if some entry has it.
LEMMA ExistsIff ==
    ASSUME NEW l, NEW a
    PROVE  NodeExists(l, a) <=> \E i \in DOMAIN l : l[i].addr = a
  BY DEF NodeExists, Positions

\* The entry an update stops at is the first that has the address.
LEMMA FirstFound ==
    ASSUME NEW E, NEW l \in Seq(E), NEW a, NodeExists(l, a)
    PROVE  LET k == First(Positions(l, a))
           IN  /\ k \in 1 .. Len(l)
               /\ l[k].addr = a
               /\ \A i \in 1 .. Len(l) : l[i].addr = a => k <= i
  <1>1. Positions(l, a) \in SUBSET Nat /\ Positions(l, a) # {}
    BY DEF NodeExists, Positions
  <1>2. /\ First(Positions(l, a)) \in Positions(l, a)
        /\ \A i \in Positions(l, a) : First(Positions(l, a)) <= i
    BY <1>1, FirstIsLeast
  <1>3. QED  BY <1>2 DEF Positions

\* It is the only position that is such a one.
LEMMA FirstUnique ==
    ASSUME NEW E, NEW l \in Seq(E), NEW a, NEW k \in 1 .. Len(l), l[k].addr = a,
           \A i \in 1 .. Len(l) : l[i].addr = a => k <= i
    PROVE  NodeExists(l, a) /\ First(Positions(l, a)) = k
  <1>1. NodeExists(l, a)  BY ExistsIff
  <1>2. QED  BY <1>1, FirstFound

\* The rest of a sequence, from a position on.
LEMMA RestAt ==
    ASSUME NEW E, NEW s \in Seq(E), NEW j \in 1 .. Len(s) + 1
    PROVE  /\ SubSeq(s, j, Len(s)) \in Seq(E)
           /\ Len(SubSeq(s, j, Len(s))) = Len(s) - j + 1
           /\ \A i \in 1 .. Len(s) - j + 1 :
                 SubSeq(s, j, Len(s))[i] = s[i + j - 1]
  <1>1. Len(s) \in Nat /\ j \in Nat
    OBVIOUS
  <1>2. SubSeq(s, j, Len(s)) \in Seq(E)
    BY <1>1
  <1>3. Len(SubSeq(s, j, Len(s))) = Len(s) - j + 1
    BY <1>1
  <1>4. \A i \in 1 .. Len(s) - j + 1 :
           SubSeq(s, j, Len(s))[i] = s[i + j - 1]
    BY <1>1
  <1>5. QED  BY <1>2, <1>3, <1>4

\* Insertion at the head.
LEMMA InsertedAt ==
    ASSUME NEW E, NEW l \in Seq(E), NEW e \in E
    PROVE  /\ InsertNode(l, e) \in Seq(E)
           /\ Len(InsertNode(l, e)) = Len(l) + 1
           /\ InsertNode(l, e)[1] = e
           /\ \A i \in 1 .. Len(l) : InsertNode(l, e)[i + 1] = l[i]
  BY DEF InsertNode
-----------------------------------------------------------------------------
(* A result is recorded on a list that holds every neighbour once.         *)

Once(l) == \A i, j \in DOMAIN l : l[i].addr = l[j].addr => i = j

\* The neighbour of e becomes the head, or the entry of its neighbour becomes e.
EntryPut(l, e, r) ==
    IF NodeExists(l, e.addr)
    THEN /\ Len(r) = Len(l)
         /\ r[First(Positions(l, e.addr))] = e
         /\ \A i \in 1 .. Len(l) :
              i # First(Positions(l, e.addr)) => r[i] = l[i]
    ELSE r = InsertNode(l, e)

\* Where a neighbour is listed once, its entry is its only position.
LEMMA OnlyPosition ==
    ASSUME NEW E, NEW l \in Seq(E), Once(l), NEW k \in 1 .. Len(l)
    PROVE  Positions(l, l[k].addr) = {k}
  BY DEF Once, Positions

\* The new list holds e and, of the old one, the entries of other neighbours,
\* and nothing else: every neighbour is still there once.
LEMMA EnteredOnce ==
    ASSUME NEW E, NEW l \in Seq(E), NEW r \in Seq(E), NEW e \in E,
           Once(l), EntryPut(l, e, r)
    PROVE  /\ Once(r)
           /\ \E k \in 1 .. Len(r) : r[k] = e
           /\ \A i \in 1 .. Len(r) :
                 r[i] = e \/ \E j \in 1 .. Len(l) : /\ l[j] = r[i]
                                                    /\ l[j].addr # e.addr
           /\ \A j \in 1 .. Len(l) :
                 l[j].addr # e.addr => \E i \in 1 .. Len(r) : r[i] = l[j]
  <1>1. CASE NodeExists(l, e.addr)
    <2>1. PICK k : k = First(Positions(l, e.addr))
      OBVIOUS
    <2>2. k \in 1 .. Len(l) /\ l[k].addr = e.addr
      BY <1>1, <2>1, FirstFound
    <2>3. /\ Len(r) = Len(l)
          /\ r[k] = e
          /\ \A i \in 1 .. Len(l) : i # k => r[i] = l[i]
      BY <1>1, <2>1 DEF EntryPut
    <2>4. \A i \in 1 .. Len(l) : i # k => l[i].addr # e.addr
      BY <2>2 DEF Once
    <2>5. Once(r)
      <3>1. \A i \in 1 .. Len(l) : r[i].addr = l[i].addr
        BY <2>2, <2>3
      <3>2. QED  BY <2>3, <3>1 DEF Once
    <2>6. QED  BY <2>2, <2>3, <2>4, <2>5
  <1>2. CASE ~NodeExists(l, e.addr)
    <2>1. r = InsertNode(l, e)
      BY <1>2 DEF EntryPut
    <2>2. /\ Len(r) = Len(l) + 1
          /\ r[1] = e
          /\ \A i \in 1 .. Len(l) : r[i + 1] = l[i]
      BY <2>1, InsertedAt
    <2>3. \A i \in 1 .. Len(l) : l[i].addr # e.addr
      BY <1>2, ExistsIff
    <2>4. \A i \in 1 .. Len(r) : i = 1 \/ (i - 1 \in 1 .. Len(l) /\ r[i] = l[i - 1])
      BY <2>2
    <2>5. Once(r)
      <3>1. ASSUME NEW i \in 1 .. Len(r), NEW j \in 1 .. Len(r),
                   r[i].addr = r[j].addr
            PROVE  i = j
        <4>1. CASE i = 1 \/ j = 1
          BY <2>2, <2>3, <2>4, <3>1, <4>1
        <4>2. CASE i # 1 /\ j # 1
          <5>1. /\ i - 1 \in 1 .. Len(l) /\ r[i] = l[i - 1]
                /\ j - 1 \in 1 .. Len(l) /\ r[j] = l[j - 1]
            BY <2>4, <4>2
          <5>2. i - 1 = j - 1  BY <3>1, <5>1 DEF Once
          <5>3. QED  BY <5>2
        <4>3. QED  BY <4>1, <4>2
      <3>2. QED  BY <3>1 DEF Once
    <2>6. 1 \in 1 .. Len(r) /\ \A j \in 1 .. Len(l) : j + 1 \in 1 .. Len(r)
      BY <2>2
    <2>7. QED  BY <2>2, <2>3, <2>4, <2>5, <2>6
  <1>3. QED  BY <1>1, <1>2

\* Whoever was on the list still is, and so is the neighbour of e.
LEMMA EnteredKeeps ==
    ASSUME NEW E, NEW l \in Seq(E), NEW r \in Seq(E), NEW e \in E,
           Once(l), EntryPut(l, e, r)
    PROVE  \A a : NodeExists(l, a) \/ a = e.addr => NodeExists(r, a)
  <1>1. /\ \E k \in 1 .. Len(r) : r[k] = e
        /\ \A j \in 1 .. Len(l) :
              l[j].addr # e.addr => \E i \in 1 .. Len(r) : r[i] = l[j]
    BY EnteredOnce
  <1>2. DOMAIN l = 1 .. Len(l) /\ DOMAIN r = 1 .. Len(r)
    OBVIOUS
  <1>3. QED  BY <1>1, <1>2, ExistsIff
=============================================================================
