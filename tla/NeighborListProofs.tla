-------------------------- MODULE NeighborListProofs --------------------------
(***************************************************************************)
(* Proofs about the list of neighbours, for any neighbours, results and    *)
(* room on the heap.                                                       *)
(***************************************************************************)
EXTENDS NeighborList, LinkedListProofs, FiniteSetTheorems, TLAPS

-----------------------------------------------------------------------------
(* Lemmas about the list: for every heap on which a list is linked, what  *)
(* the walks meet, what becomes of the list when a node is put before it  *)
(* or changed, and what the table tells of its entries.                   *)

\* The nodes on a list are not more than those on the heap.
LEMMA LinkedLen ==
    ASSUME NEW R, NEW h \in Seq(R), NEW hd, NEW s, Linked(h, hd, s)
    PROVE  Len(s) <= Len(h)
  <1>1. s \in Seq(1 .. Len(h)) /\ Len(s) \in Nat /\ Len(h) \in Nat
        /\ s \in [1 .. Len(s) -> 1 .. Len(h)]
    BY DEF Linked
  <1>2. \A i, j \in 1 .. Len(s) : s[i] = s[j] => i = j
    BY DEF Linked
  <1>3. SUFFICES ASSUME Len(h) < Len(s) PROVE FALSE
    BY <1>1
  <1>4. /\ IsFiniteSet(1 .. Len(s)) /\ IsFiniteSet(1 .. Len(h))
        /\ Cardinality(1 .. Len(h)) < Cardinality(1 .. Len(s))
    BY <1>1, <1>3, FS_Interval
  <1>5. \E i, j \in 1 .. Len(s) : i # j /\ s[i] = s[j]
    BY <1>1, <1>4, FS_PigeonHole
  <1>6. QED  BY <1>2, <1>5

\* Where the nodes are linked, a walk meets them in their order.
LEMMA WalkMeets ==
    ASSUME ListAssumption, NEW R, NEW h \in Seq(R), NEW hd, NEW s, Linked(h, hd, s)
    PROVE  Walk(h, hd) = [k \in 0 .. HeapSize |-> NodeAt(s, k + 1)]
  <1> DEFINE g == [k \in 0 .. HeapSize |-> NodeAt(s, k + 1)]
             F(f) == f = [k \in 0 .. HeapSize |->
                            IF k = 0 THEN hd ELSE After(h)[f[k - 1]]]
  <1>0. HeapSize \in Nat /\ Len(h) \in Nat /\ s \in Seq(1 .. Len(h)) /\ Len(s) \in Nat
    BY DEF ListAssumption, Linked
  <1>1. \A k \in Nat : After(h)[NodeAt(s, k + 1)] = NodeAt(s, k + 2)
    <2> SUFFICES ASSUME NEW k \in Nat
                 PROVE  After(h)[NodeAt(s, k + 1)] = NodeAt(s, k + 2)
      OBVIOUS
    <2>1. CASE k + 1 <= Len(s)
      <3>1. s[k + 1] \in 1 .. Len(h) /\ s[k + 1] \in 0 .. Len(h) /\ s[k + 1] # 0
        BY <1>0, <2>1
      <3>2. h[s[k + 1]].next = NodeAt(s, k + 2)
        BY <1>0, <2>1 DEF Linked
      <3>3. QED  BY <2>1, <3>1, <3>2 DEF After, NodeAt, NULL
    <2>2. CASE ~(k + 1 <= Len(s))
      BY <1>0, <2>2 DEF After, NodeAt, NULL
    <2>3. QED  BY <2>1, <2>2
  <1>2. NodeAt(s, 1) = hd
    BY DEF Linked
  <1>3. F(g)
    <2>1. \A k \in 0 .. HeapSize : g[k] = IF k = 0 THEN hd ELSE After(h)[g[k - 1]]
      <3>1. \A k \in 0 .. HeapSize : k # 0 => k - 1 \in Nat /\ k - 1 \in 0 .. HeapSize
                                      /\ (k - 1) + 2 = k + 1 /\ (k - 1) + 1 = k
        BY <1>0
      <3>2. ASSUME NEW k \in 0 .. HeapSize
            PROVE  g[k] = IF k = 0 THEN hd ELSE After(h)[g[k - 1]]
        <4>1. CASE k = 0
          BY <1>0, <1>2, <4>1
        <4>2. CASE k # 0
          <5>1. g[k] = NodeAt(s, k + 1)  OBVIOUS
          <5>2. g[k - 1] = NodeAt(s, k)  BY <3>1, <4>2
          <5>3. After(h)[NodeAt(s, k)] = NodeAt(s, k + 1)
            <6>1. PICK j \in Nat : j = k - 1  BY <3>1, <4>2
            <6>2. j + 1 = k /\ j + 2 = k + 1  BY <6>1, <1>0
            <6>3. QED  BY <1>1, <6>1, <6>2
          <5> HIDE DEF g
          <5>4. QED  BY <4>2, <5>1, <5>2, <5>3
        <4>3. QED  BY <4>1, <4>2
      <3>3. QED  BY <3>2
    <2> HIDE DEF g
    <2>2. g = [k \in 0 .. HeapSize |-> g[k]]
      BY DEF g
    <2>3. QED  BY <2>1, <2>2
  <1>4. ASSUME NEW f, F(f)  PROVE f = g
    <2> DEFINE S == {k \in Nat : k <= HeapSize => f[k] = g[k]}
    <2>1. 0 \in S
      <3>1. f[0] = hd  BY <1>0, <1>4
      <3>2. QED  BY <1>0, <1>2, <3>1
    <2>2. ASSUME NEW k \in Nat, k \in S  PROVE k + 1 \in S
      <3>1. CASE k + 1 <= HeapSize
        <4>1. f[k + 1] = After(h)[f[k]]
          BY <1>0, <1>4, <3>1
        <4>2. f[k] = NodeAt(s, k + 1)
          BY <1>0, <2>2, <3>1
        <4>3. g[k + 1] = NodeAt(s, k + 2)
          BY <1>0, <3>1
        <4>4. QED  BY <1>1, <4>1, <4>2, <4>3
      <3>2. QED  BY <3>1
    <2>3. Nat \subseteq S
      <3> HIDE DEF S
      <3>1. QED  BY <2>1, <2>2, Induction
    <2>4. \A k \in 0 .. HeapSize : f[k] = g[k]
      <3> HIDE DEF g, S
      <3>1. \A k \in 0 .. HeapSize : k \in S /\ k <= HeapSize
        BY <1>0, <2>3
      <3>2. QED  BY <3>1 DEF S
    <2>5. f = [k \in 0 .. HeapSize |-> f[k]]
      BY <1>4
    <2>6. QED  BY <2>4, <2>5
  <1>5. Walk(h, hd) = CHOOSE f : F(f)
    BY DEF Walk
  <1> HIDE DEF F, g
  <1>6. Walk(h, hd) = g
    BY <1>3, <1>4, <1>5
  <1>7. QED  BY <1>6 DEF g

\* So the chain that is read off the heap is the one that is linked there.
LEMMA ChainIs ==
    ASSUME ListAssumption, NEW R, NEW h \in Seq(R), Len(h) <= HeapSize, NEW hd, NEW s,
           Linked(h, hd, s)
    PROVE  ChainOf(h, hd) = s
  <1> DEFINE w == Walk(h, hd)
             J == {j \in 0 .. HeapSize : w[j] # NULL}
  <1>a. Len(s) <= Len(h)
    BY LinkedLen
  <1>0. HeapSize \in Nat /\ Len(h) \in Nat /\ s \in Seq(1 .. Len(h)) /\ Len(s) \in Nat
        /\ Len(s) <= HeapSize
    BY <1>a DEF ListAssumption, Linked
  <1>1. \A k \in 0 .. HeapSize : w[k] = NodeAt(s, k + 1)
    BY WalkMeets
  <1> HIDE DEF w
  <1>2. J = 0 .. Len(s) - 1
    <2>1. \A k \in 1 .. Len(s) : s[k] # 0
      BY <1>0
    <2>2. \A j \in 0 .. HeapSize : w[j] # NULL <=> j + 1 <= Len(s)
      <3>1. \A j \in 0 .. HeapSize : w[j] = IF j + 1 <= Len(s) THEN s[j + 1] ELSE 0
        BY <1>1 DEF NodeAt, NULL
      <3>2. \A j \in 0 .. HeapSize : j + 1 <= Len(s) => j + 1 \in 1 .. Len(s)
        BY <1>0
      <3>3. QED  BY <2>1, <3>1, <3>2 DEF NULL
    <2>3. QED  BY <1>0, <2>2
  <1>3. Cardinality(J) = Len(s)
    <2>1. Cardinality(0 .. Len(s) - 1) = IF 0 > Len(s) - 1 THEN 0 ELSE Len(s) - 1 - 0 + 1
      <3>1. 0 \in Int /\ Len(s) - 1 \in Int  BY <1>0
      <3>2. QED  BY ONLY <3>1, FS_Interval
    <2> HIDE DEF J
    <2>2. QED  BY <1>0, <1>2, <2>1
  <1>4. ChainOf(h, hd) = [k \in 1 .. Len(s) |-> w[k - 1]]
    BY <1>3 DEF ChainOf, w
  <1>5. \A k \in 1 .. Len(s) : w[k - 1] = s[k]
    BY <1>0, <1>1 DEF NodeAt
  <1>6. s = [k \in 1 .. Len(s) |-> s[k]]
    BY <1>0
  <1>7. QED  BY <1>4, <1>5, <1>6

\* A list stays linked when the heap grows or a node's other fields change.
LEMMA LinkedKept ==
    ASSUME NEW R, NEW h \in Seq(R), NEW g \in Seq(R), NEW hd, NEW s,
           Linked(h, hd, s), Len(h) <= Len(g),
           \A i \in 1 .. Len(s) : g[s[i]].next = h[s[i]].next
    PROVE  Linked(g, hd, s)
  <1>1. s \in Seq(1 .. Len(h)) /\ Len(h) \in Nat /\ Len(g) \in Nat
    BY DEF Linked
  <1>2. s \in Seq(1 .. Len(g))
    BY <1>1
  <1>3. QED  BY <1>2 DEF Linked

\* A node of its own, linked to the node at position j, heads the list that
\* goes on from there.
LEMMA LinkedFrom ==
    ASSUME NEW R, NEW h \in Seq(R), NEW hd, NEW s, Linked(h, hd, s),
           NEW n \in 1 .. Len(h), \A i \in 1 .. Len(s) : s[i] # n,
           NEW j \in 1 .. Len(s) + 1, h[n].next = NodeAt(s, j)
    PROVE  Linked(h, n, <<n>> \o SubSeq(s, j, Len(s)))
  <1> DEFINE t == <<n>> \o SubSeq(s, j, Len(s))
  <1>1. s \in Seq(1 .. Len(h)) /\ Len(h) \in Nat /\ Len(s) \in Nat /\ j \in Nat
    BY DEF Linked
  <1>2. /\ SubSeq(s, j, Len(s)) \in Seq(1 .. Len(h))
        /\ Len(SubSeq(s, j, Len(s))) = Len(s) - j + 1
        /\ \A i \in 1 .. Len(s) - j + 1 : SubSeq(s, j, Len(s))[i] = s[i + j - 1]
    BY <1>1, RestAt
  <1>3. /\ t \in Seq(1 .. Len(h))
        /\ Len(t) = Len(s) - j + 2
        /\ t[1] = n
        /\ \A i \in 2 .. Len(t) : i + j - 2 \in 1 .. Len(s) /\ t[i] = s[i + j - 2]
    BY <1>1, <1>2
  <1> HIDE DEF t
  <1>4. n = NodeAt(t, 1)
    BY <1>1, <1>3 DEF NodeAt
  <1>5. ASSUME NEW i \in 1 .. Len(t)  PROVE h[t[i]].next = NodeAt(t, i + 1)
    <2>1. NodeAt(t, i + 1) = NodeAt(s, i + j - 1)
      <3>1. CASE i + 1 <= Len(t)
        <4>1. PICK k \in 2 .. Len(t) : k = i + 1
          BY <1>1, <1>3, <3>1
        <4>2. k + j - 2 = i + j - 1
          BY <1>1, <1>3, <4>1
        <4>3. t[k] = s[i + j - 1] /\ i + j - 1 \in 1 .. Len(s)
          BY <1>3, <4>2
        <4>4. QED  BY <3>1, <4>1, <4>3, <1>1 DEF NodeAt
      <3>2. CASE i + 1 > Len(t)
        BY <1>1, <1>3, <3>2 DEF NodeAt
      <3>3. QED  BY <1>1, <1>3, <3>1, <3>2
    <2>2. CASE i = 1
      BY <1>1, <1>3, <2>1, <2>2
    <2>3. CASE i # 1
      <3>1. i + j - 2 \in 1 .. Len(s) /\ t[i] = s[i + j - 2]
        BY <1>1, <1>3, <2>3
      <3>2. h[s[i + j - 2]].next = NodeAt(s, i + j - 1)
        <4>1. PICK k \in 1 .. Len(s) : k = i + j - 2  BY <3>1
        <4>2. k + 1 = i + j - 1  BY <1>1, <1>3, <4>1
        <4>3. QED  BY <4>1, <4>2 DEF Linked
      <3>3. QED  BY <2>1, <3>1, <3>2
    <2>4. QED  BY <2>2, <2>3
  <1>6. ASSUME NEW i \in 1 .. Len(t), NEW k \in 1 .. Len(t), t[i] = t[k]  PROVE i = k
    <2>1. \A m \in 1 .. Len(t) : m = 1 \/ m \in 2 .. Len(t)
      BY <1>1, <1>3
    <2>2. \A m \in 2 .. Len(t) : t[m] # n
      BY <1>3
    <2>3. CASE i \in 2 .. Len(t) /\ k \in 2 .. Len(t)
      <3>1. s[i + j - 2] = s[k + j - 2]
        BY <1>3, <1>6, <2>3
      <3>2. i + j - 2 = k + j - 2
        BY <1>3, <2>3, <3>1 DEF Linked
      <3>3. QED  BY <1>1, <3>2
    <2>4. QED  BY <1>3, <1>6, <2>1, <2>2, <2>3
  <1>7. QED  BY <1>3, <1>4, <1>5, <1>6 DEF Linked, t

\* The entries of a list, and those it has with such a node at its head.
LEMMA EntriesAt ==
    ASSUME NEW R, NEW h \in Seq(R), NEW s \in Seq(1 .. Len(h))
    PROVE  /\ EntriesOf(h, s) \in Seq(R)
           /\ Len(EntriesOf(h, s)) = Len(s)
           /\ DOMAIN EntriesOf(h, s) = 1 .. Len(s)
           /\ \A i \in 1 .. Len(s) : EntriesOf(h, s)[i] = h[s[i]]
  BY DEF EntriesOf

LEMMA EntriesFrom ==
    ASSUME NEW R, NEW h \in Seq(R), NEW s \in Seq(1 .. Len(h)),
           NEW n \in 1 .. Len(h), NEW j \in 1 .. Len(s) + 1
    PROVE  EntriesOf(h, <<n>> \o SubSeq(s, j, Len(s)))
             = InsertNode(From(EntriesOf(h, s), j), h[n])
  <1>1. Len(h) \in Nat /\ Len(s) \in Nat /\ j \in Nat
    OBVIOUS
  <1>2. PICK u : u = SubSeq(s, j, Len(s))
    OBVIOUS
  <1>3. /\ u \in Seq(1 .. Len(h))
        /\ Len(u) = Len(s) - j + 1
        /\ \A i \in 1 .. Len(u) : u[i] = s[i + j - 1]
    BY <1>1, <1>2, RestAt
  <1>4. PICK l : l = EntriesOf(h, s)
    OBVIOUS
  <1>5. /\ l \in Seq(R)
        /\ Len(l) = Len(s)
        /\ \A i \in 1 .. Len(s) : l[i] = h[s[i]]
    BY <1>4, EntriesAt
  <1>6. PICK v : v = From(l, j)
    OBVIOUS
  <1>7. /\ v \in Seq(R)
        /\ Len(v) = Len(u)
        /\ \A i \in 1 .. Len(u) : v[i] = l[i + j - 1]
    <2>1. v = SubSeq(l, j, Len(l)) /\ j \in 1 .. Len(l) + 1
      BY <1>5, <1>6 DEF From
    <2>2. /\ v \in Seq(R)
          /\ Len(v) = Len(l) - j + 1
          /\ \A i \in 1 .. Len(l) - j + 1 : v[i] = l[i + j - 1]
      BY <1>5, <2>1, RestAt
    <2>3. Len(l) - j + 1 = Len(u)
      BY <1>3, <1>5
    <2>4. QED  BY <2>2, <2>3
  <1>8. \A i \in 1 .. Len(u) : v[i] = h[u[i]]
    <2>1. \A i \in 1 .. Len(s) - j + 1 : i + j - 1 \in 1 .. Len(s)
      BY <1>1
    <2>2. QED  BY <1>3, <1>5, <1>7, <2>1
  <1>9. PICK t : t = <<n>> \o u
    OBVIOUS
  <1>10. /\ t \in Seq(1 .. Len(h))
         /\ Len(t) = Len(u) + 1
         /\ t[1] = n
         /\ \A i \in 1 .. Len(u) : t[i + 1] = u[i]
    BY <1>3, <1>9
  <1>11. PICK q : q = EntriesOf(h, t)
    OBVIOUS
  <1>12. /\ q \in Seq(R)
         /\ Len(q) = Len(t)
         /\ \A i \in 1 .. Len(t) : q[i] = h[t[i]]
    BY <1>10, <1>11, EntriesAt
  <1>13. PICK r : r = InsertNode(v, h[n])
    OBVIOUS
  <1>14. /\ r \in Seq(R)
         /\ Len(r) = Len(v) + 1
         /\ r[1] = h[n]
         /\ \A i \in 1 .. Len(v) : r[i + 1] = v[i]
    <2>1. h[n] \in R
      OBVIOUS
    <2>2. QED  BY <1>7, <1>13, <2>1 DEF InsertNode
  <1>15. ASSUME NEW i \in 1 .. Len(t)  PROVE q[i] = r[i]
    <2>1. CASE i = 1
      BY <1>10, <1>12, <1>14, <2>1
    <2>2. CASE i # 1
      <3>1. PICK k \in 1 .. Len(u) : i = k + 1
        <4>1. i - 1 \in 1 .. Len(u) /\ i = (i - 1) + 1
          BY <1>3, <1>10, <2>2
        <4>2. QED  BY <4>1
      <3>2. q[i] = h[u[k]]
        BY <1>10, <1>12, <3>1
      <3>3. r[i] = h[u[k]]
        BY <1>7, <1>8, <1>14, <3>1
      <3>4. QED  BY <3>2, <3>3
    <2>3. QED  BY <2>1, <2>2
  <1>16. q = r
    <2>1. Len(q) = Len(r)  BY <1>7, <1>10, <1>12, <1>14
    <2>2. \A i \in 1 .. Len(q) : q[i] = r[i]  BY <1>12, <1>15
    <2>3. q \in Seq(R) /\ r \in Seq(R)  BY <1>12, <1>14
    <2>4. QED  BY ONLY <2>1, <2>2, <2>3
  <1>17. QED  BY <1>2, <1>4, <1>6, <1>9, <1>11, <1>13, <1>16

\* The table tells of an address what its first entry holds.
LEMMA TableTells ==
    ASSUME NEW R, NEW l \in Seq(R), NEW a \in Addrs
    PROVE  /\ ~NodeExists(l, a) => TableOf(l)[a] = Unlisted
           /\ \A k \in 1 .. Len(l) :
                 l[k].addr = a /\ (\A i \in 1 .. Len(l) : l[i].addr = a => k <= i)
                   => TableOf(l)[a] = Told(l[k])
  <1>1. ASSUME ~NodeExists(l, a)  PROVE TableOf(l)[a] = Unlisted
    BY <1>1 DEF TableOf
  <1>2. ASSUME NEW k \in 1 .. Len(l), l[k].addr = a,
               \A i \in 1 .. Len(l) : l[i].addr = a => k <= i
        PROVE  TableOf(l)[a] = Told(l[k])
    <2>1. NodeExists(l, a) /\ First(Positions(l, a)) = k
      BY <1>2, FirstUnique
    <2>2. QED  BY <2>1 DEF TableOf, Told
  <1>3. QED  BY <1>1, <1>2

\* It lists the addresses that linked_list_node_exists finds.
LEMMA TableLists ==
    ASSUME NEW R, NEW l \in Seq(R), NEW a \in Addrs
    PROVE  TableOf(l)[a].listed <=> NodeExists(l, a)
  BY DEF TableOf, Unlisted, Told

\* The table after an insertion.
LEMMA TableInsert ==
    ASSUME NEW R, NEW l \in Seq(R), NEW e \in R, NEW a \in Addrs
    PROVE  TableOf(InsertNode(l, e))[a]
             = IF a = e.addr THEN Told(e) ELSE TableOf(l)[a]
  <1> DEFINE m == InsertNode(l, e)
  <1>1. /\ m \in Seq(R)
        /\ Len(m) = Len(l) + 1
        /\ m[1] = e
        /\ \A i \in 1 .. Len(l) : m[i + 1] = l[i]
        /\ \A i \in 1 .. Len(l) + 1 : i # 1 => i - 1 \in 1 .. Len(l) /\ m[i] = l[i - 1]
    <2>1. l \in Seq(R) /\ e \in R
      OBVIOUS
    <2>2. /\ InsertNode(l, e) \in Seq(R)
          /\ Len(InsertNode(l, e)) = Len(l) + 1
          /\ InsertNode(l, e)[1] = e
          /\ \A i \in 1 .. Len(l) : InsertNode(l, e)[i + 1] = l[i]
      BY DEF InsertNode
    <2> HIDE DEF m
    <2>3. ASSUME NEW i \in 1 .. Len(l) + 1, i # 1
          PROVE  i - 1 \in 1 .. Len(l) /\ m[i] = l[i - 1]
      <3>1. i - 1 \in 1 .. Len(l) /\ i = (i - 1) + 1
        BY <2>1, <2>3
      <3>2. QED  BY <2>2, <3>1 DEF m
    <2>4. QED  BY <2>2, <2>3 DEF m
  <1> HIDE DEF m
  <1>2. Len(l) \in Nat
    OBVIOUS
  <1>3. CASE a = e.addr
    <2>1. 1 \in 1 .. Len(m) /\ \A i \in 1 .. Len(m) : 1 <= i
      BY <1>1, <1>2
    <2>2. TableOf(m)[a] = Told(m[1])
      BY <1>1, <1>3, <2>1, TableTells
    <2>3. QED  BY <1>1, <1>3, <2>2 DEF m
  <1>4. CASE a # e.addr /\ ~NodeExists(l, a)
    <2>1. ~NodeExists(m, a)
      <3>1. \A i \in 1 .. Len(l) : l[i].addr # a
        BY <1>4, ExistsIff
      <3>2. \A i \in 1 .. Len(m) : m[i].addr # a
        BY <1>1, <1>4, <3>1
      <3>3. QED  BY <1>1, <3>2, ExistsIff
    <2>2. TableOf(m)[a] = Unlisted /\ TableOf(l)[a] = Unlisted
      BY <1>1, <1>4, <2>1, TableTells
    <2>3. QED  BY <1>4, <2>2 DEF m
  <1>5. CASE a # e.addr /\ NodeExists(l, a)
    <2>1. PICK k \in 1 .. Len(l) :
             l[k].addr = a /\ \A i \in 1 .. Len(l) : l[i].addr = a => k <= i
      BY <1>5, FirstFound
    <2>2. TableOf(l)[a] = Told(l[k])
      BY <2>1, TableTells
    <2>3. PICK k1 \in 1 .. Len(m) : k1 = k + 1
      BY <1>1, <1>2
    <2>4. m[k1] = l[k]
      BY <1>1, <2>3
    <2>5. ASSUME NEW i \in 1 .. Len(m), m[i].addr = a  PROVE k1 <= i
      <3>1. i # 1  BY <1>1, <1>5, <2>5
      <3>2. i - 1 \in 1 .. Len(l) /\ l[i - 1].addr = a
        BY <1>1, <2>5, <3>1
      <3>3. k <= i - 1  BY <2>1, <3>2
      <3>4. QED  BY <1>1, <1>2, <2>3, <3>3
    <2>6. TableOf(m)[a] = Told(m[k1])
      BY <1>1, <2>1, <2>4, <2>5, TableTells
    <2>7. QED  BY <1>5, <2>2, <2>4, <2>6 DEF m
  <1>6. QED  BY <1>3, <1>4, <1>5

\* The table after the first entry of an address has changed.
LEMMA TableUpdate ==
    ASSUME NEW R, NEW l \in Seq(R), NEW m \in Seq(R), Len(m) = Len(l),
           \A i \in 1 .. Len(l) : m[i].addr = l[i].addr,
           NEW b, NodeExists(l, b),
           \A i \in 1 .. Len(l) : i # First(Positions(l, b)) => m[i] = l[i],
           NEW a \in Addrs
    PROVE  TableOf(m)[a]
             = IF a = b THEN Told(m[First(Positions(l, b))]) ELSE TableOf(l)[a]
  <1>1. PICK f \in 1 .. Len(l) :
           /\ f = First(Positions(l, b))
           /\ l[f].addr = b
           /\ \A i \in 1 .. Len(l) : l[i].addr = b => f <= i
    BY FirstFound
  <1>2. CASE a = b
    <2>1. f \in 1 .. Len(m) /\ m[f].addr = a
          /\ \A i \in 1 .. Len(m) : m[i].addr = a => f <= i
      BY <1>1, <1>2
    <2>2. TableOf(m)[a] = Told(m[f])
      BY <2>1, TableTells
    <2>3. QED  BY <1>1, <1>2, <2>2
  <1>3. CASE a # b /\ ~NodeExists(l, a)
    <2>1. \A i \in 1 .. Len(l) : l[i].addr # a
      BY <1>3, ExistsIff
    <2>2. ~NodeExists(m, a)
      BY <2>1, ExistsIff
    <2>3. QED  BY <1>3, <2>2, TableTells
  <1>4. CASE a # b /\ NodeExists(l, a)
    <2>1. PICK k \in 1 .. Len(l) :
             l[k].addr = a /\ \A i \in 1 .. Len(l) : l[i].addr = a => k <= i
      BY <1>4, FirstFound
    <2>2. TableOf(l)[a] = Told(l[k])
      BY <2>1, TableTells
    <2>3. TableOf(m)[a] = Told(m[k])
      BY <2>1, TableTells
    <2>4. m[k] = l[k]
      BY <1>1, <1>4, <2>1
    <2>5. QED  BY <1>4, <2>2, <2>3, <2>4
  <1>5. QED  BY <1>2, <1>3, <1>4

\* The part of a list from its first entry on, and beyond a new head.
LEMMA FromFirst ==
    ASSUME NEW R, NEW l \in Seq(R)
    PROVE  From(l, 1) = l
  BY DEF From

LEMMA FromInserted ==
    ASSUME NEW R, NEW l \in Seq(R), NEW e \in R, NEW j \in 1 .. Len(l) + 1
    PROVE  From(InsertNode(l, e), j + 1) = From(l, j)
  <1>1. Len(l) \in Nat /\ j \in Nat
    OBVIOUS
  <1>2. PICK m : m = InsertNode(l, e)
    OBVIOUS
  <1>3. /\ m \in Seq(R)
        /\ Len(m) = Len(l) + 1
        /\ \A i \in 1 .. Len(l) : m[i + 1] = l[i]
    BY <1>2 DEF InsertNode
  <1>10. /\ SubSeq(m, j + 1, Len(m)) \in Seq(R)
         /\ Len(SubSeq(m, j + 1, Len(m))) = Len(m) - (j + 1) + 1
         /\ \A i \in 1 .. Len(m) - (j + 1) + 1 :
              SubSeq(m, j + 1, Len(m))[i] = m[i + (j + 1) - 1]
    <2>1. j + 1 \in 1 .. Len(m) + 1  BY <1>1, <1>3
    <2>2. QED  BY <1>3, <2>1, RestAt
  <1>4. /\ From(m, j + 1) \in Seq(R)
        /\ Len(From(m, j + 1)) = Len(l) - j + 1
        /\ \A i \in 1 .. Len(l) - j + 1 : From(m, j + 1)[i] = m[i + j]
    BY <1>1, <1>3, <1>10 DEF From
  <1>5. /\ From(l, j) \in Seq(R)
        /\ Len(From(l, j)) = Len(l) - j + 1
        /\ \A i \in 1 .. Len(l) - j + 1 : From(l, j)[i] = l[i + j - 1]
    BY <1>1, RestAt DEF From
  <1>6. ASSUME NEW i \in 1 .. Len(l) - j + 1  PROVE m[i + j] = l[i + j - 1]
    <2>1. i + j - 1 \in 1 .. Len(l) /\ i + j = (i + j - 1) + 1
      BY <1>1
    <2>2. QED  BY <1>3, <2>1
  <1>7. \A i \in 1 .. Len(l) - j + 1 : From(m, j + 1)[i] = From(l, j)[i]
    BY <1>4, <1>5, <1>6
  <1>8. From(m, j + 1) = From(l, j)
    BY <1>4, <1>5, <1>7
  <1>9. QED  BY <1>2, <1>8

-----------------------------------------------------------------------------
(* Types.                                                                  *)

\* What the type invariant says of one thread.
LEMMA Types ==
    ASSUME ListAssumption, TypeOK, NEW t \in Threads
    PROVE  /\ thread[t].pc \in {"idle", "search", "update", "link", "publish"}
           /\ thread[t].op \in {"add", "latency", "throughput"}
           /\ thread[t].addr \in Addrs
           /\ thread[t].val \in Values
           /\ thread[t].node \in 0 .. Len(heap)
           /\ Len(heap) \in Nat
           /\ thread[t].node \in Nat
           /\ thread[t] = [pc |-> thread[t].pc, op |-> thread[t].op,
                           addr |-> thread[t].addr, val |-> thread[t].val,
                           node |-> thread[t].node]
  <1>1. thread[t] \in [pc : {"idle", "search", "update", "link", "publish"},
             op : {"add", "latency", "throughput"}, addr : Addrs,
             val : Values, node : 0 .. Len(heap)]
    BY DEF TypeOK
  <1>2. Len(heap) \in Nat
    BY DEF TypeOK
  <1>3. QED  BY <1>1, <1>2

\* A new node.
LEMMA AllocateType ==
    ASSUME ListAssumption, TypeOK, NEW op \in {"add", "latency", "throughput"},
           NEW a \in Addrs, NEW v \in Values
    PROVE  LET e == [addr |-> a, next |-> NULL,
                     latency |-> IF op = "latency" THEN v ELSE 0,
                     throughput |-> IF op = "throughput" THEN v ELSE 0]
           IN  /\ e \in HeapNode
               /\ Allocate(op, a, v) = Append(heap, e)
               /\ Allocate(op, a, v) \in Seq(HeapNode)
               /\ Len(Allocate(op, a, v)) = Len(heap) + 1
               /\ \A i \in 1 .. Len(heap) : Allocate(op, a, v)[i] = heap[i]
               /\ Allocate(op, a, v)[Len(heap) + 1] = e
  <1> DEFINE e == [addr |-> a, next |-> NULL,
                   latency |-> IF op = "latency" THEN v ELSE 0,
                   throughput |-> IF op = "throughput" THEN v ELSE 0]
  <1>1. e \in HeapNode
    BY DEF ListAssumption, HeapNode, NULL
  <1>2. Allocate(op, a, v) = Append(heap, e)
    BY DEF Allocate
  <1>3. heap \in Seq(HeapNode)
    BY DEF TypeOK
  <1> HIDE DEF e
  <1>4. /\ Append(heap, e) \in Seq(HeapNode)
        /\ Len(Append(heap, e)) = Len(heap) + 1
        /\ \A i \in 1 .. Len(heap) : Append(heap, e)[i] = heap[i]
        /\ Append(heap, e)[Len(heap) + 1] = e
    BY <1>1, <1>3
  <1>5. QED  BY <1>1, <1>2, <1>4 DEF e

\* A thread whose record changes within its type, on a heap that keeps its
\* nodes or grows, has the type it must have.
ThreadRecord(h) ==
    [pc : {"idle", "search", "update", "link", "publish"},
     op : {"add", "latency", "throughput"}, addr : Addrs,
     val : Values, node : 0 .. Len(h)]

LEMMA ThreadType ==
    ASSUME ListAssumption, TypeOK, NEW t \in Threads, Len(heap) <= Len(heap'),
           Len(heap') \in Nat, NEW r \in ThreadRecord(heap'),
           thread' = [thread EXCEPT ![t] = r]
    PROVE  thread' \in [Threads -> ThreadRecord(heap')]
  <1>1. thread \in [Threads -> ThreadRecord(heap)] /\ Len(heap) \in Nat
    BY DEF TypeOK, ThreadRecord
  <1>2. 0 .. Len(heap) \subseteq 0 .. Len(heap')
    BY <1>1
  <1>3. ThreadRecord(heap) \subseteq ThreadRecord(heap')
    BY <1>2 DEF ThreadRecord
  <1>4. QED  BY <1>1, <1>3

LEMMA InitType ==
    ASSUME ListAssumption, Init
    PROVE  TypeOK
  <1>1. heap \in Seq(HeapNode) /\ Len(heap) = 0
    BY DEF Init
  <1>2. (CHOOSE a \in Addrs : TRUE) \in Addrs
    BY DEF ListAssumption
  <1>3. NoOp \in ThreadRecord(heap)
    BY <1>1, <1>2 DEF NoOp, ThreadRecord, ListAssumption, NULL
  <1>4. Unlisted \in [listed : BOOLEAN, latency : Values, throughput : Values]
    BY DEF Unlisted, ListAssumption
  <1>5. QED  BY <1>1, <1>3, <1>4 DEF Init, TypeOK, ThreadRecord, ListAssumption, NULL

LEMMA GotoType ==
    ASSUME ListAssumption, TypeOK, NEW t \in Threads,
           NEW pc \in {"idle", "search", "update", "link", "publish"}, Goto(t, pc),
           Len(heap) <= Len(heap'), Len(heap') \in Nat
    PROVE  thread' \in [Threads -> ThreadRecord(heap')]
  <1> DEFINE r == [thread[t] EXCEPT !.pc = pc]
  <1>1. thread[t] \in ThreadRecord(heap) /\ Len(heap) \in Nat
    BY DEF TypeOK, ThreadRecord
  <1>2. r \in ThreadRecord(heap')
    BY <1>1 DEF ThreadRecord
  <1>3. thread' = [thread EXCEPT ![t] = r]
    BY DEF Goto
  <1> HIDE DEF r
  <1>4. QED  BY <1>2, <1>3, ThreadType

LEMMA RecordedType ==
    ASSUME ListAssumption, TypeOK, NEW t \in Threads, Recorded(t)
    PROVE  recorded' \in [Addrs ->
               [listed : BOOLEAN, latency : Values, throughput : Values]]
  <1> DEFINE a == thread[t].addr
             op == thread[t].op
             v == thread[t].val
             Row == [listed : BOOLEAN, latency : Values, throughput : Values]
             row == [[recorded[a] EXCEPT !.listed = TRUE] EXCEPT ![op] = v]
  <1>1. recorded \in [Addrs -> Row]
    BY DEF TypeOK
  <1>2. a \in Addrs /\ v \in Values /\ op \in {"add", "latency", "throughput"}
    BY Types
  <1>3. CASE op = "add"
    BY <1>1, <1>3 DEF Recorded
  <1>4. CASE op # "add"
    <2>1. recorded[a] \in Row
      BY <1>1, <1>2
    <2>2. op = "latency" \/ op = "throughput"
      BY <1>2, <1>4
    <2> HIDE DEF op, v, a
    <2>3. CASE op = "latency"
      <3>1. row \in Row
        BY <1>2, <2>1, <2>3
      <3>2. recorded' = [recorded EXCEPT ![a] = row]
        BY <1>1, <1>2, <1>4 DEF Recorded, a, op, v
      <3> HIDE DEF row, Row
      <3>3. QED  BY <1>1, <3>1, <3>2 DEF Row
    <2>4. CASE op = "throughput"
      <3>1. row \in Row
        BY <1>2, <2>1, <2>4
      <3>2. recorded' = [recorded EXCEPT ![a] = row]
        BY <1>1, <1>2, <1>4 DEF Recorded, a, op, v
      <3> HIDE DEF row, Row
      <3>3. QED  BY <1>1, <3>1, <3>2 DEF Row
    <2>5. QED  BY <2>2, <2>3, <2>4
  <1>5. QED  BY <1>3, <1>4

LEMMA MeasureType ==
    ASSUME ListAssumption, TypeOK, NEW t \in Threads, Measure(t)
    PROVE  TypeOK'
  <1>1. PICK op \in Ops[t] \ {"add"}, a \in Addrs, v \in Values :
           /\ heap' = Allocate(op, a, v)
           /\ thread' = [thread EXCEPT ![t] =
                [pc |-> "search", op |-> op, addr |-> a, val |-> v,
                 node |-> Len(heap) + 1]]
    BY DEF Measure
  <1>2. op \in {"add", "latency", "throughput"}
    BY DEF ListAssumption
  <1>3. heap' \in Seq(HeapNode) /\ Len(heap') = Len(heap) + 1 /\ Len(heap) \in Nat
    <2>1. Len(heap) \in Nat  BY Types
    <2>2. Allocate(op, a, v) \in Seq(HeapNode)
          /\ Len(Allocate(op, a, v)) = Len(heap) + 1
      BY <1>2, AllocateType, ZenonT(30)
    <2>3. QED  BY <1>1, <2>1, <2>2
  <1>4. [pc |-> "search", op |-> op, addr |-> a, val |-> v, node |-> Len(heap) + 1]
          \in ThreadRecord(heap')
    BY <1>2, <1>3 DEF ThreadRecord
  <1>5. thread' \in [Threads -> ThreadRecord(heap')]
    <2>1. Len(heap) <= Len(heap') /\ Len(heap') \in Nat  BY <1>3
    <2>2. QED  BY <1>1, <1>4, <2>1, ThreadType
  <1>6. Len(heap') <= HeapSize
    BY <1>3 DEF Measure, ListAssumption
  <1>7. head' \in 0 .. Len(heap')
    BY <1>3 DEF Measure, TypeOK
  <1>8. QED  BY <1>3, <1>5, <1>6, <1>7 DEF Measure, TypeOK, ThreadRecord

LEMMA CountType ==
    ASSUME ListAssumption, TypeOK, NEW t \in Threads, Count(t)
    PROVE  TypeOK'
  <1>1. PICK a \in Addrs : thread' = [thread EXCEPT ![t] =
                [pc |-> "search", op |-> "add", addr |-> a, val |-> 0,
                 node |-> NULL]]
    BY DEF Count
  <1>2. heap' = heap /\ Len(heap) \in Nat
    BY Types DEF Count
  <1>3. [pc |-> "search", op |-> "add", addr |-> a, val |-> 0, node |-> NULL]
          \in ThreadRecord(heap')
    BY <1>2 DEF ThreadRecord, ListAssumption, NULL
  <1>4. thread' \in [Threads -> ThreadRecord(heap')]
    <2>1. Len(heap) <= Len(heap') /\ Len(heap') \in Nat  BY <1>2
    <2>2. QED  BY <1>1, <1>3, <2>1, ThreadType
  <1>5. QED  BY <1>2, <1>4 DEF Count, TypeOK, ThreadRecord

\* The three cases of a search.
LEMMA SearchCases ==
    ASSUME ListAssumption, TypeOK, NEW t \in Threads, Search(t)
    PROVE  \/ /\ Exists(thread[t].addr)
              /\ Goto(t, IF thread[t].op = "add" THEN "idle" ELSE "update")
              /\ heap' = heap
           \/ /\ ~Exists(thread[t].addr) /\ thread[t].op # "add"
              /\ Goto(t, "link")
              /\ heap' = heap
           \/ /\ ~Exists(thread[t].addr) /\ thread[t].op = "add"
              /\ Len(heap) < HeapSize
              /\ heap' = Allocate("add", thread[t].addr, thread[t].val)
              /\ thread' = [thread EXCEPT ![t] =
                    [[thread[t] EXCEPT !.pc = "link"] EXCEPT !.node = Len(heap) + 1]]
  <1>1. CASE Exists(thread[t].addr)
    BY <1>1 DEF Search
  <1>2. CASE ~Exists(thread[t].addr) /\ thread[t].op # "add"
    BY <1>2 DEF Search
  <1>3. CASE ~Exists(thread[t].addr) /\ thread[t].op = "add"
    <2>1. /\ heap' = Allocate(thread[t].op, thread[t].addr, thread[t].val)
          /\ Len(heap) < HeapSize
          /\ thread' = [thread EXCEPT ![t].pc = "link", ![t].node = Len(heap) + 1]
      BY <1>3 DEF Search
    <2>2. thread \in [Threads -> ThreadRecord(heap)]
      BY DEF TypeOK, ThreadRecord
    <2>3. thread' = [thread EXCEPT ![t] =
             [[thread[t] EXCEPT !.pc = "link"] EXCEPT !.node = Len(heap) + 1]]
      BY <2>1, <2>2
    <2>4. QED  BY <1>3, <2>1, <2>3
  <1>4. QED  BY <1>1, <1>2, <1>3

LEMMA SearchType ==
    ASSUME ListAssumption, TypeOK, NEW t \in Threads, Search(t)
    PROVE  TypeOK'
  <1>1. CASE heap' = heap /\ \E pc \in {"idle", "update", "link"} : Goto(t, pc)
    <2>1. Len(heap) \in Nat  BY Types
    <2>2. thread' \in [Threads -> ThreadRecord(heap')]
      BY <1>1, <2>1, GotoType
    <2>3. QED  BY <1>1, <2>2 DEF Search, TypeOK, ThreadRecord
  <1>2. CASE /\ Len(heap) < HeapSize
             /\ heap' = Allocate("add", thread[t].addr, thread[t].val)
             /\ thread' = [thread EXCEPT ![t] =
                   [[thread[t] EXCEPT !.pc = "link"] EXCEPT !.node = Len(heap) + 1]]
    <2>1. heap' \in Seq(HeapNode) /\ Len(heap') = Len(heap) + 1 /\ Len(heap) \in Nat
      <3>1. /\ Len(heap) \in Nat
            /\ thread[t].addr \in Addrs
            /\ thread[t].val \in Values
        BY Types
      <3>2. /\ Allocate("add", thread[t].addr, thread[t].val) \in Seq(HeapNode)
            /\ Len(Allocate("add", thread[t].addr, thread[t].val)) = Len(heap) + 1
        BY <3>1, AllocateType
      <3>3. QED  BY <1>2, <3>1, <3>2
    <2>2. [[thread[t] EXCEPT !.pc = "link"] EXCEPT !.node = Len(heap) + 1]
            \in ThreadRecord(heap')
      <3>1. thread[t] \in ThreadRecord(heap)
        BY DEF TypeOK, ThreadRecord
      <3>2. Len(heap) + 1 \in 0 .. Len(heap')
        BY <2>1
      <3>3. QED  BY <3>1, <3>2 DEF ThreadRecord
    <2>3. thread' \in [Threads -> ThreadRecord(heap')]
      <3>1. Len(heap) <= Len(heap') /\ Len(heap') \in Nat  BY <2>1
      <3>2. QED  BY <1>2, <2>2, <3>1, ThreadType
    <2>4. Len(heap') <= HeapSize
      BY <1>2, <2>1 DEF ListAssumption
    <2>5. head' \in 0 .. Len(heap')
      BY <2>1 DEF Search, TypeOK
    <2>6. QED  BY <2>1, <2>3, <2>4, <2>5 DEF Search, TypeOK, ThreadRecord
  <1>3. QED  BY <1>1, <1>2, SearchCases

\* The list is one of nodes of the heap, each with its entry.
LEMMA ListOnHeap ==
    ASSUME ListAssumption, TypeOK, ChainInv
    PROVE  /\ Chain \in Seq(1 .. Len(heap))
           /\ Entries \in Seq(HeapNode)
           /\ Len(Entries) = Len(Chain)
           /\ DOMAIN Entries = 1 .. Len(Chain)
           /\ DOMAIN Chain = 1 .. Len(Chain)
           /\ \A i \in 1 .. Len(Chain) : Entries[i] = heap[Chain[i]]
           /\ head = NodeAt(Chain, 1)
  <1>1. heap \in Seq(HeapNode) /\ Chain \in Seq(1 .. Len(heap)) /\ head = NodeAt(Chain, 1)
    BY DEF TypeOK, ChainInv, Linked
  <1>2. PICK s : s = Chain
    OBVIOUS
  <1>3. PICK h : h = heap
    OBVIOUS
  <1>4. h \in Seq(HeapNode) /\ s \in Seq(1 .. Len(h))
    BY <1>1, <1>2, <1>3
  <1>5. /\ EntriesOf(h, s) \in Seq(HeapNode)
        /\ Len(EntriesOf(h, s)) = Len(s)
        /\ DOMAIN EntriesOf(h, s) = 1 .. Len(s)
        /\ \A i \in 1 .. Len(s) : EntriesOf(h, s)[i] = h[s[i]]
    BY <1>4, EntriesAt
  <1>6. QED  BY <1>1, <1>2, <1>3, <1>4, <1>5 DEF Entries

\* The node an update stops at is one of the list.
LEMMA FoundOnList ==
    ASSUME ListAssumption, TypeOK, ChainInv, NEW a, Exists(a)
    PROVE  /\ First(Positions(Entries, a)) \in 1 .. Len(Chain)
           /\ Found(a) = Chain[First(Positions(Entries, a))]
           /\ Found(a) \in 1 .. Len(heap)
           /\ heap[Found(a)].addr = a
  <1>1. /\ First(Positions(Entries, a)) \in 1 .. Len(Entries)
        /\ Entries[First(Positions(Entries, a))].addr = a
    BY ListOnHeap, FirstFound DEF Exists
  <1>2. QED  BY <1>1, ListOnHeap DEF Found

\* What a thread that goes on keeps of its locals, and the other thread.
LEMMA GotoKeeps ==
    ASSUME ListAssumption, TypeOK, NEW t \in Threads, NEW pc, Goto(t, pc)
    PROVE  /\ thread'[t].pc = pc
           /\ thread'[t].op = thread[t].op
           /\ thread'[t].addr = thread[t].addr
           /\ thread'[t].val = thread[t].val
           /\ thread'[t].node = thread[t].node
           /\ \A u \in Threads : u # t => thread'[u] = thread[u]
  <1>1. thread \in [Threads -> ThreadRecord(heap)] /\ thread[t] \in ThreadRecord(heap)
    BY DEF TypeOK, ThreadRecord
  <1>2. thread' = [thread EXCEPT ![t] = [thread[t] EXCEPT !.pc = pc]]
    BY DEF Goto
  <1>3. thread'[t] = [thread[t] EXCEPT !.pc = pc]
    BY <1>1, <1>2
  <1>4. QED  BY <1>1, <1>2, <1>3 DEF ThreadRecord

\* A write to one node.
LEMMA WriteAt ==
    ASSUME NEW h \in Seq(HeapNode), NEW n \in 1 .. Len(h), NEW r \in HeapNode
    PROVE  /\ [h EXCEPT ![n] = r] \in Seq(HeapNode)
           /\ Len([h EXCEPT ![n] = r]) = Len(h)
           /\ [h EXCEPT ![n] = r][n] = r
           /\ \A i \in 1 .. Len(h) : i # n => [h EXCEPT ![n] = r][i] = h[i]
  OBVIOUS

\* What an update writes.
LEMMA UpdateWrites ==
    ASSUME ListAssumption, TypeOK, ChainInv, OpInv,
           thread[Main].pc = "update" => Exists(thread[Main].addr),
           NEW t \in Threads, Update(t)
    PROVE  LET n == Found(thread[t].addr)
           IN  /\ t = Main
               /\ Exists(thread[t].addr)
               /\ thread[t].op \in {"latency", "throughput"}
               /\ n \in 1 .. Len(heap)
               /\ heap' \in Seq(HeapNode)
               /\ Len(heap') = Len(heap)
               /\ \A i \in 1 .. Len(heap) : i # n => heap'[i] = heap[i]
               /\ heap'[n].addr = heap[n].addr
               /\ heap'[n].next = heap[n].next
               /\ heap'[n].latency = IF thread[t].op = "latency"
                                     THEN thread[t].val ELSE heap[n].latency
               /\ heap'[n].throughput = IF thread[t].op = "throughput"
                                        THEN thread[t].val ELSE heap[n].throughput
  <1> DEFINE n == Found(thread[t].addr)
             op == thread[t].op
             v == thread[t].val
             r == [heap[n] EXCEPT ![op] = v]
  <1>1. op \in {"add", "latency", "throughput"} /\ v \in Values
    BY Types
  <1>2. thread[t].pc = "update" /\ op # "add" /\ op \in Ops[t]
    BY DEF Update, At, OpInv
  <1>3. t = Main
    BY <1>2 DEF ListAssumption, Threads
  <1>4. Exists(thread[t].addr)
    BY <1>2, <1>3
  <1>5. n \in 1 .. Len(heap)
    BY <1>4, FoundOnList
  <1>6. heap \in Seq(HeapNode) /\ heap[n] \in HeapNode
    BY <1>5 DEF TypeOK
  <1>7. heap' = [heap EXCEPT ![n] = r]
    BY <1>5, <1>6 DEF Update
  <1>8. op = "latency" \/ op = "throughput"
    BY <1>1, <1>2
  <1> HIDE DEF n, op, v
  <1>9. /\ r \in HeapNode
        /\ r.addr = heap[n].addr
        /\ r.next = heap[n].next
        /\ r.latency = IF op = "latency" THEN v ELSE heap[n].latency
        /\ r.throughput = IF op = "throughput" THEN v ELSE heap[n].throughput
    <2>1. CASE op = "latency"
      BY <1>1, <1>6, <2>1 DEF HeapNode
    <2>2. CASE op = "throughput"
      BY <1>1, <1>6, <2>2 DEF HeapNode
    <2>3. QED  BY <1>8, <2>1, <2>2
  <1> HIDE DEF r
  <1>10. /\ heap' \in Seq(HeapNode)
         /\ Len(heap') = Len(heap)
         /\ heap'[n] = r
         /\ \A i \in 1 .. Len(heap) : i # n => heap'[i] = heap[i]
    BY <1>5, <1>6, <1>7, <1>9, WriteAt
  <1>11. QED  BY <1>3, <1>4, <1>5, <1>8, <1>9, <1>10 DEF n, op, v

\* What the link of an insertion writes.
LEMMA LinkWrites ==
    ASSUME ListAssumption, TypeOK, NodeInv, NEW t \in Threads, Link(t)
    PROVE  LET n == thread[t].node
           IN  /\ n \in 1 .. Len(heap)
               /\ heap' \in Seq(HeapNode)
               /\ Len(heap') = Len(heap)
               /\ \A i \in 1 .. Len(heap) : i # n => heap'[i] = heap[i]
               /\ heap'[n].addr = heap[n].addr
               /\ heap'[n].next = head
               /\ heap'[n].latency = heap[n].latency
               /\ heap'[n].throughput = heap[n].throughput
  <1> DEFINE n == thread[t].node
             r == [heap[n] EXCEPT !.next = head]
  <1>1. n \in 1 .. Len(heap)
    BY DEF NodeInv, Owns, Link, At
  <1>2. heap \in Seq(HeapNode) /\ heap[n] \in HeapNode
    BY <1>1 DEF TypeOK
  <1>3. heap' = [heap EXCEPT ![n] = r]
    BY <1>1, <1>2 DEF Link
  <1>4. head \in 0 .. HeapSize
    BY DEF TypeOK, ListAssumption
  <1> HIDE DEF n
  <1>5. /\ r \in HeapNode
        /\ r.addr = heap[n].addr
        /\ r.next = head
        /\ r.latency = heap[n].latency
        /\ r.throughput = heap[n].throughput
    BY <1>2, <1>4 DEF HeapNode
  <1> HIDE DEF r
  <1>6. /\ heap' \in Seq(HeapNode)
        /\ Len(heap') = Len(heap)
        /\ heap'[n] = r
        /\ \A i \in 1 .. Len(heap) : i # n => heap'[i] = heap[i]
    BY <1>1, <1>2, <1>3, <1>5, WriteAt
  <1>7. QED  BY <1>1, <1>5, <1>6 DEF n

LEMMA UpdateType ==
    ASSUME ListAssumption, TypeOK, ChainInv, OpInv,
           thread[Main].pc = "update" => Exists(thread[Main].addr),
           NEW t \in Threads, Update(t)
    PROVE  TypeOK'
  <1>1. heap' \in Seq(HeapNode) /\ Len(heap') = Len(heap)
    BY UpdateWrites
  <1>2. Len(heap) \in Nat
    BY Types
  <1>3. thread' \in [Threads -> ThreadRecord(heap')]
    <2>1. Len(heap) <= Len(heap') /\ Len(heap') \in Nat  BY <1>1, <1>2
    <2>2. QED  BY <2>1, GotoType DEF Update
  <1>4. recorded' \in [Addrs ->
               [listed : BOOLEAN, latency : Values, throughput : Values]]
    BY RecordedType DEF Update
  <1>5. QED  BY <1>1, <1>3, <1>4 DEF Update, TypeOK, ThreadRecord

LEMMA LinkType ==
    ASSUME ListAssumption, TypeOK, NodeInv, NEW t \in Threads, Link(t)
    PROVE  TypeOK'
  <1>1. heap' \in Seq(HeapNode) /\ Len(heap') = Len(heap)
    BY LinkWrites
  <1>2. Len(heap) \in Nat
    BY Types
  <1>3. thread' \in [Threads -> ThreadRecord(heap')]
    <2>1. Len(heap) <= Len(heap') /\ Len(heap') \in Nat  BY <1>1, <1>2
    <2>2. QED  BY <2>1, GotoType DEF Link
  <1>4. QED  BY <1>1, <1>3 DEF Link, TypeOK, ThreadRecord

LEMMA PublishType ==
    ASSUME ListAssumption, TypeOK, NEW t \in Threads, Publish(t)
    PROVE  TypeOK'
  <1>1. heap' = heap /\ Len(heap) \in Nat
    BY Types DEF Publish
  <1>2. thread' \in [Threads -> ThreadRecord(heap')]
    BY <1>1, GotoType DEF Publish
  <1>3. recorded' \in [Addrs ->
               [listed : BOOLEAN, latency : Values, throughput : Values]]
    BY RecordedType DEF Publish
  <1>4. head' \in 0 .. Len(heap')
    BY <1>1, Types DEF Publish
  <1>5. QED  BY <1>1, <1>2, <1>3, <1>4 DEF TypeOK, ThreadRecord

-----------------------------------------------------------------------------
(* The list after a step.                                                  *)

\* A step that leaves the head and the nodes of the list alone keeps the list.
LEMMA ListKept ==
    ASSUME ListAssumption, TypeOK, ChainInv, TypeOK', head' = head,
           Len(heap) <= Len(heap'),
           \A i \in 1 .. Len(Chain) : heap'[Chain[i]] = heap[Chain[i]]
    PROVE  ChainInv' /\ Chain' = Chain /\ Entries' = Entries
  <1>1. PICK s : s = Chain
    OBVIOUS
  <1>2. PICK h \in Seq(HeapNode) : h = heap
    BY DEF TypeOK
  <1>3. PICK g \in Seq(HeapNode) : g = heap'
    BY DEF TypeOK
  <1>4. Linked(h, head, s)
    BY <1>1, <1>2 DEF ChainInv
  <1>5. Linked(g, head, s)
    BY <1>1, <1>2, <1>3, <1>4, LinkedKept
  <1>6. ChainOf(g, head) = s
    <2>1. Len(g) <= HeapSize
      BY <1>3 DEF TypeOK
    <2>2. QED  BY <1>5, <2>1, ChainIs
  <1>7. Chain' = s
    BY <1>3, <1>6 DEF Chain
  <1>8. EntriesOf(g, s) = EntriesOf(h, s)
    <2>1. DOMAIN s = 1 .. Len(s)
      BY <1>4 DEF Linked
    <2>2. \A k \in DOMAIN s : g[s[k]] = h[s[k]]
      BY <1>1, <1>2, <1>3, <2>1
    <2>3. QED  BY <2>2 DEF EntriesOf
  <1>9. QED  BY <1>1, <1>2, <1>3, <1>5, <1>7, <1>8 DEF ChainInv, Entries

\* A node that is linked to the node at position j of the list and published:
\* the list goes on from there.
LEMMA ListPublished ==
    ASSUME ListAssumption, TypeOK, ChainInv, TypeOK', heap' = heap,
           NEW n \in 1 .. Len(heap), head' = n,
           \A i \in DOMAIN Chain : Chain[i] # n,
           NEW j \in 1 .. Len(Chain) + 1, heap[n].next = NodeAt(Chain, j)
    PROVE  /\ ChainInv'
           /\ Chain' = <<n>> \o SubSeq(Chain, j, Len(Chain))
           /\ Entries' = InsertNode(From(Entries, j), heap[n])
  <1>1. PICK s : s = Chain
    OBVIOUS
  <1>2. PICK h \in Seq(HeapNode) : h = heap
    BY DEF TypeOK
  <1>3. PICK m \in 1 .. Len(h) : m = n
    BY <1>2
  <1>4. Linked(h, head, s) /\ s \in Seq(1 .. Len(h))
    BY <1>1, <1>2 DEF ChainInv, Linked
  <1>5. PICK u : u = <<m>> \o SubSeq(s, j, Len(s))
    OBVIOUS
  <1>6. Linked(h, m, u)
    <2>1. \A i \in 1 .. Len(s) : s[i] # m
      BY <1>1, <1>3, <1>4
    <2>2. j \in 1 .. Len(s) + 1 /\ h[m].next = NodeAt(s, j)
      BY <1>1, <1>2, <1>3
    <2>3. QED  BY <1>4, <1>5, <2>1, <2>2, LinkedFrom
  <1>7. ChainOf(h, m) = u
    <2>1. Len(h) <= HeapSize
      BY <1>2 DEF TypeOK
    <2>2. QED  BY <1>6, <2>1, ChainIs
  <1>8. Chain' = u
    BY <1>2, <1>3, <1>7 DEF Chain
  <1>9. EntriesOf(h, u) = InsertNode(From(EntriesOf(h, s), j), h[m])
    <2>1. j \in 1 .. Len(s) + 1
      BY <1>1
    <2>2. QED  BY <1>4, <1>5, <2>1, EntriesFrom
  <1>10. Entries' = EntriesOf(h, u) /\ Entries = EntriesOf(h, s)
    BY <1>1, <1>2, <1>8 DEF Entries
  <1>11. QED  BY <1>1, <1>2, <1>3, <1>5, <1>6, <1>8, <1>9, <1>10 DEF ChainInv

-----------------------------------------------------------------------------
(* The inductive invariant, action by action.                              *)

\* The main thread goes on only while the other one is idle.
LEMMA OthersIdle ==
    ASSUME ListAssumption, NEW t \in Threads, NEW pc, At(t, pc)
    PROVE  /\ thread[t].pc = pc
           /\ t = Main => thread[Coap].pc = "idle"
           /\ t = Main \/ t = Coap
           /\ Main # Coap /\ Main \in Threads /\ Coap \in Threads
  BY DEF At, Threads, ListAssumption

\* What is allocated lies behind the nodes of the list.
LEMMA AllocateKeeps ==
    ASSUME ListAssumption, TypeOK, ChainInv, TypeOK', head' = head,
           NEW op \in {"add", "latency", "throughput"},
           NEW a \in Addrs, NEW v \in Values, heap' = Allocate(op, a, v)
    PROVE  /\ ChainInv' /\ Chain' = Chain /\ Entries' = Entries
           /\ Len(heap') = Len(heap) + 1
           /\ Len(heap) \in Nat
           /\ \A i \in 1 .. Len(heap) : heap'[i] = heap[i]
           /\ heap'[Len(heap) + 1].addr = a
           /\ heap'[Len(heap) + 1].latency = IF op = "latency" THEN v ELSE 0
           /\ heap'[Len(heap) + 1].throughput = IF op = "throughput" THEN v ELSE 0
           /\ \A i \in DOMAIN Chain : Chain[i] # Len(heap) + 1
  <1>1. /\ Len(heap') = Len(heap) + 1
        /\ \A i \in 1 .. Len(heap) : heap'[i] = heap[i]
        /\ heap'[Len(heap) + 1] =
              [addr |-> a, next |-> NULL,
               latency |-> IF op = "latency" THEN v ELSE 0,
               throughput |-> IF op = "throughput" THEN v ELSE 0]
    BY AllocateType
  <1>2. Len(heap) \in Nat
    BY DEF TypeOK
  <1>3. \A i \in 1 .. Len(Chain) : Chain[i] \in 1 .. Len(heap)
    BY ListOnHeap
  <1>4. ChainInv' /\ Chain' = Chain /\ Entries' = Entries
    <2>1. Len(heap) <= Len(heap')
      BY <1>1, <1>2
    <2>2. \A i \in 1 .. Len(Chain) : heap'[Chain[i]] = heap[Chain[i]]
      BY <1>1, <1>3
    <2>3. QED  BY <2>1, <2>2, ListKept
  <1>5. \A i \in DOMAIN Chain : Chain[i] # Len(heap) + 1
    BY <1>2, <1>3, ListOnHeap
  <1>6. QED  BY <1>1, <1>2, <1>4, <1>5

\* A thread owns a node of the heap that is not on the list.
LEMMA Owned ==
    ASSUME NodeInv, NEW t \in Threads, Owns(t)
    PROVE  /\ thread[t].node \in 1 .. Len(heap)
           /\ \A i \in DOMAIN Chain : Chain[i] # thread[t].node
           /\ heap[thread[t].node].addr = thread[t].addr
           /\ heap[thread[t].node].latency
                = IF thread[t].op = "latency" THEN thread[t].val ELSE 0
           /\ heap[thread[t].node].throughput
                = IF thread[t].op = "throughput" THEN thread[t].val ELSE 0
  BY DEF NodeInv

\* A measurement is the main thread's; its node is new.
LEMMA MeasureInv ==
    ASSUME ListAssumption, IInv, NEW t \in Threads, Measure(t)
    PROVE  IInv'
  <1>1. TypeOK'
    BY MeasureType DEF IInv
  <1>2. PICK op \in Ops[t] \ {"add"}, a \in Addrs, v \in Values :
           /\ heap' = Allocate(op, a, v)
           /\ thread' = [thread EXCEPT ![t] =
                [pc |-> "search", op |-> op, addr |-> a, val |-> v,
                 node |-> Len(heap) + 1]]
    BY DEF Measure
  <1>3. op \in {"add", "latency", "throughput"} /\ op \in Ops[t] /\ op # "add"
    BY DEF ListAssumption
  <1>4. t = Main /\ thread[Coap].pc = "idle" /\ Main # Coap
        /\ Main \in Threads /\ Coap \in Threads
    BY <1>3, OthersIdle DEF Measure, ListAssumption
  <1>5. thread \in [Threads -> ThreadRecord(heap)]
    BY DEF IInv, TypeOK, ThreadRecord
  <1>6. /\ thread'[Main] = [pc |-> "search", op |-> op, addr |-> a, val |-> v,
                            node |-> Len(heap) + 1]
        /\ thread'[Coap] = thread[Coap]
    BY <1>2, <1>4, <1>5
  <1>7. head' = head /\ recorded' = recorded
    BY DEF Measure
  <1>8. /\ ChainInv' /\ Chain' = Chain /\ Entries' = Entries
        /\ Len(heap') = Len(heap) + 1
        /\ Len(heap) \in Nat
        /\ heap'[Len(heap) + 1].addr = a
        /\ heap'[Len(heap) + 1].latency = IF op = "latency" THEN v ELSE 0
        /\ heap'[Len(heap) + 1].throughput = IF op = "throughput" THEN v ELSE 0
        /\ \A i \in DOMAIN Chain : Chain[i] # Len(heap) + 1
    BY <1>1, <1>2, <1>3, <1>7, AllocateKeeps DEF IInv
  <1>9. OpInv'
    BY <1>3, <1>4, <1>6 DEF OpInv, Threads, IInv
  <1>10. NodeInv'
    <2>1. ~Owns(Coap)'
      BY <1>4, <1>6 DEF Owns
    <2>2. Len(heap) + 1 \in 1 .. Len(heap')
      BY <1>8
    <2>3. QED  BY <1>4, <1>6, <1>8, <2>1, <2>2 DEF NodeInv, Threads
  <1>11. CoapInv'
    BY <1>4, <1>6 DEF CoapInv
  <1>12. MainInv'
    BY <1>6, <1>7, <1>8 DEF MainInv, IInv, Agrees
  <1>13. QED  BY <1>1, <1>8, <1>9, <1>10, <1>11, <1>12 DEF IInv

\* A thread that starts to count a neighbour owns no node.
LEMMA CountInv ==
    ASSUME ListAssumption, IInv, NEW t \in Threads, Count(t)
    PROVE  IInv'
  <1>1. TypeOK'
    BY CountType DEF IInv
  <1>2. PICK a \in Addrs : thread' = [thread EXCEPT ![t] =
                [pc |-> "search", op |-> "add", addr |-> a, val |-> 0,
                 node |-> NULL]]
    BY DEF Count
  <1>3. /\ thread[t].pc = "idle" /\ "add" \in Ops[t]
        /\ t = Main => thread[Coap].pc = "idle"
        /\ t = Main \/ t = Coap
        /\ Main # Coap /\ Main \in Threads /\ Coap \in Threads
    BY OthersIdle DEF Count
  <1>4. thread \in [Threads -> ThreadRecord(heap)]
    BY DEF IInv, TypeOK, ThreadRecord
  <1>5. /\ thread'[t] = [pc |-> "search", op |-> "add", addr |-> a, val |-> 0,
                         node |-> NULL]
        /\ \A u \in Threads : u # t => thread'[u] = thread[u]
    BY <1>2, <1>4
  <1>6. heap' = heap /\ head' = head /\ recorded' = recorded
    BY DEF Count
  <1>7. Chain' = Chain /\ Entries' = Entries /\ ChainInv'
    BY <1>6 DEF Chain, Entries, ChainInv, IInv
  <1>8. OpInv'
    BY <1>3, <1>5 DEF OpInv, IInv
  <1>9. ~Owns(t)' /\ \A u \in Threads : u # t => Owns(u)' = Owns(u)
    BY <1>5 DEF Owns
  <1>10. NodeInv'
    <2>1. ASSUME NEW u \in Threads, Owns(u)'
          PROVE  u # t /\ Owns(u) /\ thread'[u] = thread[u]
      BY <1>5, <1>9, <2>1
    <2>2. ~(Owns(Main)' /\ Owns(Coap)')
      BY <1>3, <1>9
    <2>3. QED  BY <1>6, <1>7, <2>1, <2>2 DEF NodeInv, IInv
  <1>11. CoapInv'
    <2>1. CASE t = Coap
      BY <1>5, <2>1 DEF CoapInv
    <2>2. CASE t = Main
      BY <1>3, <1>5, <2>2 DEF CoapInv
    <2>3. QED  BY <1>3, <2>1, <2>2
  <1>12. MainInv'
    <2>1. CASE t = Main
      BY <1>5, <1>6, <1>7, <2>1 DEF MainInv, IInv, Agrees
    <2>2. CASE t = Coap
      <3>1. thread'[Main] = thread[Main]
        BY <1>3, <1>5, <2>2
      <3>2. QED  BY <1>6, <1>7, <3>1 DEF MainInv, IInv, Agrees, Exists
    <2>3. QED  BY <1>3, <2>1, <2>2
  <1>13. QED  BY <1>1, <1>7, <1>8, <1>10, <1>11, <1>12 DEF IInv

\* What is recorded of a neighbour is on the list, so that one that is not
\* found there is not recorded.
LEMMA NotRecorded ==
    ASSUME ListAssumption, IInv, NEW a \in Addrs, ~Exists(a)
    PROVE  ~recorded[a].listed /\ recorded[a] = Unlisted
  <1>1. Entries \in Seq(HeapNode)
    BY ListOnHeap DEF IInv
  <1>2. ~TableOf(Entries)[a].listed
    BY <1>1, TableLists DEF Exists
  <1>3. QED  BY <1>2 DEF IInv, MainInv, Agrees

\* The search ends at a node, or at the end of the list.
LEMMA SearchInv ==
    ASSUME ListAssumption, IInv, NEW t \in Threads, Search(t)
    PROVE  IInv'
  <1>1. TypeOK' /\ TypeOK
    BY SearchType DEF IInv
  <1>2. /\ thread[t].pc = "search"
        /\ t = Main => thread[Coap].pc = "idle"
        /\ t = Main \/ t = Coap
        /\ Main # Coap /\ Main \in Threads /\ Coap \in Threads
    BY OthersIdle DEF Search
  <1>3. thread[t].op \in Ops[t]
    BY <1>2 DEF IInv, OpInv
  <1>4. t = Coap => thread[t].op = "add"
    BY <1>3 DEF ListAssumption
  <1>5. thread[t].addr \in Addrs
    BY Types DEF IInv
  <1>6. head' = head /\ recorded' = recorded
    BY DEF Search
  <1>7. CASE heap' = heap /\ \E pc \in {"idle", "update", "link"} :
                /\ Goto(t, pc)
                /\ pc = "update" => Exists(thread[t].addr) /\ thread[t].op # "add"
                /\ pc = "link" => ~Exists(thread[t].addr) /\ thread[t].op # "add"
    <2>1. PICK pc \in {"idle", "update", "link"} :
                /\ Goto(t, pc)
                /\ pc = "update" => Exists(thread[t].addr) /\ thread[t].op # "add"
                /\ pc = "link" => ~Exists(thread[t].addr) /\ thread[t].op # "add"
      BY <1>7
    <2>2. /\ thread'[t].pc = pc
          /\ thread'[t].op = thread[t].op
          /\ thread'[t].addr = thread[t].addr
          /\ thread'[t].val = thread[t].val
          /\ thread'[t].node = thread[t].node
          /\ \A u \in Threads : u # t => thread'[u] = thread[u]
      BY <1>1, <2>1, GotoKeeps
    <2>3. Chain' = Chain /\ Entries' = Entries /\ ChainInv'
      BY <1>6, <1>7 DEF Chain, Entries, ChainInv, IInv
    <2>4. OpInv'
      BY <1>2, <1>3, <2>1, <2>2 DEF OpInv, IInv
    <2>5. NodeInv'
      <3>1. Owns(t)' => Owns(t)
        BY <1>2, <2>1, <2>2 DEF Owns
      <3>2. \A u \in Threads : u # t => Owns(u)' = Owns(u)
        BY <2>2 DEF Owns
      <3>3. \A u \in Threads :
               /\ Owns(u)' => Owns(u)
               /\ thread'[u].op = thread[u].op
               /\ thread'[u].addr = thread[u].addr
               /\ thread'[u].val = thread[u].val
               /\ thread'[u].node = thread[u].node
        BY <2>2, <3>1, <3>2
      <3>4. QED  BY <1>2, <1>7, <2>3, <3>3 DEF NodeInv, IInv
    <2>6. CoapInv'
      <3>1. CASE t = Coap
        BY <1>4, <2>1, <2>2, <3>1 DEF CoapInv
      <3>2. CASE t = Main
        BY <1>2, <2>2, <3>2 DEF CoapInv
      <3>3. QED  BY <1>2, <3>1, <3>2
    <2>7. MainInv'
      <3>1. CASE t = Main
        <4>1. pc = "link" => ~recorded[thread[t].addr].listed
          BY <1>5, <2>1, NotRecorded
        <4>2. QED
          BY <1>6, <2>1, <2>2, <2>3, <3>1, <4>1 DEF MainInv, IInv, Agrees, Exists
      <3>2. CASE t = Coap
        <4>1. thread'[Main] = thread[Main]
          BY <1>2, <2>2, <3>2
        <4>2. QED  BY <1>6, <1>7, <2>3, <4>1 DEF MainInv, IInv, Agrees, Exists
      <3>3. QED  BY <1>2, <3>1, <3>2
    <2>8. QED  BY <1>1, <2>3, <2>4, <2>5, <2>6, <2>7 DEF IInv
  <1>8. CASE /\ ~Exists(thread[t].addr) /\ thread[t].op = "add"
             /\ heap' = Allocate("add", thread[t].addr, thread[t].val)
             /\ thread' = [thread EXCEPT ![t] =
                   [[thread[t] EXCEPT !.pc = "link"] EXCEPT !.node = Len(heap) + 1]]
    <2>1. thread \in [Threads -> ThreadRecord(heap)] /\ thread[t] \in ThreadRecord(heap)
      BY <1>1 DEF TypeOK, ThreadRecord
    <2>2. /\ thread'[t].pc = "link"
          /\ thread'[t].op = "add"
          /\ thread'[t].addr = thread[t].addr
          /\ thread'[t].node = Len(heap) + 1
          /\ \A u \in Threads : u # t => thread'[u] = thread[u]
      <3>1. thread'[t] = [[thread[t] EXCEPT !.pc = "link"] EXCEPT !.node = Len(heap) + 1]
        BY <1>8, <2>1
      <3>2. QED  BY <1>8, <2>1, <3>1 DEF ThreadRecord
    <2>3. /\ ChainInv' /\ Chain' = Chain /\ Entries' = Entries
          /\ Len(heap') = Len(heap) + 1
          /\ Len(heap) \in Nat
          /\ \A i \in 1 .. Len(heap) : heap'[i] = heap[i]
          /\ heap'[Len(heap) + 1].addr = thread[t].addr
          /\ heap'[Len(heap) + 1].latency = 0
          /\ heap'[Len(heap) + 1].throughput = 0
          /\ \A i \in DOMAIN Chain : Chain[i] # Len(heap) + 1
      <3>1. thread[t].val \in Values
        BY <1>1, Types
      <3>2. PICK v \in Values : v = thread[t].val
        BY <3>1
      <3>3. PICK a \in Addrs : a = thread[t].addr
        BY <1>5
      <3>4. heap' = Allocate("add", a, v)
        BY <1>8, <3>2, <3>3
      <3>5. QED  BY <1>1, <1>6, <3>3, <3>4, AllocateKeeps DEF IInv
    <2>4. OpInv'
      BY <1>2, <1>3, <1>8, <2>2 DEF OpInv, IInv
    <2>5. Len(heap) + 1 \in 1 .. Len(heap')
      BY <2>3
    <2>6. ASSUME NEW u \in Threads, u # t, Owns(u)'
          PROVE  /\ Owns(u) /\ thread'[u] = thread[u]
                 /\ thread[u].node \in 1 .. Len(heap)
                 /\ thread[u].node \in 1 .. Len(heap')
                 /\ thread[u].node # Len(heap) + 1
                 /\ heap'[thread[u].node] = heap[thread[u].node]
      <3>1. thread'[u] = thread[u] /\ Owns(u)
        BY <2>2, <2>6 DEF Owns
      <3>2. thread[u].node \in 1 .. Len(heap)
        BY <3>1, Owned DEF IInv
      <3>3. QED  BY <2>3, <3>1, <3>2
    <2>7. NodeInv'
      <3>1. ASSUME NEW u \in Threads, Owns(u)'
            PROVE  LET r == thread'[u]
                   IN  /\ r.node \in 1 .. Len(heap')
                       /\ \A i \in DOMAIN Chain' : Chain'[i] # r.node
                       /\ heap'[r.node].addr = r.addr
                       /\ heap'[r.node].latency = IF r.op = "latency" THEN r.val ELSE 0
                       /\ heap'[r.node].throughput =
                              IF r.op = "throughput" THEN r.val ELSE 0
        <4>1. CASE u = t
          BY <2>2, <2>3, <2>5, <4>1
        <4>2. CASE u # t
          BY <2>3, <2>6, <3>1, <4>2, Owned DEF IInv
        <4>3. QED  BY <4>1, <4>2
      <3>2. Owns(Main)' /\ Owns(Coap)' => thread'[Main].node # thread'[Coap].node
        <4>1. CASE t = Main
          BY <1>2, <2>2, <2>6, <4>1
        <4>2. CASE t = Coap
          BY <1>2, <2>2, <2>6, <4>2
        <4>3. QED  BY <1>2, <4>1, <4>2
      <3>3. QED  BY <3>1, <3>2 DEF NodeInv
    <2>8. CoapInv'
      <3>1. CASE t = Coap
        BY <1>8, <2>2, <2>3, <3>1 DEF CoapInv, Exists
      <3>2. CASE t = Main
        BY <1>2, <2>2, <3>2 DEF CoapInv
      <3>3. QED  BY <1>2, <3>1, <3>2
    <2>9. MainInv'
      <3>1. CASE t = Main
        <4>1. ~recorded[thread[t].addr].listed
          BY <1>5, <1>8, NotRecorded
        <4>2. QED
          BY <1>6, <2>2, <2>3, <3>1, <4>1 DEF MainInv, IInv, Agrees
      <3>2. CASE t = Coap
        <4>1. thread'[Main] = thread[Main]
          BY <1>2, <2>2, <3>2
        <4>2. thread[Main].pc = "publish" =>
                 heap'[thread[Main].node] = heap[thread[Main].node]
          BY <1>2, <2>6, <3>2, <4>1 DEF Owns
        <4>3. QED
          BY <1>6, <2>3, <4>1, <4>2 DEF MainInv, IInv, Agrees, Exists
      <3>3. QED  BY <1>2, <3>1, <3>2
    <2>10. QED  BY <1>1, <2>3, <2>4, <2>7, <2>8, <2>9 DEF IInv
  <1>9. QED
    <2>1. \/ /\ Exists(thread[t].addr)
             /\ Goto(t, IF thread[t].op = "add" THEN "idle" ELSE "update")
             /\ heap' = heap
          \/ /\ ~Exists(thread[t].addr) /\ thread[t].op # "add"
             /\ Goto(t, "link")
             /\ heap' = heap
          \/ /\ ~Exists(thread[t].addr) /\ thread[t].op = "add"
             /\ heap' = Allocate("add", thread[t].addr, thread[t].val)
             /\ thread' = [thread EXCEPT ![t] =
                   [[thread[t] EXCEPT !.pc = "link"] EXCEPT !.node = Len(heap) + 1]]
      BY <1>1, SearchCases
    <2>2. QED  BY <1>7, <1>8, <2>1

\* What an update does to the list: its nodes stay, one entry changes.
LEMMA UpdateKeeps ==
    ASSUME ListAssumption, IInv, TypeOK', NEW t \in Threads, Update(t)
    PROVE  LET k == First(Positions(Entries, thread[t].addr))
           IN  /\ ChainInv' /\ Chain' = Chain
               /\ Entries' \in Seq(HeapNode) /\ Len(Entries') = Len(Entries)
               /\ \A i \in 1 .. Len(Entries) : Entries'[i].addr = Entries[i].addr
               /\ \A i \in 1 .. Len(Entries) : i # k => Entries'[i] = Entries[i]
               /\ k \in 1 .. Len(Entries)
               /\ Entries'[k].latency = IF thread[t].op = "latency"
                     THEN thread[t].val ELSE Entries[k].latency
               /\ Entries'[k].throughput = IF thread[t].op = "throughput"
                     THEN thread[t].val ELSE Entries[k].throughput
  <1> DEFINE n == Found(thread[t].addr)
             k == First(Positions(Entries, thread[t].addr))
  <1>1. /\ Exists(thread[t].addr)
        /\ n \in 1 .. Len(heap)
        /\ Len(heap') = Len(heap)
        /\ \A i \in 1 .. Len(heap) : i # n => heap'[i] = heap[i]
        /\ heap'[n].addr = heap[n].addr
        /\ heap'[n].next = heap[n].next
        /\ heap'[n].latency = IF thread[t].op = "latency"
                              THEN thread[t].val ELSE heap[n].latency
        /\ heap'[n].throughput = IF thread[t].op = "throughput"
                                 THEN thread[t].val ELSE heap[n].throughput
    BY UpdateWrites DEF IInv, MainInv
  <1>2. /\ Chain \in Seq(1 .. Len(heap))
        /\ Len(Entries) = Len(Chain)
        /\ \A i \in 1 .. Len(Chain) : Entries[i] = heap[Chain[i]]
    BY ListOnHeap DEF IInv
  <1>3. k \in 1 .. Len(Chain) /\ n = Chain[k]
    BY <1>1, FoundOnList DEF IInv
  <1> HIDE DEF n, k
  <1>4. PICK s : s = Chain
    OBVIOUS
  <1>5. PICK h \in Seq(HeapNode) : h = heap
    BY DEF IInv, TypeOK
  <1>6. PICK g \in Seq(HeapNode) : g = heap'
    BY DEF TypeOK
  <1>7. Linked(h, head, s)
    BY <1>4, <1>5 DEF ChainInv, IInv
  <1>8. \A i \in 1 .. Len(s) : g[s[i]].next = h[s[i]].next
    BY <1>1, <1>2, <1>4, <1>5, <1>6
  <1>9. Linked(g, head, s)
    <2>1. Len(h) <= Len(g)
      BY <1>1, <1>5, <1>6
    <2>2. QED  BY <1>7, <1>8, <2>1, LinkedKept
  <1>10. ChainOf(g, head) = s
    <2>1. Len(g) <= HeapSize
      BY <1>6 DEF TypeOK
    <2>2. QED  BY <1>9, <2>1, ChainIs
  <1>11. head' = head
    BY DEF Update
  <1>12. Chain' = s
    BY <1>6, <1>10, <1>11 DEF Chain
  <1>13. ChainInv'
    BY <1>6, <1>9, <1>11, <1>12 DEF ChainInv
  <1>14. /\ Entries' \in Seq(HeapNode)
         /\ Len(Entries') = Len(Chain)
         /\ \A i \in 1 .. Len(Chain) : Entries'[i] = heap'[Chain[i]]
    <2>1. s \in Seq(1 .. Len(g))
      BY <1>9 DEF Linked
    <2>2. /\ EntriesOf(g, s) \in Seq(HeapNode)
          /\ Len(EntriesOf(g, s)) = Len(s)
          /\ \A i \in 1 .. Len(s) : EntriesOf(g, s)[i] = g[s[i]]
      BY <2>1, EntriesAt
    <2>3. QED  BY <1>4, <1>6, <1>12, <2>2 DEF Entries
  <1>15. \A i \in 1 .. Len(Chain) :
            /\ Chain[i] \in 1 .. Len(heap)
            /\ i # k => Chain[i] # n
    <2>1. \A i, j \in 1 .. Len(Chain) : Chain[i] = Chain[j] => i = j
      BY <1>4, <1>7 DEF Linked
    <2>2. QED  BY <1>2, <1>3, <2>1
  <1>16. \A i \in 1 .. Len(Chain) : i # k => Entries'[i] = Entries[i]
    BY <1>1, <1>2, <1>14, <1>15
  <1>17. Entries'[k] = heap'[n] /\ Entries[k] = heap[n]
    BY <1>2, <1>3, <1>14
  <1>18. \A i \in 1 .. Len(Entries) : Entries'[i].addr = Entries[i].addr
    BY <1>1, <1>2, <1>16, <1>17
  <1>19. QED
    BY <1>1, <1>2, <1>3, <1>4, <1>12, <1>13, <1>14, <1>16, <1>17, <1>18 DEF k

\* The fields of what is recorded, and those of the other neighbours.
LEMMA RecordedAt ==
    ASSUME ListAssumption, TypeOK, NEW t \in Threads, Recorded(t),
           thread[t].op \in {"latency", "throughput"}, NEW a \in Addrs
    PROVE  /\ a # thread[t].addr => recorded'[a] = recorded[a]
           /\ a = thread[t].addr =>
                /\ recorded'[a].listed
                /\ recorded'[a].latency = IF thread[t].op = "latency"
                      THEN thread[t].val ELSE recorded[a].latency
                /\ recorded'[a].throughput = IF thread[t].op = "throughput"
                      THEN thread[t].val ELSE recorded[a].throughput
  <1> DEFINE Row == [listed : BOOLEAN, latency : Values, throughput : Values]
             b == thread[t].addr
             op == thread[t].op
             v == thread[t].val
             row == [[recorded[b] EXCEPT !.listed = TRUE] EXCEPT ![op] = v]
  <1>1. recorded \in [Addrs -> Row] /\ b \in Addrs /\ recorded[b] \in Row
    BY Types DEF TypeOK
  <1>2. recorded' = [recorded EXCEPT ![b] = row]
    BY <1>1 DEF Recorded
  <1>3. op = "latency" \/ op = "throughput"
    OBVIOUS
  <1> HIDE DEF b, op, v
  <1>4. /\ row.listed
        /\ row.latency = IF op = "latency" THEN v ELSE recorded[b].latency
        /\ row.throughput = IF op = "throughput" THEN v ELSE recorded[b].throughput
    <2>1. CASE op = "latency"
      BY <1>1, <2>1
    <2>2. CASE op = "throughput"
      BY <1>1, <2>2
    <2>3. QED  BY <1>3, <2>1, <2>2
  <1> HIDE DEF row, Row
  <1>5. QED  BY <1>1, <1>2, <1>4 DEF b, op, v

\* After an update the table agrees with what has been recorded.
LEMMA UpdateAgrees ==
    ASSUME ListAssumption, IInv, TypeOK', NEW t \in Threads, Update(t)
    PROVE  /\ Agrees(Entries)'
           /\ \A a \in Addrs : ~recorded'[a].listed => recorded'[a] = Unlisted
           /\ \A a \in Addrs :
                 Table'[a] = IF a = thread[t].addr
                             THEN Told(Entries'[First(Positions(Entries, a))])
                             ELSE Table[a]
           /\ Told(Entries[First(Positions(Entries, thread[t].addr))])
                = Table[thread[t].addr]
  <1>1. PICK b \in Addrs : b = thread[t].addr
    BY Types DEF IInv
  <1>2. PICK k : k = First(Positions(Entries, b))
    OBVIOUS
  <1>3. /\ Entries' \in Seq(HeapNode) /\ Len(Entries') = Len(Entries)
        /\ \A i \in 1 .. Len(Entries) : Entries'[i].addr = Entries[i].addr
        /\ \A i \in 1 .. Len(Entries) : i # k => Entries'[i] = Entries[i]
        /\ k \in 1 .. Len(Entries)
        /\ Entries'[k].latency = IF thread[t].op = "latency"
              THEN thread[t].val ELSE Entries[k].latency
        /\ Entries'[k].throughput = IF thread[t].op = "throughput"
              THEN thread[t].val ELSE Entries[k].throughput
    BY <1>1, <1>2, UpdateKeeps
  <1>4. Entries \in Seq(HeapNode)
    BY ListOnHeap DEF IInv
  <1>5. Exists(b) /\ thread[t].op \in {"latency", "throughput"}
    BY <1>1, UpdateWrites DEF IInv, MainInv
  <1>6. PICK l \in Seq(HeapNode) : l = Entries
    BY <1>4
  <1>7. PICK m \in Seq(HeapNode) : m = Entries'
    BY <1>3
  <1>8. NodeExists(l, b) /\ k = First(Positions(l, b))
    BY <1>2, <1>5, <1>6 DEF Exists
  <1>9. \A a \in Addrs : TableOf(m)[a] = IF a = b THEN Told(m[k]) ELSE TableOf(l)[a]
    <2>1. Len(m) = Len(l)
      BY <1>3, <1>6, <1>7
    <2>2. \A i \in 1 .. Len(l) : m[i].addr = l[i].addr
      BY <1>3, <1>6, <1>7
    <2>3. \A i \in 1 .. Len(l) : i # First(Positions(l, b)) => m[i] = l[i]
      BY <1>3, <1>6, <1>7, <1>8
    <2>4. ASSUME NEW a \in Addrs
          PROVE  TableOf(m)[a] = IF a = b THEN Told(m[First(Positions(l, b))])
                                 ELSE TableOf(l)[a]
      <3>1. NodeExists(l, b)
        BY <1>8
      <3>2. QED  BY ONLY <1>6, <1>7, <2>1, <2>2, <2>3, <3>1, TableUpdate
    <2>5. QED  BY <1>8, <2>4
  <1>10. TableOf(l)[b] = Told(l[k])
    <2>1. /\ k \in 1 .. Len(l) /\ l[k].addr = b
          /\ \A i \in 1 .. Len(l) : l[i].addr = b => k <= i
      BY <1>8, FirstFound
    <2>2. QED  BY <2>1, TableTells
  <1>11. /\ Told(m[k]).listed
         /\ Told(m[k]).latency = IF thread[t].op = "latency"
                THEN thread[t].val ELSE l[k].latency
         /\ Told(m[k]).throughput = IF thread[t].op = "throughput"
                THEN thread[t].val ELSE l[k].throughput
    BY <1>3, <1>6, <1>7 DEF Told
  <1>12. Recorded(t)
    BY DEF Update
  <1>13. \A a \in Addrs :
            /\ recorded[a].listed => TableOf(l)[a].listed
            /\ TableOf(l)[a].latency = recorded[a].latency
            /\ TableOf(l)[a].throughput = recorded[a].throughput
    BY <1>6 DEF IInv, MainInv, Agrees
  <1>14. ASSUME NEW a \in Addrs
         PROVE  /\ recorded'[a].listed => TableOf(m)[a].listed
                /\ TableOf(m)[a].latency = recorded'[a].latency
                /\ TableOf(m)[a].throughput = recorded'[a].throughput
    <2>1. CASE a = b
      <3>1. TableOf(m)[a] = Told(m[k])
        BY <1>9, <2>1
      <3>2. recorded[a].latency = l[k].latency /\ recorded[a].throughput = l[k].throughput
        BY <1>10, <1>13, <2>1 DEF Told
      <3>3. /\ recorded'[a].latency = IF thread[t].op = "latency"
                  THEN thread[t].val ELSE recorded[a].latency
            /\ recorded'[a].throughput = IF thread[t].op = "throughput"
                  THEN thread[t].val ELSE recorded[a].throughput
        BY <1>1, <1>5, <1>12, <2>1, RecordedAt DEF IInv
      <3>4. QED  BY <1>11, <3>1, <3>2, <3>3
    <2>2. CASE a # b
      <3>1. recorded'[a] = recorded[a]
        BY <1>1, <1>5, <1>12, <2>2, RecordedAt DEF IInv
      <3>2. TableOf(m)[a] = TableOf(l)[a]
        BY <1>9, <2>2
      <3>3. QED  BY <1>13, <3>1, <3>2
    <2>3. QED  BY <2>1, <2>2
  <1>15. Agrees(Entries)'
    BY <1>7, <1>14 DEF Agrees
  <1>16. ASSUME NEW a \in Addrs, ~recorded'[a].listed  PROVE recorded'[a] = Unlisted
    <2>1. a # b
      BY <1>1, <1>5, <1>12, <1>16, RecordedAt DEF IInv
    <2>2. recorded'[a] = recorded[a]
      BY <1>1, <1>5, <1>12, <2>1, RecordedAt DEF IInv
    <2>3. QED  BY <1>16, <2>2 DEF IInv, MainInv
  <1>17. Table = TableOf(l) /\ Table' = TableOf(m)
    BY <1>6, <1>7 DEF Table
  <1>18. QED  BY <1>1, <1>2, <1>6, <1>7, <1>9, <1>10, <1>15, <1>16, <1>17

LEMMA UpdateInv ==
    ASSUME ListAssumption, IInv, NEW t \in Threads, Update(t)
    PROVE  IInv'
  <1>1. TypeOK'
    BY UpdateType DEF IInv, MainInv
  <1>2. t = Main /\ thread[Coap].pc = "idle"
        /\ Main # Coap /\ Main \in Threads /\ Coap \in Threads
    BY OthersIdle, UpdateWrites DEF Update, IInv, MainInv
  <1>3. thread'[Main].pc = "idle" /\ thread'[Coap] = thread[Coap]
    BY <1>2, GotoKeeps DEF Update, IInv
  <1>4. ChainInv'
    BY <1>1, UpdateKeeps
  <1>5. OpInv'
    BY <1>2, <1>3 DEF OpInv, Threads
  <1>6. NodeInv'
    <2>1. ~Owns(Main)' /\ ~Owns(Coap)'
      BY <1>2, <1>3 DEF Owns
    <2>2. QED  BY <2>1 DEF NodeInv, Threads
  <1>7. CoapInv'
    BY <1>2, <1>3 DEF CoapInv
  <1>8. MainInv'
    BY <1>1, <1>3, UpdateAgrees DEF MainInv
  <1>9. QED  BY <1>1, <1>4, <1>5, <1>6, <1>7, <1>8 DEF IInv

\* The node that is linked in is on no list, so that no list changes.
LEMMA LinkKeeps ==
    ASSUME ListAssumption, IInv, TypeOK', NEW t \in Threads, Link(t)
    PROVE  ChainInv' /\ Chain' = Chain /\ Entries' = Entries
  <1>1. /\ thread[t].node \in 1 .. Len(heap)
        /\ Len(heap') = Len(heap)
        /\ \A i \in 1 .. Len(heap) : i # thread[t].node => heap'[i] = heap[i]
    BY LinkWrites DEF IInv
  <1>2. \A i \in 1 .. Len(Chain) : Chain[i] \in 1 .. Len(heap) /\ Chain[i] # thread[t].node
    <2>1. Owns(t)
      BY DEF Link, At, Owns
    <2>2. QED  BY <2>1, Owned, ListOnHeap DEF IInv
  <1>3. \A i \in 1 .. Len(Chain) : heap'[Chain[i]] = heap[Chain[i]]
    BY <1>1, <1>2
  <1>4. Len(heap) <= Len(heap')
    BY <1>1 DEF IInv, TypeOK
  <1>5. head' = head
    BY DEF Link
  <1>6. QED  BY <1>3, <1>4, <1>5, ListKept DEF IInv

LEMMA LinkInv ==
    ASSUME ListAssumption, IInv, NEW t \in Threads, Link(t)
    PROVE  IInv'
  <1>1. TypeOK'
    BY LinkType DEF IInv
  <1>2. /\ thread[t].pc = "link"
        /\ t = Main => thread[Coap].pc = "idle"
        /\ t = Main \/ t = Coap
        /\ Main # Coap /\ Main \in Threads /\ Coap \in Threads
    BY OthersIdle DEF Link
  <1>3. /\ thread'[t].pc = "publish"
        /\ thread'[t].op = thread[t].op
        /\ thread'[t].addr = thread[t].addr
        /\ thread'[t].val = thread[t].val
        /\ thread'[t].node = thread[t].node
        /\ \A u \in Threads : u # t => thread'[u] = thread[u]
    BY GotoKeeps DEF Link, IInv
  <1>4. PICK n \in 1 .. Len(heap) : n = thread[t].node
    BY LinkWrites DEF IInv
  <1>5. /\ Len(heap') = Len(heap)
        /\ \A i \in 1 .. Len(heap) : i # n => heap'[i] = heap[i]
        /\ heap'[n].addr = heap[n].addr
        /\ heap'[n].next = head
        /\ heap'[n].latency = heap[n].latency
        /\ heap'[n].throughput = heap[n].throughput
    BY <1>4, LinkWrites DEF IInv
  <1>6. ChainInv' /\ Chain' = Chain /\ Entries' = Entries
    BY <1>1, LinkKeeps
  <1>7. head' = head /\ recorded' = recorded
    BY DEF Link
  <1>8. OpInv'
    BY <1>2, <1>3 DEF OpInv, IInv
  <1>9. Owns(t)
    BY <1>2 DEF Owns
  <1>10. \A u \in Threads : Owns(u)' => Owns(u)
    BY <1>3, <1>9 DEF Owns
  <1>11. ASSUME NEW u \in Threads, u # t, Owns(u)
         PROVE  thread[u].node # n /\ heap'[thread[u].node] = heap[thread[u].node]
    <2>1. thread[u].node # n
      BY <1>2, <1>4, <1>9, <1>11 DEF NodeInv, IInv, Threads
    <2>2. thread[u].node \in 1 .. Len(heap)
      BY <1>11, Owned DEF IInv
    <2>3. QED  BY <1>5, <2>1, <2>2
  <1>12. NodeInv'
    <2>1. ASSUME NEW u \in Threads, Owns(u)'
          PROVE  LET r == thread'[u]
                 IN  /\ r.node \in 1 .. Len(heap')
                     /\ \A i \in DOMAIN Chain' : Chain'[i] # r.node
                     /\ heap'[r.node].addr = r.addr
                     /\ heap'[r.node].latency = IF r.op = "latency" THEN r.val ELSE 0
                     /\ heap'[r.node].throughput =
                            IF r.op = "throughput" THEN r.val ELSE 0
      <3>1. Owns(u)
        BY <1>10, <2>1
      <3>2. CASE u = t
        BY <1>3, <1>4, <1>5, <1>6, <1>9, <3>2, Owned DEF IInv
      <3>3. CASE u # t
        BY <1>3, <1>5, <1>6, <1>11, <3>1, <3>3, Owned DEF IInv
      <3>4. QED  BY <3>2, <3>3
    <2>2. Owns(Main)' /\ Owns(Coap)' => thread'[Main].node # thread'[Coap].node
      BY <1>2, <1>3, <1>10 DEF NodeInv, IInv
    <2>3. QED  BY <2>1, <2>2 DEF NodeInv
  <1>13. CoapInv'
    <2>1. CASE t = Coap
      <3>1. ~Exists(thread[Coap].addr)
        BY <1>2, <2>1 DEF CoapInv, IInv
      <3>2. QED  BY <1>3, <1>4, <1>5, <1>6, <1>7, <2>1, <3>1 DEF CoapInv, Exists
    <2>2. CASE t = Main
      BY <1>2, <1>3, <2>2 DEF CoapInv
    <2>3. QED  BY <1>2, <2>1, <2>2
  <1>14. MainInv'
    <2>1. CASE t = Main
      <3>1. 1 \in 1 .. Len(Chain) + 1
        BY ListOnHeap DEF IInv
      <3>2. heap'[thread'[Main].node].next = NodeAt(Chain, 1)
        BY <1>3, <1>4, <1>5, <2>1, ListOnHeap DEF IInv
      <3>3. From(Entries, 1) = Entries
        BY ListOnHeap, FromFirst DEF IInv
      <3>4. Agrees(From(Entries, 1))
        BY <3>3 DEF IInv, MainInv
      <3>5. \E j \in 1 .. Len(Chain') + 1 :
               /\ heap'[thread'[Main].node].next = NodeAt(Chain', j)
               /\ Agrees(From(Entries, j))'
        BY <1>6, <1>7, <3>1, <3>2, <3>4 DEF Agrees
      <3>6. ~recorded[thread[Main].addr].listed
        BY <1>2, <2>1 DEF IInv, MainInv
      <3>7. QED
        BY <1>3, <1>6, <1>7, <2>1, <3>5, <3>6 DEF MainInv, IInv, Agrees
    <2>2. CASE t = Coap
      <3>1. thread'[Main] = thread[Main]
        BY <1>2, <1>3, <2>2
      <3>2. thread[Main].pc = "publish" =>
               heap'[thread[Main].node] = heap[thread[Main].node]
        BY <1>2, <1>11, <2>2 DEF Owns
      <3>3. QED
        BY <1>6, <1>7, <3>1, <3>2 DEF MainInv, IInv, Agrees, Exists
    <2>3. QED  BY <1>2, <2>1, <2>2
  <1>15. QED  BY <1>1, <1>6, <1>8, <1>12, <1>13, <1>14 DEF IInv

\* What becomes of the list when the gcoap thread publishes its node, and when
\* the main thread does, which may have linked it to a later part of the list.
LEMMA PublishList ==
    ASSUME ListAssumption, IInv, TypeOK', NEW t \in Threads, Publish(t),
           NEW j \in 1 .. Len(Chain) + 1,
           heap[thread[t].node].next = NodeAt(Chain, j)
    PROVE  /\ thread[t].node \in 1 .. Len(heap)
           /\ heap[thread[t].node] \in HeapNode
           /\ ChainInv'
           /\ Chain' = <<thread[t].node>> \o SubSeq(Chain, j, Len(Chain))
           /\ Entries' = InsertNode(From(Entries, j), heap[thread[t].node])
           /\ From(Entries, j) \in Seq(HeapNode)
           /\ \A a \in Addrs :
                 Table'[a] = IF a = thread[t].addr THEN Told(heap[thread[t].node])
                             ELSE TableOf(From(Entries, j))[a]
  <1>1. Owns(t)
    BY DEF Publish, At, Owns
  <1>2. /\ thread[t].node \in 1 .. Len(heap)
        /\ \A i \in DOMAIN Chain : Chain[i] # thread[t].node
        /\ heap[thread[t].node].addr = thread[t].addr
    BY <1>1, Owned DEF IInv
  <1>3. PICK n \in 1 .. Len(heap) : n = thread[t].node
    BY <1>2
  <1>4. heap' = heap /\ head' = n
    BY <1>3 DEF Publish
  <1>5. \A i \in DOMAIN Chain : Chain[i] # n
    BY <1>2, <1>3
  <1>6. /\ ChainInv'
        /\ Chain' = <<n>> \o SubSeq(Chain, j, Len(Chain))
        /\ Entries' = InsertNode(From(Entries, j), heap[n])
    BY <1>3, <1>4, <1>5, ListPublished DEF IInv
  <1>7. heap[n] \in HeapNode
    BY DEF IInv, TypeOK
  <1>8. From(Entries, j) \in Seq(HeapNode)
    <2>1. Entries \in Seq(HeapNode) /\ Len(Entries) = Len(Chain)
      BY ListOnHeap DEF IInv
    <2>2. PICK l \in Seq(HeapNode) : l = Entries
      BY <2>1
    <2>3. j \in 1 .. Len(l) + 1
      BY <2>1, <2>2
    <2>4. SubSeq(l, j, Len(l)) \in Seq(HeapNode)
      BY <2>3, RestAt
    <2>5. QED  BY <2>2, <2>4 DEF From
  <1>9. ASSUME NEW a \in Addrs
        PROVE  Table'[a] = IF a = thread[t].addr THEN Told(heap[n])
                           ELSE TableOf(From(Entries, j))[a]
    <2>1. PICK l \in Seq(HeapNode) : l = From(Entries, j)
      BY <1>8
    <2>2. PICK e \in HeapNode : e = heap[n]
      BY <1>7
    <2>3. TableOf(InsertNode(l, e))[a] = IF a = e.addr THEN Told(e) ELSE TableOf(l)[a]
      BY TableInsert
    <2>4. e.addr = thread[t].addr
      BY <1>2, <1>3, <2>2
    <2>5. QED  BY <1>6, <2>1, <2>2, <2>3, <2>4 DEF Table
  <1>10. QED  BY <1>3, <1>6, <1>7, <1>8, <1>9

\* The node of an insertion tells what is recorded with it.
LEMMA PublishTold ==
    ASSUME ListAssumption, IInv, NEW t \in Threads, Publish(t)
    PROVE  /\ Told(heap[thread[t].node]).listed
           /\ Told(heap[thread[t].node]).latency
                = IF thread[t].op = "latency" THEN thread[t].val ELSE 0
           /\ Told(heap[thread[t].node]).throughput
                = IF thread[t].op = "throughput" THEN thread[t].val ELSE 0
  <1>1. Owns(t)
    BY DEF Publish, At, Owns
  <1>2. QED  BY <1>1, Owned DEF IInv, Told

LEMMA PublishMain ==
    ASSUME ListAssumption, IInv, TypeOK', Publish(Main)
    PROVE  ChainInv' /\ MainInv'
  <1>1. Main \in Threads /\ thread[Main].pc = "publish"
    BY DEF Threads, Publish, At
  <1>2. PICK j \in 1 .. Len(Chain) + 1 :
            /\ heap[thread[Main].node].next = NodeAt(Chain, j)
            /\ Agrees(From(Entries, j))
    BY <1>1 DEF IInv, MainInv
  <1>3. /\ ChainInv'
        /\ \A a \in Addrs :
              Table'[a] = IF a = thread[Main].addr
                          THEN Told(heap[thread[Main].node])
                          ELSE TableOf(From(Entries, j))[a]
    BY <1>1, <1>2, PublishList
  <1>4. thread'[Main].pc = "idle"
    BY <1>1, GotoKeeps DEF Publish, IInv
  <1>5. Recorded(Main)
    BY DEF Publish
  <1>6. PICK b \in Addrs : b = thread[Main].addr
    BY <1>1, Types DEF IInv
  <1>7. ~recorded[b].listed /\ recorded[b] = Unlisted
    BY <1>1, <1>6 DEF IInv, MainInv
  <1>8. /\ recorded[b].latency = 0
        /\ recorded[b].throughput = 0
    BY <1>7 DEF Unlisted
  <1>9. thread[Main].op \in {"add", "latency", "throughput"}
    BY <1>1, Types DEF IInv
  <1>10. ASSUME NEW a \in Addrs
         PROVE  /\ recorded'[a].listed => Table'[a].listed
                /\ Table'[a].latency = recorded'[a].latency
                /\ Table'[a].throughput = recorded'[a].throughput
                /\ ~recorded'[a].listed => recorded'[a] = Unlisted
    <2>1. CASE a # b
      <3>1. recorded'[a] = recorded[a]
        <4>1. CASE thread[Main].op = "add"
          BY <1>5, <4>1 DEF Recorded
        <4>2. CASE thread[Main].op # "add"
          BY <1>1, <1>5, <1>6, <1>9, <2>1, <4>2, RecordedAt DEF IInv
        <4>3. QED  BY <4>1, <4>2
      <3>2. Table'[a] = TableOf(From(Entries, j))[a]
        BY <1>3, <1>6, <2>1
      <3>3. /\ recorded[a].listed => TableOf(From(Entries, j))[a].listed
            /\ TableOf(From(Entries, j))[a].latency = recorded[a].latency
            /\ TableOf(From(Entries, j))[a].throughput = recorded[a].throughput
        BY <1>2 DEF Agrees
      <3>4. ~recorded[a].listed => recorded[a] = Unlisted
        BY DEF IInv, MainInv
      <3>5. QED  BY <3>1, <3>2, <3>3, <3>4
    <2>2. CASE a = b
      <3>1. Table'[a] = Told(heap[thread[Main].node])
        BY <1>3, <1>6, <2>2
      <3>2. /\ Table'[a].listed
            /\ Table'[a].latency =
                  IF thread[Main].op = "latency" THEN thread[Main].val ELSE 0
            /\ Table'[a].throughput =
                  IF thread[Main].op = "throughput" THEN thread[Main].val ELSE 0
        BY <1>1, <3>1, PublishTold
      <3>3. CASE thread[Main].op = "add"
        <4>1. recorded'[a] = recorded[a]
          BY <1>5, <3>3 DEF Recorded
        <4>2. QED  BY <1>7, <1>8, <2>2, <3>2, <3>3, <4>1
      <3>4. CASE thread[Main].op # "add"
        <4>1. /\ recorded'[a].listed
              /\ recorded'[a].latency = IF thread[Main].op = "latency"
                    THEN thread[Main].val ELSE recorded[a].latency
              /\ recorded'[a].throughput = IF thread[Main].op = "throughput"
                    THEN thread[Main].val ELSE recorded[a].throughput
          BY <1>1, <1>5, <1>6, <1>9, <2>2, <3>4, RecordedAt DEF IInv
        <4>2. QED  BY <1>8, <2>2, <3>2, <4>1
      <3>5. QED  BY <3>3, <3>4
    <2>3. QED  BY <2>1, <2>2
  <1>11. Agrees(Entries)'
    BY <1>10 DEF Agrees, Table
  <1>12. \A a \in Addrs : ~recorded'[a].listed => recorded'[a] = Unlisted
    BY <1>10
  <1>13. QED  BY <1>3, <1>4, <1>11, <1>12 DEF MainInv

LEMMA PublishCoap ==
    ASSUME ListAssumption, IInv, TypeOK', Publish(Coap)
    PROVE  ChainInv' /\ MainInv'
  <1>1. /\ Coap \in Threads /\ thread[Coap].pc = "publish"
        /\ Main \in Threads /\ Main # Coap
    BY DEF Threads, Publish, At, ListAssumption
  <1>2. /\ Chain \in Seq(1 .. Len(heap)) /\ Entries \in Seq(HeapNode)
        /\ Len(Entries) = Len(Chain) /\ head = NodeAt(Chain, 1)
    BY ListOnHeap DEF IInv
  <1>3. PICK one \in 1 .. Len(Chain) + 1 : one = 1
    BY <1>2
  <1>4. heap[thread[Coap].node].next = NodeAt(Chain, one)
    BY <1>1, <1>2, <1>3 DEF IInv, CoapInv
  <1>5. From(Entries, one) = Entries
    BY <1>2, <1>3, FromFirst
  <1>6. /\ ChainInv'
        /\ heap[thread[Coap].node] \in HeapNode
        /\ thread[Coap].node \in 1 .. Len(heap)
        /\ Chain' = <<thread[Coap].node>> \o SubSeq(Chain, one, Len(Chain))
        /\ Entries' = InsertNode(From(Entries, one), heap[thread[Coap].node])
        /\ \A a \in Addrs :
              Table'[a] = IF a = thread[Coap].addr
                          THEN Told(heap[thread[Coap].node])
                          ELSE TableOf(From(Entries, one))[a]
    BY <1>1, <1>4, PublishList
  <1>7. thread[Coap].op = "add"
    BY <1>1 DEF IInv, OpInv, ListAssumption
  <1>8. recorded' = recorded /\ thread'[Main] = thread[Main] /\ heap' = heap
    <2>1. thread'[Main] = thread[Main]
      BY <1>1, GotoKeeps DEF Publish, IInv
    <2>2. QED  BY <1>7, <2>1 DEF Publish, Recorded
  <1>9. PICK b \in Addrs : b = thread[Coap].addr
    BY <1>1, Types DEF IInv
  <1>10. ~Exists(b)
    BY <1>1, <1>9 DEF IInv, CoapInv
  <1>11. ~recorded[b].listed /\ recorded[b].latency = 0 /\ recorded[b].throughput = 0
    BY <1>10, NotRecorded DEF Unlisted
  <1>12. ASSUME NEW a \in Addrs
         PROVE  /\ recorded'[a].listed => Table'[a].listed
                /\ Table'[a].latency = recorded'[a].latency
                /\ Table'[a].throughput = recorded'[a].throughput
                /\ Table[a].listed => Table'[a].listed
    <2>1. CASE a # b
      <3>1. Table'[a] = Table[a]
        BY <1>5, <1>6, <1>9, <2>1 DEF Table
      <3>2. QED  BY <1>8, <3>1 DEF IInv, MainInv, Agrees, Table
    <2>2. CASE a = b
      <3>1. Table'[a] = Told(heap[thread[Coap].node])
        BY <1>6, <1>9, <2>2
      <3>2. /\ Table'[a].listed
            /\ Table'[a].latency = 0
            /\ Table'[a].throughput = 0
        BY <1>1, <1>7, <3>1, PublishTold
      <3>3. QED  BY <1>8, <1>11, <2>2, <3>2
    <2>3. QED  BY <2>1, <2>2
  <1>13. Agrees(Entries)'
    BY <1>12 DEF Agrees, Table
  <1>14. \A a \in Addrs : Exists(a) => Exists(a)'
    <2>1. ASSUME NEW a \in Addrs, Exists(a)  PROVE Exists(a)'
      <3>1. Table[a].listed
        BY <1>2, <2>1, TableLists DEF Table, Exists
      <3>2. Table'[a].listed
        BY <1>12, <3>1
      <3>3. PICK m \in Seq(HeapNode) : m = Entries'
        <4>1. Entries' \in Seq(HeapNode)
          BY <1>2, <1>5, <1>6 DEF InsertNode
        <4>2. QED  BY <4>1
      <3>4. NodeExists(m, a)
        BY <3>2, <3>3, TableLists DEF Table
      <3>5. QED  BY <3>3, <3>4 DEF Exists
    <2>2. QED  BY <2>1
  <1>15. ASSUME thread[Main].pc = "publish"
         PROVE  \E j \in 1 .. Len(Chain') + 1 :
                   /\ heap'[thread'[Main].node].next = NodeAt(Chain', j)
                   /\ Agrees(From(Entries, j))'
    <2>1. PICK j \in 1 .. Len(Chain) + 1 :
             /\ heap[thread[Main].node].next = NodeAt(Chain, j)
             /\ Agrees(From(Entries, j))
      BY <1>15 DEF IInv, MainInv
    <2>2. PICK s \in Seq(1 .. Len(heap)) : s = Chain
      BY <1>2
    <2>3. PICK n \in 1 .. Len(heap) : n = thread[Coap].node
      BY <1>6
    <2>4. /\ Len(s) \in Nat
          /\ Chain' = <<n>> \o s
      <3>1. SubSeq(s, 1, Len(s)) = s
        OBVIOUS
      <3>2. QED  BY <1>3, <1>6, <2>2, <2>3, <3>1
    <2>5. /\ Len(<<n>> \o s) = Len(s) + 1
          /\ \A i \in 1 .. Len(s) : (<<n>> \o s)[i + 1] = s[i]
      OBVIOUS
    <2>6. NodeAt(Chain', j + 1) = NodeAt(Chain, j)
      <3>1. CASE j <= Len(s)
        <4>1. j \in 1 .. Len(s) /\ j + 1 <= Len(s) + 1
          BY <2>2, <2>4, <3>1
        <4>2. QED  BY <2>2, <2>4, <2>5, <4>1 DEF NodeAt
      <3>2. CASE ~(j <= Len(s))
        <4>1. ~(j + 1 <= Len(s) + 1)
          BY <2>2, <2>4, <3>2
        <4>2. QED  BY <2>2, <2>4, <2>5, <3>2, <4>1 DEF NodeAt
      <3>3. QED  BY <3>1, <3>2
    <2>7. From(Entries', j + 1) = From(Entries, j)
      <3>1. PICK l \in Seq(HeapNode) : l = Entries
        BY <1>2
      <3>2. PICK e \in HeapNode : e = heap[thread[Coap].node]
        BY <1>6
      <3>3. j \in 1 .. Len(l) + 1
        BY <1>2, <3>1
      <3>4. From(InsertNode(l, e), j + 1) = From(l, j)
        BY <3>3, FromInserted
      <3>5. QED  BY <1>5, <1>6, <3>1, <3>2, <3>4
    <2>8. j + 1 \in 1 .. Len(Chain') + 1
      BY <2>2, <2>4, <2>5
    <2>9. PICK i \in 1 .. Len(Chain') + 1 : i = j + 1
      BY <2>8
    <2>10. Agrees(From(Entries, i))'
      BY <1>8, <2>1, <2>7, <2>9 DEF Agrees
    <2>11. QED  BY <1>8, <2>1, <2>6, <2>9, <2>10
  <1>16. thread[Main].pc = "update" => Exists(thread[Main].addr)'
    <2>1. thread[Main].addr \in Addrs
      BY <1>1, Types DEF IInv
    <2>2. PICK a \in Addrs : a = thread[Main].addr
      BY <2>1
    <2>3. thread[Main].pc = "update" => Exists(a)
      BY <2>2 DEF IInv, MainInv
    <2>4. QED  BY <1>8, <1>14, <2>2, <2>3 DEF Exists
  <1>17. MainInv'
    BY <1>8, <1>13, <1>15, <1>16 DEF MainInv, IInv
  <1>18. QED  BY <1>6, <1>17

LEMMA PublishInv ==
    ASSUME ListAssumption, IInv, NEW t \in Threads, Publish(t)
    PROVE  IInv'
  <1>1. TypeOK'
    BY PublishType DEF IInv
  <1>2. /\ thread[t].pc = "publish"
        /\ t = Main => thread[Coap].pc = "idle"
        /\ t = Main \/ t = Coap
        /\ Main # Coap /\ Main \in Threads /\ Coap \in Threads
    BY OthersIdle DEF Publish
  <1>3. ChainInv' /\ MainInv'
    BY <1>1, <1>2, PublishMain, PublishCoap
  <1>4. /\ thread'[t].pc = "idle"
        /\ \A u \in Threads : u # t => thread'[u] = thread[u]
    BY GotoKeeps DEF Publish, IInv
  <1>5. OpInv'
    BY <1>2, <1>4 DEF OpInv, IInv
  <1>6. CoapInv'
    <2>1. thread'[Coap].pc = "idle"
      BY <1>2, <1>4
    <2>2. QED  BY <2>1 DEF CoapInv
  <1>7. NodeInv'
    <2>1. ~Owns(t)'
      BY <1>4 DEF Owns
    <2>2. CASE t = Main
      <3>1. ~Owns(Coap)' /\ ~Owns(Main)'
        BY <1>2, <1>4, <2>1, <2>2 DEF Owns
      <3>2. QED  BY <3>1 DEF NodeInv, Threads
    <2>3. CASE t = Coap
      <3>1. thread'[Main] = thread[Main] /\ ~Owns(Coap)' /\ heap' = heap
        BY <1>2, <1>4, <2>1, <2>3 DEF Publish
      <3>2. SUFFICES ASSUME Owns(Main)
                     PROVE  \A i \in DOMAIN Chain' : Chain'[i] # thread[Main].node
        <4>1. Owns(Main)' = Owns(Main)
          BY <3>1 DEF Owns
        <4>2. ASSUME Owns(Main)
              PROVE  LET r == thread[Main]
                     IN  /\ r.node \in 1 .. Len(heap)
                         /\ heap[r.node].addr = r.addr
                         /\ heap[r.node].latency =
                                IF r.op = "latency" THEN r.val ELSE 0
                         /\ heap[r.node].throughput =
                                IF r.op = "throughput" THEN r.val ELSE 0
          BY <1>2, <4>2, Owned DEF IInv
        <4>3. QED  BY <3>1, <3>2, <4>1, <4>2 DEF NodeInv, Threads
      <3>3. Owns(Coap)
        BY <1>2, <2>3 DEF Owns
      <3>4. /\ thread[Main].node # thread[Coap].node
            /\ \A i \in DOMAIN Chain : Chain[i] # thread[Main].node
        BY <1>2, <3>2, <3>3 DEF IInv, NodeInv
      <3>5. Chain \in Seq(1 .. Len(heap)) /\ head = NodeAt(Chain, 1)
        BY ListOnHeap DEF IInv
      <3>6. PICK one \in 1 .. Len(Chain) + 1 : one = 1
        BY <3>5
      <3>7. heap[thread[Coap].node].next = NodeAt(Chain, one)
        BY <1>2, <2>3, <3>5, <3>6 DEF IInv, CoapInv
      <3>8. Chain' = <<thread[Coap].node>> \o SubSeq(Chain, one, Len(Chain))
            /\ thread[Coap].node \in 1 .. Len(heap)
        BY <1>1, <1>2, <2>3, <3>7, PublishList
      <3>9. PICK s \in Seq(1 .. Len(heap)) : s = Chain
        BY <3>5
      <3>10. PICK n \in 1 .. Len(heap) : n = thread[Coap].node
        BY <3>8
      <3>11. Chain' = <<n>> \o s
        <4>1. SubSeq(s, 1, Len(s)) = s
          OBVIOUS
        <4>2. QED  BY <3>6, <3>8, <3>9, <3>10, <4>1
      <3>12. ASSUME NEW i \in DOMAIN (<<n>> \o s)
             PROVE  (<<n>> \o s)[i] # thread[Main].node
        <4>1. i \in 1 .. Len(s) + 1
          BY <3>12
        <4>2. CASE i = 1
          BY <3>4, <3>10, <4>2
        <4>3. CASE i # 1
          <5>1. i - 1 \in 1 .. Len(s) /\ (<<n>> \o s)[i] = s[i - 1]
            BY <4>1, <4>3
          <5>2. s[i - 1] # thread[Main].node
            BY <3>4, <3>9, <5>1
          <5>3. QED  BY <5>1, <5>2
        <4>4. QED  BY <4>2, <4>3
      <3>13. QED  BY <3>11, <3>12
    <2>4. QED  BY <1>2, <2>2, <2>3
  <1>8. QED  BY <1>1, <1>3, <1>5, <1>6, <1>7 DEF IInv

\* The list is empty at first.
LEMMA InitInv ==
    ASSUME ListAssumption, Init
    PROVE  IInv
  <1>1. TypeOK
    BY InitType
  <1>2. heap = <<>> /\ head = NULL
    BY DEF Init
  <1>3. PICK h \in Seq(HeapNode) : h = <<>>
    <2>1. <<>> \in Seq(HeapNode)
      OBVIOUS
    <2>2. QED  BY <2>1
  <1>4. Linked(h, NULL, <<>>) /\ Len(h) = 0
    BY <1>3 DEF Linked, NodeAt, NULL
  <1>5. ChainOf(h, NULL) = <<>>
    <2>1. Len(h) <= HeapSize
      BY <1>4 DEF ListAssumption
    <2>2. QED  BY <1>4, <2>1, ChainIs
  <1>6. Chain = <<>>
    BY <1>2, <1>3, <1>5 DEF Chain
  <1>7. ChainInv
    BY <1>2, <1>3, <1>4, <1>6 DEF ChainInv
  <1>8. \A t \in Threads : thread[t].pc = "idle"
    BY DEF Init, NoOp
  <1>9. Main \in Threads /\ Coap \in Threads
    BY DEF Threads
  <1>10. OpInv /\ NodeInv /\ CoapInv
    BY <1>8, <1>9 DEF OpInv, NodeInv, CoapInv, Owns
  <1>11. \A a \in Addrs : TableOf(Entries)[a] = Unlisted
    <2>1. Entries = <<>>
      BY <1>6 DEF Entries, EntriesOf
    <2>2. QED  BY <2>1 DEF TableOf, NodeExists, Positions
  <1>12. MainInv
    <2>1. \A a \in Addrs : recorded[a] = Unlisted
      BY DEF Init
    <2>2. QED  BY <1>8, <1>9, <1>11, <2>1 DEF MainInv, Agrees
  <1>13. QED  BY <1>1, <1>7, <1>10, <1>12 DEF IInv

\* Nothing changes in a step that changes no variable.
LEMMA StutterInv ==
    ASSUME IInv, UNCHANGED vars
    PROVE  IInv'
  <1>1. Chain' = Chain /\ Entries' = Entries
    BY DEF vars, Chain, Entries
  <1>2. TypeOK' /\ OpInv' /\ ChainInv'
    BY <1>1 DEF IInv, vars, TypeOK, OpInv, ChainInv
  <1>3. NodeInv' /\ CoapInv'
    BY <1>1 DEF IInv, vars, NodeInv, CoapInv, Owns, Exists
  <1>4. MainInv'
    BY <1>1 DEF IInv, vars, MainInv, Agrees, Exists
  <1>5. QED  BY <1>2, <1>3, <1>4 DEF IInv

LEMMA StepInv ==
    ASSUME ListAssumption, IInv, [Next]_vars
    PROVE  IInv'
  <1>1. CASE UNCHANGED vars
    BY <1>1, StutterInv
  <1>2. CASE Next
    BY <1>2, MeasureInv, CountInv, SearchInv, UpdateInv, LinkInv, PublishInv DEF Next
  <1>3. QED  BY <1>1, <1>2

\* The inductive invariant holds, whatever the gcoap thread interrupts.
THEOREM Invariance == Spec => []IInv
  <1>1. Init => IInv
    BY ListAssumption, InitInv
  <1>2. IInv /\ [Next]_vars => IInv'
    BY ListAssumption, StepInv
  <1>3. QED  BY <1>1, <1>2, PTL DEF Spec

\* The types of the nodes on the heap and of the threads' locals.
THEOREM TypeCorrect == Spec => []TypeOK
  <1>1. IInv => TypeOK
    BY DEF IInv
  <1>2. QED  BY <1>1, Invariance, PTL

\* The walks of linked_list.c end: the nodes of the list are linked without a
\* way back, so that there are not more of them than on the heap.
THEOREM WalksEndCorrect == Spec => []WalksEnd
  <1>1. IInv => WalksEnd
    <2> SUFFICES ASSUME IInv PROVE WalksEnd
      OBVIOUS
    <2>1. PICK s : s = Chain
      OBVIOUS
    <2>2. PICK h \in Seq(HeapNode) : h = heap
      BY DEF IInv, TypeOK
    <2>3. Linked(h, head, s)
      BY <2>1, <2>2 DEF IInv, ChainInv
    <2>4. Len(s) <= Len(h)
      BY <2>3, LinkedLen
    <2>5. QED  BY <2>1, <2>2, <2>4 DEF WalksEnd
  <1>2. QED  BY <1>1, Invariance, PTL

\* What the main thread has recorded last of a neighbour is what a reader of
\* the list finds, wherever the gcoap thread has come between.
THEOREM RecordedFoundCorrect == Spec => []RecordedFound
  <1>1. IInv => RecordedFound
    <2> SUFFICES ASSUME IInv, NEW a \in Addrs, recorded[a].listed
                 PROVE  Table[a] = recorded[a]
      BY DEF RecordedFound
    <2>1. /\ Table[a].listed
          /\ Table[a].latency = recorded[a].latency
          /\ Table[a].throughput = recorded[a].throughput
      BY DEF IInv, MainInv, Agrees, Table
    <2>2. recorded[a] \in [listed : BOOLEAN, latency : Values, throughput : Values]
      BY DEF IInv, TypeOK
    <2>3. Table[a] = [listed |-> Table[a].listed, latency |-> Table[a].latency,
                      throughput |-> Table[a].throughput]
      BY DEF Table, TableOf, Told, Unlisted
    <2>4. QED  BY <2>1, <2>2, <2>3, Zenon
  <1>2. QED  BY <1>1, Invariance, PTL

-----------------------------------------------------------------------------
(* One thread alone.                                                       *)

\* Up to the publication of a node no step but an update changes the list.
LEMMA EntriesKept ==
    ASSUME ListAssumption, IInv, NEW t \in Threads,
           Measure(t) \/ Count(t) \/ Search(t) \/ Link(t)
    PROVE  Entries' = Entries
  <1>1. CASE Measure(t)
    <2>1. PICK op \in Ops[t] \ {"add"}, a \in Addrs, v \in Values :
             heap' = Allocate(op, a, v)
      BY <1>1 DEF Measure
    <2>2. op \in {"add", "latency", "throughput"}
      BY DEF ListAssumption
    <2>3. TypeOK' /\ head' = head
      BY <1>1, MeasureType DEF Measure, IInv
    <2>4. QED  BY <2>1, <2>2, <2>3, AllocateKeeps DEF IInv
  <1>2. CASE Count(t)
    BY <1>2 DEF Count, Entries, Chain
  <1>3. CASE Search(t)
    <2>1. TypeOK' /\ head' = head
      BY <1>3, SearchType DEF Search, IInv
    <2>2. CASE heap' = heap
      BY <2>1, <2>2 DEF Entries, Chain
    <2>3. CASE heap' = Allocate("add", thread[t].addr, thread[t].val)
      <3>1. PICK a \in Addrs, v \in Values : heap' = Allocate("add", a, v)
        BY <2>3, Types DEF IInv
      <3>2. QED  BY <2>1, <3>1, AllocateKeeps DEF IInv
    <2>4. QED  BY <1>3, <2>2, <2>3, SearchCases DEF IInv
  <1>4. CASE Link(t)
    BY <1>4, LinkKeeps, LinkType DEF IInv
  <1>5. QED  BY <1>1, <1>2, <1>3, <1>4

\* The gcoap thread never starts an operation.
LEMMA MainOnly ==
    ASSUME ListAssumption, Ops[Coap] = {}, AloneInv, NEW t \in Threads,
           \/ Measure(t) \/ Count(t) \/ Search(t) \/ Update(t) \/ Link(t)
           \/ Publish(t)
    PROVE  t = Main
  <1>1. SUFFICES ASSUME t = Coap PROVE FALSE
    BY DEF Threads
  <1>2. thread[Coap].pc = "idle"
    BY DEF AloneInv
  <1>3. QED
    BY <1>1, <1>2 DEF Measure, Count, Search, Update, Link, Publish, At

\* Alone, the main thread puts its node before all of the list, and its
\* address is new there.
LEMMA PublishAlone ==
    ASSUME ListAssumption, IInv, AloneInv, TypeOK', Publish(Main)
    PROVE  LET e == heap[thread[Main].node]
           IN  /\ ~Exists(thread[Main].addr)
               /\ e \in HeapNode
               /\ e.addr = thread[Main].addr
               /\ Entries' = InsertNode(Entries, e)
               /\ \A a \in Addrs :
                     Table'[a] = IF a = thread[Main].addr THEN Told(e) ELSE Table[a]
  <1>1. Main \in Threads /\ thread[Main].pc = "publish"
    BY DEF Threads, Publish, At
  <1>2. Chain \in Seq(1 .. Len(heap)) /\ Entries \in Seq(HeapNode)
        /\ head = NodeAt(Chain, 1)
    BY ListOnHeap DEF IInv
  <1>3. PICK one \in 1 .. Len(Chain) + 1 : one = 1
    BY <1>2
  <1>4. heap[thread[Main].node].next = NodeAt(Chain, one)
        /\ ~Exists(thread[Main].addr)
    BY <1>1, <1>2, <1>3 DEF AloneInv
  <1>5. From(Entries, one) = Entries
    BY <1>2, <1>3, FromFirst
  <1>6. /\ heap[thread[Main].node] \in HeapNode
        /\ Entries' = InsertNode(From(Entries, one), heap[thread[Main].node])
        /\ \A a \in Addrs :
              Table'[a] = IF a = thread[Main].addr
                          THEN Told(heap[thread[Main].node])
                          ELSE TableOf(From(Entries, one))[a]
    BY <1>1, <1>4, PublishList
  <1>7. Owns(Main)
    BY <1>1 DEF Owns
  <1>8. heap[thread[Main].node].addr = thread[Main].addr
    BY <1>1, <1>7, Owned DEF IInv
  <1>9. QED  BY <1>4, <1>5, <1>6, <1>8 DEF Table

LEMMA AloneStep ==
    ASSUME ListAssumption, Ops[Coap] = {}, IInv, AloneInv, IInv', [Next]_vars
    PROVE  AloneInv'
  <1>1. Main \in Threads /\ Coap \in Threads /\ Main # Coap
    BY DEF Threads, ListAssumption
  <1>2. Entries \in Seq(HeapNode) /\ DOMAIN Entries = 1 .. Len(Entries)
    BY ListOnHeap DEF IInv
  <1>3. thread \in [Threads -> ThreadRecord(heap)]
    BY DEF IInv, TypeOK, ThreadRecord
  <1>4. Entries' = Entries => ListedOnce'
    BY DEF AloneInv, ListedOnce
  <1>5. CASE UNCHANGED vars
    <2>1. Entries' = Entries
      BY <1>5 DEF vars, Entries, Chain
    <2>2. QED  BY <1>4, <1>5, <2>1 DEF vars, AloneInv, Exists
  <1>6. CASE Measure(Main) \/ Count(Main)
    <2>1. Entries' = Entries
      BY <1>1, <1>6, EntriesKept
    <2>2. thread'[Main].pc = "search" /\ thread'[Coap] = thread[Coap]
      <3>1. CASE Measure(Main)
        <4>1. PICK op \in Ops[Main] \ {"add"}, a \in Addrs, v \in Values :
                 thread' = [thread EXCEPT ![Main] =
                    [pc |-> "search", op |-> op, addr |-> a, val |-> v,
                     node |-> Len(heap) + 1]]
          BY <3>1 DEF Measure
        <4>2. QED  BY <1>1, <1>3, <4>1
      <3>2. CASE Count(Main)
        <4>1. PICK a \in Addrs : thread' = [thread EXCEPT ![Main] =
                    [pc |-> "search", op |-> "add", addr |-> a, val |-> 0,
                     node |-> NULL]]
          BY <3>2 DEF Count
        <4>2. QED  BY <1>1, <1>3, <4>1
      <3>3. QED  BY <1>6, <3>1, <3>2
    <2>3. QED  BY <1>4, <2>1, <2>2 DEF AloneInv
  <1>7. CASE Search(Main)
    <2>1. Entries' = Entries
      BY <1>1, <1>7, EntriesKept
    <2>2. /\ thread'[Coap] = thread[Coap]
          /\ thread'[Main].pc # "publish"
          /\ thread'[Main].pc = "link" =>
                /\ ~Exists(thread[Main].addr)
                /\ thread'[Main].addr = thread[Main].addr
      <3>1. CASE /\ Exists(thread[Main].addr)
                 /\ Goto(Main, IF thread[Main].op = "add" THEN "idle" ELSE "update")
        BY <1>1, <3>1, GotoKeeps DEF IInv
      <3>2. CASE ~Exists(thread[Main].addr) /\ Goto(Main, "link")
        BY <1>1, <3>2, GotoKeeps DEF IInv
      <3>3. CASE /\ ~Exists(thread[Main].addr)
                 /\ thread' = [thread EXCEPT ![Main] =
                      [[thread[Main] EXCEPT !.pc = "link"] EXCEPT !.node = Len(heap) + 1]]
        <4>1. thread[Main] \in ThreadRecord(heap)
          BY <1>1, <1>3
        <4>2. thread'[Main] =
                 [[thread[Main] EXCEPT !.pc = "link"] EXCEPT !.node = Len(heap) + 1]
          BY <1>1, <1>3, <3>3
        <4>3. QED  BY <1>1, <1>3, <3>3, <4>1, <4>2 DEF ThreadRecord
      <3>4. QED  BY <1>1, <1>7, <3>1, <3>2, <3>3, SearchCases DEF IInv
    <2>3. QED  BY <1>4, <2>1, <2>2 DEF AloneInv, Exists
  <1>8. CASE Update(Main)
    <2>1. thread'[Main].pc = "idle" /\ thread'[Coap] = thread[Coap]
      BY <1>1, <1>8, GotoKeeps DEF Update, IInv
    <2>2. /\ Entries' \in Seq(HeapNode) /\ Len(Entries') = Len(Entries)
          /\ \A i \in 1 .. Len(Entries) : Entries'[i].addr = Entries[i].addr
      BY <1>1, <1>8, UpdateKeeps DEF IInv
    <2>3. DOMAIN Entries' = 1 .. Len(Entries)
      BY <2>2
    <2>4. ListedOnce'
      BY <1>2, <2>2, <2>3 DEF AloneInv, ListedOnce
    <2>5. QED  BY <2>1, <2>4 DEF AloneInv
  <1>9. CASE Link(Main)
    <2>1. Entries' = Entries /\ head' = head
      BY <1>1, <1>9, EntriesKept DEF Link
    <2>2. /\ thread'[Coap] = thread[Coap]
          /\ thread'[Main].addr = thread[Main].addr
          /\ thread'[Main].node = thread[Main].node
      BY <1>1, <1>9, GotoKeeps DEF Link, IInv
    <2>3. heap'[thread[Main].node].next = head
      BY <1>1, <1>9, LinkWrites DEF IInv
    <2>4. ~Exists(thread[Main].addr)
      BY <1>9 DEF AloneInv, Link, At
    <2>5. QED  BY <1>4, <2>1, <2>2, <2>3, <2>4 DEF AloneInv, Exists
  <1>10. CASE Publish(Main)
    <2>1. thread'[Main].pc = "idle" /\ thread'[Coap] = thread[Coap]
      BY <1>1, <1>10, GotoKeeps DEF Publish, IInv
    <2>2. PICK e \in HeapNode :
             /\ ~Exists(e.addr)
             /\ Entries' = InsertNode(Entries, e)
      BY <1>10, PublishAlone DEF IInv
    <2>3. PICK l \in Seq(HeapNode) : l = Entries
      BY <1>2
    <2>4. \A i \in 1 .. Len(l) : l[i].addr # e.addr
      BY <2>2, <2>3, ExistsIff DEF Exists
    <2>5. PICK m \in Seq(HeapNode) :
             /\ m = InsertNode(l, e)
             /\ Len(m) = Len(l) + 1
             /\ m[1] = e
             /\ \A i \in 1 .. Len(l) : m[i + 1] = l[i]
      <3>1. PICK m : m = InsertNode(l, e)
        OBVIOUS
      <3>2. /\ m \in Seq(HeapNode)
            /\ Len(m) = Len(l) + 1
            /\ m[1] = e
            /\ \A i \in 1 .. Len(l) : m[i + 1] = l[i]
        BY <3>1 DEF InsertNode
      <3>3. QED  BY <3>1, <3>2
    <2>6. \A i, j \in 1 .. Len(l) : l[i].addr = l[j].addr => i = j
      BY <2>3 DEF AloneInv, ListedOnce
    <2>7. \A i \in 1 .. Len(m) : i # 1 => i - 1 \in 1 .. Len(l) /\ m[i] = l[i - 1]
      <3>1. ASSUME NEW i \in 1 .. Len(m), i # 1
            PROVE  i - 1 \in 1 .. Len(l) /\ i = (i - 1) + 1
        BY <2>5, <3>1
      <3>2. QED  BY <2>5, <3>1
    <2>8. ASSUME NEW i \in 1 .. Len(m), NEW j \in 1 .. Len(m), m[i].addr = m[j].addr
          PROVE  i = j
      <3>1. CASE i = 1 \/ j = 1
        <4>1. \A n \in 1 .. Len(m) : n # 1 => m[n].addr # m[1].addr
          BY <2>4, <2>5, <2>7
        <4>2. QED  BY <2>8, <3>1, <4>1
      <3>2. CASE i # 1 /\ j # 1
        <4>1. i - 1 = j - 1
          BY <2>6, <2>7, <2>8, <3>2
        <4>2. QED  BY <4>1
      <3>3. QED  BY <3>1, <3>2
    <2>9. ListedOnce'
      BY <2>2, <2>3, <2>5, <2>8 DEF ListedOnce
    <2>10. QED  BY <2>1, <2>9 DEF AloneInv
  <1>11. QED
    <2>1. Next => \/ Measure(Main) \/ Count(Main) \/ Search(Main) \/ Update(Main)
                  \/ Link(Main) \/ Publish(Main)
      BY MainOnly DEF Next
    <2>2. QED  BY <1>5, <1>6, <1>7, <1>8, <1>9, <1>10, <2>1

LEMMA AloneInit ==
    ASSUME ListAssumption, Init
    PROVE  AloneInv
  <1>1. Entries = <<>>
    <2>1. head = NodeAt(Chain, 1) /\ Chain \in Seq(1 .. Len(heap))
      BY InitInv, ListOnHeap DEF IInv
    <2>2. Len(heap) = 0
      BY DEF Init
    <2>3. Chain = <<>>
      <3>1. Len(Chain) \in Nat /\ \A i \in 1 .. Len(Chain) : Chain[i] \in 1 .. 0
        BY <2>1, <2>2
      <3>2. Len(Chain) = 0
        <4>1. ~(1 \in 1 .. Len(Chain))
          BY <3>1
        <4>2. QED  BY <3>1, <4>1
      <3>3. QED  BY <2>1, <3>2
    <2>4. QED  BY <2>3 DEF Entries, EntriesOf
  <1>2. ListedOnce
    BY <1>1 DEF ListedOnce
  <1>3. \A t \in Threads : thread[t].pc = "idle"
    BY DEF Init, NoOp
  <1>4. QED  BY <1>2, <1>3 DEF AloneInv, Threads

\* While the main thread alone uses the list, its steps are not interrupted.
THEOREM AloneInvariance ==
    ASSUME Ops[Coap] = {}
    PROVE  Spec => [](IInv /\ AloneInv)
  <1>1. Init => IInv /\ AloneInv
    BY ListAssumption, InitInv, AloneInit
  <1>2. IInv /\ AloneInv /\ [Next]_vars => (IInv /\ AloneInv)'
    BY ListAssumption, StepInv, AloneStep
  <1>3. QED  BY <1>1, <1>2, PTL DEF Spec

\* A neighbour is on the list once, as long as the main thread alone uses it.
THEOREM ListedOnceCorrect ==
    ASSUME Ops[Coap] = {}
    PROVE  Spec => []ListedOnce
  <1>1. AloneInv => ListedOnce
    BY DEF AloneInv
  <1>2. QED  BY <1>1, AloneInvariance, PTL

-----------------------------------------------------------------------------
(* The list implements the table of NeighborTable.                         *)

\* A row of the table.
LEMMA TableRow ==
    ASSUME NEW l, NEW a \in Addrs
    PROVE  /\ DOMAIN TableOf(l) = Addrs
           /\ TableOf(l) = [b \in Addrs |-> TableOf(l)[b]]
           /\ TableOf(l)[a] = [listed |-> TableOf(l)[a].listed,
                               latency |-> TableOf(l)[a].latency,
                               throughput |-> TableOf(l)[a].throughput]
  BY DEF TableOf, Told, Unlisted

\* The empty list stands for the table of which nothing is known.
LEMMA TableInit ==
    ASSUME ListAssumption, Init
    PROVE  Abstract!Init
  <1>1. \A a \in Addrs : recorded[a] = Unlisted
    BY DEF Init
  <1>2. \A t \in Threads : thread[t].pc = "idle"
    BY DEF Init, NoOp
  <1>3. Len(heap) = 0
    BY DEF Init
  <1>4. \A i \in 1 .. Len(Entries) : FALSE
    <2>1. /\ Chain \in Seq(1 .. Len(heap)) /\ Len(Entries) = Len(Chain)
      BY InitInv, ListOnHeap DEF IInv
    <2>2. Len(Chain) \in Nat /\ \A i \in 1 .. Len(Chain) : Chain[i] \in 1 .. 0
      BY <1>3, <2>1
    <2>3. QED  BY <2>1, <2>2
  <1>5. Entries \in Seq(HeapNode)
    BY InitInv, ListOnHeap DEF IInv
  <1>6. \A a \in Addrs : ~NodeExists(Entries, a)
    BY <1>4, <1>5, ExistsIff
  <1>7. Table = [a \in Addrs |-> Unlisted]
    BY <1>6 DEF Table, TableOf
  <1>8. QED  BY <1>7 DEF Abstract!Init, Abstract!Unlisted, Unlisted

\* An update records the result of a measurement in the table.
LEMMA TableUpdated ==
    ASSUME ListAssumption, IInv, IInv', NEW t \in Threads, Update(t)
    PROVE  Abstract!Next
  <1>1. PICK b \in Addrs, v \in Values : b = thread[t].addr /\ v = thread[t].val
    BY Types DEF IInv
  <1>2. PICK k : k = First(Positions(Entries, b))
    OBVIOUS
  <1>3. /\ Entries'[k].latency = IF thread[t].op = "latency"
              THEN v ELSE Entries[k].latency
        /\ Entries'[k].throughput = IF thread[t].op = "throughput"
              THEN v ELSE Entries[k].throughput
    BY <1>1, <1>2, UpdateKeeps DEF IInv
  <1>4. /\ \A a \in Addrs : Table'[a] = IF a = b THEN Told(Entries'[k]) ELSE Table[a]
        /\ Table[b] = Told(Entries[k])
    BY <1>1, <1>2, UpdateAgrees DEF IInv
  <1>5. thread[t].op = "latency" \/ thread[t].op = "throughput"
    BY UpdateWrites DEF IInv, MainInv
  <1>6. /\ Table = [a \in Addrs |-> Table[a]]
        /\ Table' = [a \in Addrs |-> Table'[a]]
    BY TableRow DEF Table
  <1>7. CASE thread[t].op = "latency"
    <2>1. Table'[b] = Abstract!Row(v, Table[b].throughput)
      <3>1. Table[b].latency = Entries[k].latency
            /\ Table[b].throughput = Entries[k].throughput
        BY <1>4 DEF Told
      <3>2. Table'[b] = Told(Entries'[k])
        BY <1>4
      <3>3. Table'[b] = Abstract!Row(v, Entries[k].throughput)
        BY <1>3, <1>7, <3>2 DEF Told, Abstract!Row
      <3>4. QED  BY <3>1, <3>3
    <2>2. Abstract!RecordLatency(b, v)
      BY <1>4, <1>6, <2>1 DEF Abstract!RecordLatency
    <2>3. QED  BY <2>2 DEF Abstract!Next
  <1>8. CASE thread[t].op = "throughput"
    <2>1. Table'[b] = Abstract!Row(Table[b].latency, v)
      <3>1. Table[b].latency = Entries[k].latency
            /\ Table[b].throughput = Entries[k].throughput
        BY <1>4 DEF Told
      <3>2. Table'[b] = Told(Entries'[k])
        BY <1>4
      <3>3. Table'[b] = Abstract!Row(Entries[k].latency, v)
        BY <1>3, <1>8, <3>2 DEF Told, Abstract!Row
      <3>4. QED  BY <3>1, <3>3
    <2>2. Abstract!RecordThroughput(b, v)
      BY <1>4, <1>6, <2>1 DEF Abstract!RecordThroughput
    <2>3. QED  BY <2>2 DEF Abstract!Next
  <1>9. QED  BY <1>5, <1>7, <1>8

\* The publication of a node adds its address to the table, with the result
\* that was measured.
LEMMA TablePublished ==
    ASSUME ListAssumption, IInv, AloneInv, IInv', Publish(Main)
    PROVE  Abstract!Next
  <1>1. Main \in Threads
    BY DEF Threads
  <1>2. PICK b \in Addrs, v \in Values : b = thread[Main].addr /\ v = thread[Main].val
    BY <1>1, Types DEF IInv
  <1>3. PICK e : e = heap[thread[Main].node]
    OBVIOUS
  <1>4. /\ ~Exists(b)
        /\ \A a \in Addrs : Table'[a] = IF a = b THEN Told(e) ELSE Table[a]
    BY <1>2, <1>3, PublishAlone DEF IInv
  <1>5. Table[b] = Unlisted
    BY <1>4 DEF Table, TableOf, Exists
  <1>6. /\ Told(e).listed
        /\ Told(e).latency = IF thread[Main].op = "latency" THEN v ELSE 0
        /\ Told(e).throughput = IF thread[Main].op = "throughput" THEN v ELSE 0
    BY <1>1, <1>2, <1>3, PublishTold
  <1>7. /\ Table = [a \in Addrs |-> Table[a]]
        /\ Table' = [a \in Addrs |-> Table'[a]]
    BY TableRow DEF Table
  <1>8. thread[Main].op \in {"add", "latency", "throughput"}
    BY <1>1, Types DEF IInv
  <1>9. Told(e) = [listed |-> TRUE, latency |-> e.latency, throughput |-> e.throughput]
        /\ Told(e).latency = e.latency /\ Told(e).throughput = e.throughput
    BY DEF Told
  <1>10. CASE thread[Main].op = "latency"
    <2>1. Table'[b] = Abstract!Row(v, Table[b].throughput)
      <3>1. Table[b].latency = 0 /\ Table[b].throughput = 0
        BY <1>5 DEF Unlisted
      <3>2. Table'[b] = Told(e)
        BY <1>4
      <3>3. Table'[b] = Abstract!Row(v, 0)
        BY <1>6, <1>9, <1>10, <3>2 DEF Abstract!Row
      <3>4. QED  BY <3>1, <3>3
    <2>2. Abstract!RecordLatency(b, v)
      BY <1>4, <1>7, <2>1 DEF Abstract!RecordLatency
    <2>3. QED  BY <2>2 DEF Abstract!Next
  <1>11. CASE thread[Main].op = "throughput"
    <2>1. Table'[b] = Abstract!Row(Table[b].latency, v)
      <3>1. Table[b].latency = 0 /\ Table[b].throughput = 0
        BY <1>5 DEF Unlisted
      <3>2. Table'[b] = Told(e)
        BY <1>4
      <3>3. Table'[b] = Abstract!Row(0, v)
        BY <1>6, <1>9, <1>11, <3>2 DEF Abstract!Row
      <3>4. QED  BY <3>1, <3>3
    <2>2. Abstract!RecordThroughput(b, v)
      BY <1>4, <1>7, <2>1 DEF Abstract!RecordThroughput
    <2>3. QED  BY <2>2 DEF Abstract!Next
  <1>12. CASE thread[Main].op = "add"
    <2>1. Table'[b] = Abstract!Row(0, 0)
      BY <1>4, <1>5, <1>6, <1>9, <1>12 DEF Unlisted, Abstract!Row
    <2>2. Abstract!Add(b)
      BY <1>4, <1>5, <1>7, <2>1 DEF Abstract!Add, Unlisted
    <2>3. QED  BY <2>2 DEF Abstract!Next
  <1>13. QED  BY <1>8, <1>10, <1>11, <1>12

\* Every step is one of the table's or leaves it as it is.
LEMMA TableStep ==
    ASSUME ListAssumption, Ops[Coap] = {}, IInv, AloneInv, IInv', [Next]_vars
    PROVE  [Abstract!Next]_Table
  <1>1. CASE UNCHANGED vars
    BY <1>1 DEF vars, Table, Entries, Chain
  <1>2. CASE \E t \in Threads : Measure(t) \/ Count(t) \/ Search(t) \/ Link(t)
    BY <1>2, EntriesKept DEF Table
  <1>3. CASE \E t \in Threads : Update(t)
    BY <1>3, TableUpdated
  <1>4. CASE \E t \in Threads : Publish(t)
    <2>1. Publish(Main)
      BY <1>4, MainOnly
    <2>2. QED  BY <2>1, TablePublished
  <1>5. QED  BY <1>1, <1>2, <1>3, <1>4 DEF Next

\* As long as the main thread alone uses it, the list is the table its readers
\* take it for: the measurement functions and _netif_node_add_list record and
\* add, and none of their other steps shows.
THEOREM TableImplemented ==
    ASSUME Ops[Coap] = {}
    PROVE  Spec => ImplementsTable
  <1>1. Init => Abstract!Init
    BY ListAssumption, TableInit
  <1>2. IInv /\ AloneInv /\ IInv' /\ [Next]_vars => [Abstract!Next]_Table
    BY ListAssumption, TableStep
  <1>3. Spec => [](IInv /\ AloneInv)
    BY AloneInvariance
  <1>4. QED  BY <1>1, <1>2, <1>3, PTL DEF Spec, ImplementsTable, Abstract!Spec
==============================================================================
