----------------------------- MODULE LookupProofs ------------------------------
(***************************************************************************)
(* Theorems about the lookups of DbQuery: what they find is what was asked *)
(* for.                                                                    *)
(***************************************************************************)
EXTENDS DbQueryProofs

-----------------------------------------------------------------------------
(* Where a search stands.                                                  *)

\* The first tokens of a path lead to a subtree, and on to a folder of it.
Below(p, branch, folder) == Matches(p[1], branch) /\ Matches(p[2], folder)

\* The path leads to the thread x (device x, interface x), to the neighbours of the
\* interface x, and to one of them.
AtThread(p, x) ==
    Below(p, "runtime", "ps") /\ x \in 1 .. PidLast /\ Matches(p[3], ThreadName[x])
AtDevice(p, x) ==
    /\ Below(p, "saul", "devices")
    /\ x \in DOMAIN DeviceName /\ Matches(p[3], DeviceName[x])
AtIface(p, x) ==
    /\ Below(p, "network", "netif")
    /\ x \in DOMAIN IfaceName /\ Matches(p[3], IfaceName[x])
AtNeighbours(p, x, cur) ==
    AtIface(p, x) /\ Matches(p[4], "neighbours") /\ cur.field = 4

\* linked_list_read_ip walks to the neighbour the counter stands for.
AtNeighbour(p, x, cur, l) ==
    /\ AtNeighbours(p, x, cur) /\ cur.num > 0
    /\ l # <<>> /\ cur.num <= Len(l) /\ Matches(p[5], l[Max({1, cur.num})])

\* The search has gone down to the folder n, by d tokens of the path p; c is the
\* child variable.
TopEnters(p, d, n) ==
    \/ d = 0 /\ n = Root
    \/ d = 1 /\ \E i \in 1 .. Len(db_index) :
                    n = FlNode(i - 1, 0, 1) /\ Matches(p[1], db_index[i].name)

\* The same within /runtime/ps, ...
PsEnters(p, d, n, c) ==
    \/ d = 2 /\ Below(p, "runtime", "ps") /\ n.ops = "ps" /\ n.is_root = 2
    \/ d = 3 /\ c = n /\ \E x \in 1 .. PidLast : AtThread(p, x) /\ n = PsNode(x, 1)

\* ... /saul/devices ...
SaulEnters(p, d, n, c) ==
    \/ d = 2 /\ Below(p, "saul", "devices") /\ n.ops = "saul" /\ n.is_root = 2
    \/ d = 3 /\ c = n /\ \E x \in DOMAIN DeviceName :
                            AtDevice(p, x) /\ n = SaulNode(x, 1)

\* ... and /network/netif, where the cursors tell the levels apart.
NetifEnters(p, d, n, cur, l) ==
    \/ /\ d = 2 /\ Below(p, "network", "netif") /\ n.ops = "netif" /\ n.is_root = 4
       /\ cur.field = 0 /\ cur.sub = 1
    \/ \E x \in DOMAIN IfaceName :
          \/ /\ d = 3 /\ AtIface(p, x) /\ n = NetifNode(x, 3)
             /\ cur.field = 0 /\ cur.sub = 1
          \/ d = 4 /\ AtNeighbours(p, x, cur) /\ n = NetifNode(x, 2) /\ cur.sub = 1
          \/ d = 5 /\ AtNeighbour(p, x, cur, l) /\ n = NetifNode(x, 1) /\ cur.sub = 2

\* get_next_child has returned the child c of n.
TopPasses(p, d, n, c, cur) ==
    \/ d = 0 /\ n.ops = "root" /\ \E i \in 1 .. Len(db_index) : c = FlNode(i - 1, 0, 1)
    \/ /\ d = 1 /\ n.ops = "fl" /\ n.is_root = 1
       /\ \E i \in 1 .. Len(db_index) :
            /\ Matches(p[1], db_index[i].name) /\ n.fl_idx = i - 1
            /\ \/ \E k \in 1 .. Len(db_index[i].static) : c = FlNode(i - 1, k - 1, 0)
               \/ \E kind \in ToSet(db_index[i].dynamic) :
                    /\ c = DynamicNode(kind)
                    /\ kind = "netif" => cur.field = 0 /\ cur.sub = 1

\* The same within /runtime/ps ...
PsPasses(p, d, n, c) ==
    \/ /\ d = 2 /\ Below(p, "runtime", "ps") /\ n.ops = "ps" /\ n.is_root = 2
       /\ \E x \in 1 .. PidLast : c = PsNode(x, 1)
    \/ d = 3 /\ \E x \in 1 .. PidLast :
                  /\ AtThread(p, x)
                  /\ \/ n.ops = "ps" /\ n.is_root = 0 /\ c = PsNode(x, 0)
                     \/ n = c /\ c = PsNode(x, 1)

\* ... and /saul/devices.
SaulPasses(p, d, n, c) ==
    \/ /\ d = 2 /\ Below(p, "saul", "devices") /\ n.ops = "saul" /\ n.is_root = 2
       /\ \E x \in DOMAIN DeviceName : c = SaulNode(x, 1)
    \/ d = 3 /\ \E x \in DOMAIN DeviceName :
                  /\ AtDevice(p, x)
                  /\ \/ n.ops = "saul" /\ n.is_root = 0 /\ c = SaulNode(x, 0)
                     \/ n = c /\ c = SaulNode(x, 1)

\* It may pass by what it is looking for, and meet the neighbours too early or
\* their fields.
Astray(d, n, c, cur) ==
    /\ n = c /\ cur.field = 4 /\ cur.num > 0
    /\ \E x \in DOMAIN IfaceName :
          \/ d = 3 /\ c = NetifNode(x, 1) /\ cur.sub = 2
          \/ d \in {3, 4} /\ c = NetifNode(x, 0) /\ cur.sub \in 2 .. 4

\* The same within /network/netif.
NetifPasses(p, d, n, c, cur, l) ==
    \/ /\ d = 2 /\ Below(p, "network", "netif") /\ n.ops = "netif" /\ n.is_root = 4
       /\ cur.field = 0 /\ cur.sub = 1
       /\ \E x \in DOMAIN IfaceName : c = NetifNode(x, 3)
    \/ \E x \in DOMAIN IfaceName :
          \/ /\ d = 3 /\ AtIface(p, x) /\ n.ops = "netif" /\ n.is_root = 2
             /\ c = NetifNode(x, 2) /\ cur.field \in 0 .. 4 /\ cur.sub = 1
          \/ /\ d = 4 /\ AtNeighbours(p, x, cur) /\ cur.num > 0 /\ n = c
             /\ c = NetifNode(x, 1) /\ cur.sub = 2
          \/ /\ d = 5 /\ AtNeighbour(p, x, cur, l) /\ n = c
             /\ c = NetifNode(x, 0) /\ cur.sub \in 2 .. 4
    \/ Astray(d, n, c, cur)

\* The search enters the folder n, before get_next_child is called on it ...
Enters(p, d, n, c, cur, l) ==
    \/ TopEnters(p, d, n) \/ PsEnters(p, d, n, c) \/ SaulEnters(p, d, n, c)
    \/ NetifEnters(p, d, n, cur, l)

\* ... or has been given the child c of it, whose name is compared next.
Passes(p, d, n, c, cur, l) ==
    \/ TopPasses(p, d, n, c, cur) \/ PsPasses(p, d, n, c) \/ SaulPasses(p, d, n, c)
    \/ NetifPasses(p, d, n, c, cur, l)

\* The node found: a folder, or the leaf of the path.
Folder(c, cur) ==
    \/ c.ops = "root"
    \/ c.ops = "fl" /\ c.is_root = 1
    \/ c.ops \in {"ps", "saul"} /\ c.is_root # 0
    \/ c.ops = "netif" /\ c.is_root \in {3, 4}
    \/ c.ops = "netif" /\ c.is_root = 1 /\ cur.field = 4

\* The leaf the path p names, with the cursors that choose its field.
Leaf(p, c, cur, l) ==
    \/ /\ Len(p) = 2
       /\ \E i \in 1 .. Len(db_index) : \E k \in 1 .. Len(db_index[i].static) :
            /\ c = FlNode(i - 1, k - 1, 0)
            /\ Matches(p[1], db_index[i].name) /\ Matches(p[2], db_index[i].static[k][1])
    \/ /\ Len(p) = 4 /\ cur.ps \in 0 .. 4 /\ Matches(p[4], PsFields[cur.ps + 1])
       /\ \E x \in 1 .. PidLast : AtThread(p, x) /\ c = PsNode(x, 0)
    \/ /\ Len(p) = 4 /\ Matches(p[4], "class")
       /\ \E x \in DOMAIN DeviceName : AtDevice(p, x) /\ c = SaulNode(x, 0)
    \/ /\ Len(p) = 4 /\ cur.field \in 0 .. 4 /\ Matches(p[4], NetifFields[cur.field + 1])
       /\ \E x \in DOMAIN IfaceName : AtIface(p, x) /\ c = NetifNode(x, 2)
    \/ /\ Len(p) = 6 /\ cur.sub \in 2 .. 4 /\ Matches(p[6], QosFields[cur.sub])
       /\ \E x \in DOMAIN IfaceName : AtNeighbour(p, x, cur, l) /\ c = NetifNode(x, 0)

\* A search in progress: d tokens have been found, the rest is still to be looked for,
\* and the name in the buffer was not the one looked for.
Searches(r, cur, l) ==
    \E d \in 0 .. Len(r.path) - 1 :
        /\ r.todo = SubSeq(r.path, d + 1, Len(r.path))
        /\ d \in {3, 4} => ~Matches(r.path[d + 1], r.name)
        /\ Len(r.stack) = 2
        /\ LET n == r.stack[1]
               c == r.stack[2]
           IN  \/ r.pc = "lookup" /\ Enters(r.path, d, n, c, cur, l)
               \/ Passes(r.path, d, n, c, cur, l)

\* What a request r has found so far is what its path asks for.
Sound(r, cur, l) ==
    /\ r.cmd # "dcadump" /\ r.pc \in {"lookup", "match"} => Searches(r, cur, l)
    /\ r.cmd # "dcadump" /\ r.pc \in {"type"} \cup Reading => Len(r.stack) = 1
    /\ r.cmd # "dcadump" /\ r.pc = "type" =>
          \/ Folder(r.stack[1], cur) \/ Leaf(r.path, r.stack[1], cur, l)
    /\ r.cmd # "dcadump" /\ r.pc \in Reading => Leaf(r.path, r.stack[1], cur, l)
    /\ r.cmd # "dcadump" /\ r.pc \in {"assert", "read"} => r.type # "inner"
    /\ r.cmd # "dcadump" /\ r.pc \in {"count", "add"} =>
          r.stack[1].ops = "netif" /\ r.stack[1].is_root = 2 /\ cur.field = 3
    /\ r.pc = "idle" /\ r.res[1] = "value" => MatchesPath(r.path, r.res[2])

-----------------------------------------------------------------------------
(* The first two levels.                                                   *)

\* The dynamic subtrees lie below the branches of these names.
LEMMA DynamicAt ==
    ASSUME NEW i \in 1 .. Len(db_index), NEW m \in 1 .. Len(db_index[i].dynamic)
    PROVE  LET e == db_index[i]
           IN  /\ e.dynamic[m] \in ToSet(e.dynamic)
               /\ \/ e.dynamic[m] = "ps" /\ e.name = "runtime"
                  \/ e.dynamic[m] = "devices" /\ e.name = "saul"
                  \/ e.dynamic[m] = "netif" /\ e.name = "network"
  <1>1. PICK e \in Branches : e = db_index[i] /\ m \in 1 .. Len(e.dynamic)
    BY Index
  <1>2. CASE e = Board
    BY <1>1, <1>2 DEF Board
  <1>3. CASE e = Runtime
    BY <1>1, <1>3 DEF Runtime, ToSet
  <1>4. CASE e = Network
    BY <1>1, <1>4 DEF Network, ToSet
  <1>5. CASE e = Saul
    BY <1>1, <1>5 DEF Saul, ToSet
  <1>6. QED  BY <1>1, <1>2, <1>3, <1>4, <1>5 DEF Branches

\* The same, with the subtree in place of its position.
LEMMA DynamicIn ==
    ASSUME NEW i \in 1 .. Len(db_index), NEW kind \in ToSet(db_index[i].dynamic)
    PROVE  \/ kind = "ps" /\ db_index[i].name = "runtime"
           \/ kind = "devices" /\ db_index[i].name = "saul"
           \/ kind = "netif" /\ db_index[i].name = "network"
  <1>1. PICK e \in Branches : e = db_index[i] /\ kind \in ToSet(e.dynamic)
    BY Index
  <1>2. CASE e = Board
    BY <1>1, <1>2 DEF Board, ToSet
  <1>3. CASE e = Runtime
    BY <1>1, <1>3 DEF Runtime, ToSet
  <1>4. CASE e = Network
    BY <1>1, <1>4 DEF Network, ToSet
  <1>5. CASE e = Saul
    BY <1>1, <1>5 DEF Saul, ToSet
  <1>6. QED  BY <1>1, <1>2, <1>3, <1>4, <1>5 DEF Branches

\* On the first two levels, get_next_child goes on to a child of the same folder.
LEMMA TopNext ==
    ASSUME NEW p, NEW d, NEW n \in WrittenNodes, NEW c, NEW cur \in CursorSet,
           TopEnters(p, d, n) \/ TopPasses(p, d, n, c, cur),
           NEW s, s = NextChild(n, c, cur, cur), s.child # NullNode
    PROVE  TopPasses(p, d, s.node, s.child, s.cursor)
  <1>1. CASE d = 0
    <2>1. n.ops = "root"
      BY <1>1 DEF TopEnters, TopPasses, Root, RootNode
    <2>2. PICK j \in 0 .. Len(db_index) : n = RootNode(j)
      BY <2>1, Kinds
    <2>3. PICK a : n.idx = j /\ a = [n EXCEPT !.idx = @ + 1] /\ a.ops = "root"
      <3>1. [n EXCEPT !.idx = @ + 1] = RootNode(j + 1) /\ n.idx = j
        BY <2>2 DEF RootNode
      <3>2. RootNode(j + 1).ops = "root"
        BY DEF RootNode
      <3>3. QED  BY <3>1, <3>2
    <2>4. s = RootNextChild(n, cur)
      BY <2>1 DEF NextChild
    <2>5. /\ j < Len(db_index)
          /\ s = Step(a, FlNode(j, 0, 1), cur)
      <3>1. s.child # NullNode
        OBVIOUS
      <3>2. Step(n, NullNode, cur).child = NullNode
        BY DEF Step
      <3>3. QED  BY <2>3, <2>4, <3>1, <3>2 DEF RootNextChild
    <2>6. j + 1 \in 1 .. Len(db_index) /\ (j + 1) - 1 = j
      BY <2>5, Index
    <2>7. s.node.ops = "root" /\ s.child = FlNode((j + 1) - 1, 0, 1)
      <3>1. s.node = a /\ s.child = FlNode(j, 0, 1)
        BY <2>5 DEF Step
      <3>2. QED  BY <2>3, <2>6, <3>1
    <2>8. QED  BY <1>1, <2>6, <2>7 DEF TopPasses
  <1>2. CASE d = 1
    <2>1. PICK i \in 1 .. Len(db_index) :
             /\ n.ops = "fl" /\ n.is_root = 1 /\ n.fl_idx = i - 1
             /\ Matches(p[1], db_index[i].name)
      BY <1>2 DEF TopEnters, TopPasses, FlNode
    <2>2. PICK k \in 0 .. 6 : n = FlNode(i - 1, k, 1)
      <3>1. PICK i1 \in 0 .. Len(db_index) - 1, k \in 0 .. 6, r \in 0 .. 1 :
               n = FlNode(i1, k, r)
        BY <2>1, Kinds
      <3>2. i1 = i - 1 /\ r = 1
        BY <2>1, <3>1 DEF FlNode
      <3>3. QED  BY <3>1, <3>2
    <2>3. PICK e : e = db_index[i] /\ FlEntry(n) = e /\ e \in Branches
      <3>1. (i - 1) + 1 = i
        BY Index
      <3>2. QED  BY <2>1, <3>1, Index DEF FlEntry
    <2>4. PICK len \in 1 .. 5, dlen \in 0 .. 1 :
             len = Len(e.static) /\ dlen = Len(e.dynamic)
      BY <2>3, Entries
    <2>5. PICK b : b = [n EXCEPT !.sub_idx = @ + 1] /\ b.ops = "fl" /\ b.is_root = 1
                   /\ b.fl_idx = i - 1
      <3>1. [n EXCEPT !.sub_idx = @ + 1] = FlNode(i - 1, k + 1, 1)
        BY <2>2 DEF FlNode
      <3>2. \A x, y : /\ FlNode(x, y, 1).ops = "fl" /\ FlNode(x, y, 1).is_root = 1
                      /\ FlNode(x, y, 1).fl_idx = x
        BY DEF FlNode
      <3>3. QED  BY <3>1, <3>2
    <2>6. s = FlNextChild(n, cur)
      BY <2>1 DEF NextChild
    <2>7. \/ k + 1 <= len /\ s = Step(b, FlNode(i - 1, k, 0), cur)
          \/ \E m \in 1 .. dlen : s = Step(b, DynamicNode(e.dynamic[m]),
                                           DynamicCursor(e.dynamic[m], cur))
      <3>1. n.is_root = 1 /\ n.fl_idx = i - 1 /\ n.sub_idx = k
        BY <2>2 DEF FlNode
      <3>2. PICK dyn \in Int : dyn = k - len + 1
        OBVIOUS
      <3>3. \/ dyn <= 0 /\ s = Step(b, FlNode(i - 1, k, 0), cur)
            \/ dyn \in 1 .. dlen /\ s = Step(b, DynamicNode(e.dynamic[dyn]),
                                             DynamicCursor(e.dynamic[dyn], cur))
            \/ s = Step(n, NullNode, cur)
        BY <2>3, <2>4, <2>5, <2>6, <3>1, <3>2 DEF FlNextChild
      <3>4. s # Step(n, NullNode, cur)
        BY DEF Step
      <3>5. dyn <= 0 => k + 1 <= len
        BY <3>2
      <3>6. QED  BY <3>3, <3>4, <3>5
    <2>8. CASE k + 1 <= len /\ s = Step(b, FlNode(i - 1, k, 0), cur)
      <3>1. k + 1 \in 1 .. Len(db_index[i].static) /\ (k + 1) - 1 = k
        BY <2>3, <2>4, <2>8
      <3>2. s.node = b /\ s.child = FlNode(i - 1, (k + 1) - 1, 0)
        BY <2>8, <3>1 DEF Step
      <3>3. QED  BY <1>2, <2>1, <2>5, <3>1, <3>2 DEF TopPasses
    <2>9. ASSUME NEW m \in 1 .. dlen,
                 s = Step(b, DynamicNode(e.dynamic[m]),
                          DynamicCursor(e.dynamic[m], cur))
          PROVE  TopPasses(p, d, s.node, s.child, s.cursor)
      <3>1. PICK kind : kind = e.dynamic[m] /\ kind \in ToSet(db_index[i].dynamic)
        BY <2>3, <2>4, DynamicAt
      <3>2. s.node = b /\ s.child = DynamicNode(kind)
            /\ s.cursor = DynamicCursor(kind, cur)
        BY <2>9, <3>1 DEF Step
      <3>3. kind = "netif" => s.cursor.field = 0 /\ s.cursor.sub = 1
        BY <3>2 DEF DynamicCursor, CursorSet
      <3>4. QED  BY <1>2, <2>1, <2>5, <3>1, <3>2, <3>3 DEF TopPasses
    <2>10. QED  BY <2>7, <2>8, <2>9
  <1>3. QED  BY <1>1, <1>2 DEF TopEnters, TopPasses

\* Where a name of the first two levels is the token asked for, the search goes
\* down, or ends at the node of the path.
LEMMA TopHit ==
    ASSUME NEW p, ProperPath(p), Len(p) \in Nat, NEW d, NEW n, NEW c, NEW cur, NEW l,
           TopPasses(p, d, n, c, cur), NEW buf, Matches(p[d + 1], GetName(c, buf))
    PROVE  /\ d + 1 < Len(p) => Enters(p, d + 1, c, c, cur, l)
           /\ d + 1 = Len(p) => Folder(c, cur) \/ Leaf(p, c, cur, l)
  <1>1. ASSUME d = 0, NEW i \in 1 .. Len(db_index), c = FlNode(i - 1, 0, 1)
        PROVE  /\ Enters(p, d + 1, c, c, cur, l)
               /\ Folder(c, cur)
    <2>1. GetName(c, buf) = db_index[i].name
      <3>1. (i - 1) + 1 = i
        BY Index
      <3>2. QED  BY <1>1, <3>1 DEF GetName, FlName, FlEntry, FlNode
    <2>2. d + 1 = 1
      BY <1>1
    <2>3. TopEnters(p, 1, c)
      BY <1>1, <2>1, <2>2 DEF TopEnters
    <2>4. c.ops = "fl" /\ c.is_root = 1
      BY <1>1 DEF FlNode
    <2>5. QED  BY <2>2, <2>3, <2>4 DEF Enters, Folder
  <1>2. ASSUME d = 1, NEW i \in 1 .. Len(db_index), Matches(p[1], db_index[i].name),
               NEW k \in 1 .. Len(db_index[i].static), c = FlNode(i - 1, k - 1, 0)
        PROVE  /\ ~(d + 1 < Len(p))
               /\ d + 1 = Len(p) => Leaf(p, c, cur, l)
    <2>1. GetName(c, buf) = db_index[i].static[k][1]
      <3>1. StaticEntry(c) = db_index[i].static[k] /\ c.ops = "fl" /\ c.is_root = 0
        BY <1>2, EntryAt DEF FlNode
      <3>2. QED  BY <3>1 DEF GetName, FlName
    <2>2. d + 1 = 2 /\ Matches(p[2], db_index[i].static[k][1])
      BY <1>2, <2>1
    <2>3. ~(Len(p) > 2)
      <3>1. db_index[i].static[k][1] \in StaticNames
        BY EntryAt
      <3>2. QED  BY <2>2, <3>1 DEF ProperPath
    <2>4. QED  BY <1>2, <2>2, <2>3 DEF Leaf
  <1>3. ASSUME d = 1, NEW i \in 1 .. Len(db_index), Matches(p[1], db_index[i].name),
               NEW kind \in ToSet(db_index[i].dynamic), c = DynamicNode(kind),
               kind = "netif" => cur.field = 0 /\ cur.sub = 1
        PROVE  Enters(p, d + 1, c, c, cur, l) /\ Folder(c, cur)
    <2>1. d + 1 = 2
      BY <1>3
    <2>2. CASE kind = "ps" /\ db_index[i].name = "runtime"
      <3>1. c = PsNode(1, 2)
        BY <1>3, <2>2 DEF DynamicNode
      <3>2. c.ops = "ps" /\ c.is_root = 2 /\ GetName(c, buf) = "ps"
        BY <3>1 DEF PsNode, GetName, PsName
      <3>3. Below(p, "runtime", "ps")
        BY <1>3, <2>1, <2>2, <3>2 DEF Below
      <3>4. QED  BY <2>1, <3>2, <3>3 DEF Enters, PsEnters, Folder
    <2>3. CASE kind = "devices" /\ db_index[i].name = "saul"
      <3>1. c = SaulNode(DeviceNext(NULL), 2)
        BY <1>3, <2>3 DEF DynamicNode
      <3>2. c.ops = "saul" /\ c.is_root = 2 /\ GetName(c, buf) = "devices"
        BY <3>1 DEF SaulNode, GetName, SaulName
      <3>3. Below(p, "saul", "devices")
        BY <1>3, <2>1, <2>3, <3>2 DEF Below
      <3>4. QED  BY <2>1, <3>2, <3>3 DEF Enters, SaulEnters, Folder
    <2>4. CASE kind = "netif" /\ db_index[i].name = "network"
      <3>1. c = NetifNode(IfaceIter(NULL), 4)
        BY <1>3, <2>4 DEF DynamicNode
      <3>2. c.ops = "netif" /\ c.is_root = 4 /\ GetName(c, buf) = "netif"
        BY <3>1 DEF NetifNode, GetName, NetifName
      <3>3. Below(p, "network", "netif")
        BY <1>3, <2>1, <2>4, <3>2 DEF Below
      <3>4. QED  BY <1>3, <2>1, <2>4, <3>2, <3>3 DEF Enters, NetifEnters, Folder
    <2>5. QED  BY <2>2, <2>3, <2>4, DynamicIn
  <1>4. QED  BY <1>1, <1>2, <1>3 DEF TopPasses

-----------------------------------------------------------------------------
(* The threads and the devices.                                            *)

\* What a call returns, part by part.
LEMMA StepIs ==
    ASSUME NEW a, NEW b, NEW x
    PROVE  /\ Step(a, b, x).node = a /\ Step(a, b, x).child = b
           /\ Step(a, b, x).cursor = x
  BY DEF Step

\* get_next_child within /runtime/ps.
LEMMA PsNext ==
    ASSUME NEW p, NEW d, NEW n \in WrittenNodes, NEW c, NEW cur,
           PsEnters(p, d, n, c) \/ PsPasses(p, d, n, c),
           NEW s, s = NextChild(n, c, cur, cur), s.child # NullNode
    PROVE  PsPasses(p, d, s.node, s.child)
  <1>1. PidLast \in Nat
    BY DbAssumption
  <1>2. \A q, r : /\ PsNode(q, r).ops = "ps" /\ PsNode(q, r).pid = q
                  /\ PsNode(q, r).is_root = r
    BY DEF PsNode
  <1>3. n.ops = "ps" => s = PsNextChild(n, c, cur, cur)
    BY DEF NextChild
  <1>4. CASE d = 2
    <2>1. n.ops = "ps" /\ n.is_root = 2 /\ Below(p, "runtime", "ps")
      BY <1>4 DEF PsEnters, PsPasses
    <2>2. PICK q \in 1 .. PidLast + 1 : n = PsNode(q, 2)
      BY <1>2, <2>1, Kinds
    <2>3. PICK a : a = [n EXCEPT !.pid = NextPid(@)] /\ a.ops = "ps" /\ a.is_root = 2
      <3>1. [n EXCEPT !.pid = NextPid(@)] = PsNode(NextPid(q), 2)
        BY <2>2 DEF PsNode
      <3>2. QED  BY <1>2, <3>1
    <2>4. \/ q <= PidLast /\ s = Step(a, PsNode(q, 1), cur)
          \/ s = Step(n, NullNode, cur)
      BY <1>1, <1>2, <1>3, <2>1, <2>2, <2>3 DEF PsNextChild
    <2>5. q \in 1 .. PidLast /\ s = Step(a, PsNode(q, 1), cur)
      BY <1>1, <2>4, StepIs
    <2>6. s.node = a /\ s.child = PsNode(q, 1)
      BY <2>5, StepIs
    <2>7. QED  BY <1>4, <2>1, <2>3, <2>5, <2>6 DEF PsPasses
  <1>5. ASSUME d = 3, NEW x \in 1 .. PidLast, AtThread(p, x), n = c, c = PsNode(x, 1)
        PROVE  PsPasses(p, d, s.node, s.child)
    <2>1. \/ s = Step(PsNode(NextPid(x), 0), PsNode(x, 0), cur)
          \/ s = Step(n, c, cur)
      BY <1>1, <1>2, <1>3, <1>5 DEF PsNextChild, PsFieldsBegin
    <2>2. QED  BY <1>2, <1>5, <2>1, StepIs DEF PsPasses
  <1>6. ASSUME d = 3, NEW x \in 1 .. PidLast, AtThread(p, x), n.ops = "ps",
               n.is_root = 0, c = PsNode(x, 0)
        PROVE  PsPasses(p, d, s.node, s.child)
    <2>1. \/ \E y : s = Step(n, NullNode, y)
          \/ \E y : s = Step(n, c, y)
      BY <1>3, <1>6 DEF PsNextChild, PsFieldsEnd
    <2>2. QED  BY <1>6, <2>1, StepIs DEF PsPasses
  <1>7. QED  BY <1>4, <1>5, <1>6 DEF PsEnters, PsPasses

\* get_next_child within /saul/devices.
LEMMA SaulNext ==
    ASSUME NEW p, NEW d, NEW n \in WrittenNodes, NEW c, NEW cur,
           SaulEnters(p, d, n, c) \/ SaulPasses(p, d, n, c),
           NEW s, s = NextChild(n, c, cur, cur), s.child # NullNode
    PROVE  SaulPasses(p, d, s.node, s.child)
  <1>1. \A q, r : /\ SaulNode(q, r).ops = "saul" /\ SaulNode(q, r).dev = q
                  /\ SaulNode(q, r).is_root = r
    BY DEF SaulNode
  <1>2. n.ops = "saul" => s = SaulNextChild(n, c, cur, cur)
    BY DEF NextChild
  <1>3. \A x \in 0 .. Len(DeviceName) : x # NULL <=> x \in DOMAIN DeviceName
    BY DbAssumption DEF NULL
  <1>4. CASE d = 2
    <2>1. n.ops = "saul" /\ n.is_root = 2 /\ Below(p, "saul", "devices")
      BY <1>4 DEF SaulEnters, SaulPasses
    <2>2. PICK q \in 0 .. Len(DeviceName) : n = SaulNode(q, 2)
      BY <1>1, <2>1, Kinds
    <2>3. PICK a : a = [n EXCEPT !.dev = DeviceNext(@)] /\ a.ops = "saul"
                   /\ a.is_root = 2
      <3>1. [n EXCEPT !.dev = DeviceNext(@)] = SaulNode(DeviceNext(q), 2)
        BY <2>2 DEF SaulNode
      <3>2. QED  BY <1>1, <3>1
    <2>4. \/ q # NULL /\ s = Step(a, SaulNode(q, 1), cur)
          \/ s = Step(n, NullNode, cur)
      BY <1>1, <1>2, <2>1, <2>2, <2>3 DEF SaulNextChild
    <2>5. q \in DOMAIN DeviceName /\ s = Step(a, SaulNode(q, 1), cur)
      BY <1>3, <2>4, StepIs
    <2>6. s.node = a /\ s.child = SaulNode(q, 1)
      BY <2>5, StepIs
    <2>7. QED  BY <1>4, <2>1, <2>3, <2>5, <2>6 DEF SaulPasses
  <1>5. ASSUME d = 3, NEW x \in DOMAIN DeviceName, AtDevice(p, x), n = c,
               c = SaulNode(x, 1)
        PROVE  SaulPasses(p, d, s.node, s.child)
    <2>1. \/ s = Step(SaulNode(DeviceNext(x), 0), SaulNode(x, 0), cur)
          \/ s = Step(n, c, cur)
      BY <1>1, <1>2, <1>5 DEF SaulNextChild
    <2>2. QED  BY <1>1, <1>5, <2>1, StepIs DEF SaulPasses
  <1>6. ASSUME d = 3, NEW x \in DOMAIN DeviceName, AtDevice(p, x), n.ops = "saul",
               n.is_root = 0, c = SaulNode(x, 0)
        PROVE  SaulPasses(p, d, s.node, s.child)
    <2>1. \/ \E y : s = Step(n, NullNode, y)
          \/ \E y : s = Step(n, c, y)
      BY <1>2, <1>6 DEF SaulNextChild
    <2>2. QED  BY <1>6, <2>1, StepIs DEF SaulPasses
  <1>7. QED  BY <1>4, <1>5, <1>6 DEF SaulEnters, SaulPasses

\* The names that the fourth token of a proper path, and the fifth, can be
\* taken for.
LEMMA Proper ==
    ASSUME NEW p, ProperPath(p), Len(p) \in Nat
    PROVE  /\ Len(p) <= 6
           /\ Len(p) > 3 =>
                 /\ \A x \in 1 .. PidLast : ~Matches(p[4], ThreadName[x])
                 /\ \A x \in DOMAIN DeviceName : ~Matches(p[4], DeviceName[x])
                 /\ \A x \in DOMAIN IfaceName : ~Matches(p[4], IfaceName[x])
                 /\ \A a \in Addresses : ~Matches(p[4], a)
                 /\ \A k \in 1 .. 4 : ~Matches(p[4], QosFields[k])
           /\ Len(p) > 4 =>
                 /\ \A k \in 1 .. 5 : ~Matches(p[4], PsFields[k])
                 /\ ~Matches(p[4], "class")
                 /\ \A k \in 1 .. 4 : ~Matches(p[4], NetifFields[k])
                 /\ \A k \in 1 .. 5 : ~Matches(p[5], NetifFields[k])
                 /\ \A k \in 1 .. 4 : ~Matches(p[5], QosFields[k])
  <1>1. /\ \A x \in 1 .. PidLast : ThreadName[x] \in ToSet(ThreadName)
        /\ \A x \in DOMAIN DeviceName : DeviceName[x] \in ToSet(DeviceName)
        /\ \A x \in DOMAIN IfaceName : IfaceName[x] \in ToSet(IfaceName)
    BY DbAssumption DEF ToSet
  <1>2. /\ DOMAIN QosFields = 1 .. 4 /\ DOMAIN PsFields = 1 .. 5
        /\ DOMAIN NetifFields = 1 .. 5
    BY DEF QosFields, PsFields, NetifFields
  <1>3. /\ \A k \in 1 .. 4 : QosFields[k] \in ToSet(QosFields)
        /\ \A k \in 1 .. 5 : PsFields[k] \in ToSet(PsFields)
        /\ \A k \in 1 .. 5 : NetifFields[k] \in ToSet(NetifFields)
    BY <1>2 DEF ToSet
  <1>4. \A k \in 1 .. 4 : k \in 1 .. 5 /\ NetifFields[k] # "neighbours"
    <2>1. /\ NetifFields[1] = "pid" /\ NetifFields[2] = "inet6 addr"
          /\ NetifFields[3] = "Link type" /\ NetifFields[4] = "num_neighbours"
      BY DEF NetifFields
    <2>2. \A k \in 1 .. 4 : k \in 1 .. 5 /\ (k = 1 \/ k = 2 \/ k = 3 \/ k = 4)
      OBVIOUS
    <2>3. QED  BY <2>1, <2>2, Zenon
  <1>5. QED  BY <1>1, <1>3, <1>4 DEF ProperPath

\* The search goes down to the child c, which has taken the name in buf for the
\* next token: on to its children, or it has found what it is looking for.
Descends(p, d, c, buf, l) ==
    /\ d + 1 < Len(p) =>
          /\ Enters(p, d + 1, c, c, cursor, l)
          /\ d + 1 \in {3, 4} => ~Matches(p[d + 2], GetName(c, buf))
    /\ d + 1 = Len(p) => Folder(c, cursor) \/ Leaf(p, c, cursor, l)

\* A name within /runtime/ps is the token asked for.
LEMMA PsHit ==
    ASSUME NEW p, ProperPath(p), Len(p) \in Nat, NEW d \in Nat, d < Len(p),
           NEW n, NEW c, NEW l, cursor \in CursorSet,
           PsPasses(p, d, n, c), NEW buf, Matches(p[d + 1], GetName(c, buf)),
           d \in {3, 4} => ~Matches(p[d + 1], buf)
    PROVE  Descends(p, d, c, buf, l)
  <1>1. \A q, r : /\ PsNode(q, r).ops = "ps" /\ PsNode(q, r).pid = q
                  /\ PsNode(q, r).is_root = r
    BY DEF PsNode
  <1>2. ASSUME d = 2, Below(p, "runtime", "ps"), NEW x \in 1 .. PidLast,
               c = PsNode(x, 1)
        PROVE  Descends(p, d, c, buf, l)
    <2>1. GetName(c, buf) = ThreadName[x] /\ d + 1 = 3
      BY <1>1, <1>2 DEF GetName, PsName
    <2>2. AtThread(p, x)
      BY <1>2, <2>1 DEF AtThread
    <2>3. Enters(p, d + 1, c, c, cursor, l) /\ Folder(c, cursor)
      BY <1>1, <1>2, <2>1, <2>2 DEF Enters, PsEnters, Folder
    <2>4. 3 < Len(p) => ~Matches(p[4], ThreadName[x])
      BY Proper
    <2>5. d + 2 = 4
      BY <1>2
    <2>6. QED  BY <2>1, <2>3, <2>4, <2>5 DEF Descends
  <1>3. ASSUME d = 3, NEW x \in 1 .. PidLast, c = PsNode(x, 1)
        PROVE  FALSE
    <2>1. GetName(c, buf) = ThreadName[x] /\ d + 1 = 4
      BY <1>1, <1>3 DEF GetName, PsName
    <2>2. QED  BY <1>3, <2>1, Proper
  <1>4. ASSUME d = 3, NEW x \in 1 .. PidLast, AtThread(p, x), c = PsNode(x, 0)
        PROVE  d + 1 = Len(p) /\ Leaf(p, c, cursor, l)
    <2>1. d + 1 = 4 /\ Matches(p[4], GetName(c, buf)) /\ ~Matches(p[4], buf)
      BY <1>4
    <2>2. GetName(c, buf) = FieldName(PsFields, cursor.ps + 1, buf)
      BY <1>1, <1>4 DEF GetName, PsName
    <2>3. cursor.ps + 1 \in 1 .. 5 /\ Matches(p[4], PsFields[cursor.ps + 1])
      <3>1. DOMAIN PsFields = 1 .. 5
        BY DEF PsFields
      <3>2. QED  BY <2>1, <2>2, <3>1 DEF FieldName
    <2>4. cursor.ps \in 0 .. 4
      <3>1. cursor.ps \in Int8
        BY CursorFields
      <3>2. \A i \in Int8 : i \in Int
        BY DEF Int8
      <3>3. QED  BY <2>3, <3>1, <3>2
    <2>5. Len(p) = 4
      <3>1. ~(Len(p) > 4)
        BY <2>3, Proper
      <3>2. QED  BY <1>4, <3>1
    <2>6. QED  BY <1>4, <2>1, <2>3, <2>4, <2>5 DEF Leaf
  <1>5. d + 1 = Len(p) /\ Leaf(p, c, cursor, l) => Descends(p, d, c, buf, l)
    BY DEF Descends
  <1>6. QED  BY <1>2, <1>3, <1>4, <1>5 DEF PsPasses

\* A name within /saul/devices is the token asked for.
LEMMA SaulHit ==
    ASSUME NEW p, ProperPath(p), Len(p) \in Nat, NEW d \in Nat, d < Len(p),
           NEW n, NEW c, NEW l,
           SaulPasses(p, d, n, c), NEW buf, Matches(p[d + 1], GetName(c, buf)),
           d \in {3, 4} => ~Matches(p[d + 1], buf)
    PROVE  Descends(p, d, c, buf, l)
  <1>1. \A q, r : /\ SaulNode(q, r).ops = "saul" /\ SaulNode(q, r).dev = q
                  /\ SaulNode(q, r).is_root = r
    BY DEF SaulNode
  <1>2. ASSUME d = 2, Below(p, "saul", "devices"), NEW x \in DOMAIN DeviceName,
               c = SaulNode(x, 1)
        PROVE  Descends(p, d, c, buf, l)
    <2>1. GetName(c, buf) = DeviceName[x] /\ d + 1 = 3
      BY <1>1, <1>2 DEF GetName, SaulName
    <2>2. AtDevice(p, x)
      BY <1>2, <2>1 DEF AtDevice
    <2>3. Enters(p, d + 1, c, c, cursor, l) /\ Folder(c, cursor)
      BY <1>1, <1>2, <2>1, <2>2 DEF Enters, SaulEnters, Folder
    <2>4. 3 < Len(p) => ~Matches(p[4], DeviceName[x])
      BY Proper
    <2>5. d + 2 = 4
      BY <1>2
    <2>6. QED  BY <2>1, <2>3, <2>4, <2>5 DEF Descends
  <1>3. ASSUME d = 3, NEW x \in DOMAIN DeviceName, c = SaulNode(x, 1)
        PROVE  FALSE
    <2>1. GetName(c, buf) = DeviceName[x] /\ d + 1 = 4
      BY <1>1, <1>3 DEF GetName, SaulName
    <2>2. QED  BY <1>3, <2>1, Proper
  <1>4. ASSUME d = 3, NEW x \in DOMAIN DeviceName, AtDevice(p, x), c = SaulNode(x, 0)
        PROVE  d + 1 = Len(p) /\ Leaf(p, c, cursor, l)
    <2>1. d + 1 = 4 /\ Matches(p[4], GetName(c, buf)) /\ ~Matches(p[4], buf)
      BY <1>4
    <2>2. GetName(c, buf) = FieldName(<<"class">>, cursor.saul + 1, buf)
      BY <1>1, <1>4 DEF GetName, SaulName
    <2>3. Matches(p[4], "class")
      BY <2>1, <2>2 DEF FieldName
    <2>4. Len(p) = 4
      <3>1. ~(Len(p) > 4)
        BY <2>3, Proper
      <3>2. \A m \in Nat : 3 < m /\ ~(m > 4) => m = 4
        OBVIOUS
      <3>3. QED  BY <1>4, <3>1, <3>2
    <2>5. QED  BY <1>4, <2>1, <2>3, <2>4 DEF Leaf
  <1>5. d + 1 = Len(p) /\ Leaf(p, c, cursor, l) => Descends(p, d, c, buf, l)
    BY DEF Descends
  <1>6. QED  BY <1>2, <1>3, <1>4, <1>5 DEF SaulPasses

-----------------------------------------------------------------------------
(* The interfaces and their neighbours.                                    *)

\* Counting on.
LEMMA CountsOn ==
    ASSUME NEW cur \in CursorSet
    PROVE  /\ cur.field \in Nat /\ cur.sub \in Nat /\ cur.num \in Nat
           /\ \A x \in 0 .. 3 : IncUint8(x) = x + 1
           /\ \A x : /\ WithSub(cur, x).sub = x /\ WithSub(cur, x).field = cur.field
                     /\ WithSub(cur, x).num = cur.num
           /\ \A x : WithField(cur, x).field = x /\ WithField(cur, x).sub = cur.sub
  <1>1. \A x \in Uint8 : x \in Nat
    BY DEF Uint8
  <1>2. \A x \in 0 .. 3 : IncUint8(x) = x + 1
    BY DEF IncUint8
  <1>3. \A x : /\ WithSub(cur, x).sub = x /\ WithSub(cur, x).field = cur.field
               /\ WithSub(cur, x).num = cur.num
    BY DEF CursorSet, WithSub
  <1>4. \A x : WithField(cur, x).field = x /\ WithField(cur, x).sub = cur.sub
    BY DEF CursorSet, WithField
  <1>5. QED  BY <1>1, <1>2, <1>3, <1>4, CursorFields

\* From the folder of a neighbour to its fields, and on among them.
LEMMA FieldsNext ==
    ASSUME NEW x, NEW c, NEW cur \in CursorSet, cur.num > 0,
           NEW s, s.child # NullNode
    PROVE  /\ /\ s = NextChild(NetifNode(x, 1), c, cur, cur)
              /\ cur.sub = 2
              => s = Step(NetifNode(x, 0), NetifNode(x, 0), cur)
           /\ /\ s = NextChild(NetifNode(x, 0), c, cur, cur)
              /\ cur.sub \in 2 .. 4
              => /\ s = Step(NetifNode(x, 0), c, s.cursor)
                 /\ s.cursor.sub \in 2 .. 4 /\ s.cursor.num = cur.num
                 /\ s.cursor.field = cur.field
  <1>1. \A k : NextChild(NetifNode(x, k), c, cur, cur)
                  = NetifNextChild(NetifNode(x, k), c, cur, cur)
    BY DEF NextChild, NetifNode
  <1>2. ASSUME s = NextChild(NetifNode(x, 1), c, cur, cur), cur.sub = 2
        PROVE  s = Step(NetifNode(x, 0), NetifNode(x, 0), cur)
    <2>1. cur.num # 0
      BY CountsOn
    <2>2. QED  BY <1>1, <1>2, <2>1, NetifLevel1
  <1>3. ASSUME s = NextChild(NetifNode(x, 0), c, cur, cur), cur.sub \in 2 .. 4
        PROVE  /\ s = Step(NetifNode(x, 0), c, s.cursor)
               /\ s.cursor.sub \in 2 .. 4 /\ s.cursor.num = cur.num
               /\ s.cursor.field = cur.field
    <2>1. cur.num # 0
      BY CountsOn
    <2>2. s = IF cur.sub < 4
              THEN Step(NetifNode(x, 0), c, WithSub(cur, IncUint8(cur.sub)))
              ELSE IF cur.sub = 4 /\ cur.num # 0
              THEN Step(NetifNode(x, 0), NullNode, WithSub(cur, IncUint8(cur.sub)))
              ELSE NextNeighbour(NetifNode(x, 0), cur)
      BY <1>1, <1>3, NetifLevel0
    <2>3. cur.sub < 4
      <3>1. ~(cur.sub < 4) => cur.sub = 4
        BY <1>3
      <3>2. QED  BY <2>1, <2>2, <3>1, StepIs
    <2>4. PICK y : y = WithSub(cur, IncUint8(cur.sub))
      OBVIOUS
    <2>5. y.sub = cur.sub + 1 /\ y.num = cur.num /\ y.field = cur.field
      <3>1. cur.sub \in 0 .. 3
        BY <1>3, <2>3
      <3>2. QED  BY <2>4, <3>1, CountsOn
    <2>6. s = Step(NetifNode(x, 0), c, y)
      BY <2>2, <2>3, <2>4
    <2>7. QED  BY <1>3, <2>3, <2>5, <2>6, StepIs
  <1>4. QED  BY <1>2, <1>3

\* get_next_child within /network/netif: to the next interface, field, neighbour or
\* field of a neighbour, or astray.
LEMMA NetifNext ==
    ASSUME NEW p, NEW d, NEW n \in WrittenNodes, NEW c, NEW cur \in CursorSet, NEW l,
           NetifEnters(p, d, n, cur, l) \/ NetifPasses(p, d, n, c, cur, l),
           NEW s, s = NextChild(n, c, cur, cur), s.child # NullNode
    PROVE  NetifPasses(p, d, s.node, s.child, s.cursor, l)
  <1>1. \A y, k : NetifNode(y, k).ops = "netif" /\ NetifNode(y, k).is_root = k
    BY DEF NetifNode
  <1>2. \A y, k : n = NetifNode(y, k) =>
                     s = NetifNextChild(NetifNode(y, k), c, cur, cur)
    BY <1>1 DEF NextChild
  <1>3. \A y \in 0 .. Len(IfaceName) : y # NULL <=> y \in DOMAIN IfaceName
    BY DbAssumption DEF NULL
  <1>4. CASE d = 2
    <2>1. /\ Below(p, "network", "netif") /\ n.ops = "netif" /\ n.is_root = 4
          /\ cur.field = 0 /\ cur.sub = 1
      BY <1>4 DEF NetifEnters, NetifPasses, Astray
    <2>2. PICK y \in 0 .. Len(IfaceName) : n = NetifNode(y, 4)
      BY <1>1, <2>1, Kinds
    <2>3. /\ y \in DOMAIN IfaceName
          /\ s = Step(NetifNode(IfaceIter(y), 4), NetifNode(y, 3), cur)
      BY <1>2, <1>3, <2>2, NetifLevel4, StepIs
    <2>4. /\ s.node = NetifNode(IfaceIter(y), 4) /\ s.child = NetifNode(y, 3)
          /\ s.cursor = cur
      BY <2>3, StepIs
    <2>5. QED  BY <1>1, <1>4, <2>1, <2>3, <2>4 DEF NetifPasses
  <1>5. ASSUME d = 3, NEW x \in DOMAIN IfaceName, AtIface(p, x),
               n = NetifNode(x, 3), cur.field = 0, cur.sub = 1
        PROVE  NetifPasses(p, d, s.node, s.child, s.cursor, l)
    <2>1. x # NULL
      BY <1>3, DbAssumption
    <2>2. s = Step(NetifNode(IfaceIter(x), 2), NetifNode(x, 2), cur)
      BY <1>2, <1>5, <2>1, NetifLevel3
    <2>3. /\ s.node = NetifNode(IfaceIter(x), 2) /\ s.child = NetifNode(x, 2)
          /\ s.cursor = cur
      BY <2>2, StepIs
    <2>4. cur.field \in 0 .. 4
      BY <1>5
    <2>5. QED  BY <1>1, <1>5, <2>3, <2>4 DEF NetifPasses
  <1>6. ASSUME NEW y \in 0 .. Len(IfaceName), n = NetifNode(y, 2), cur.sub = 1,
               cur.field \in 0 .. 4
        PROVE  \/ /\ cur.field = 4 /\ cur.num > 0 /\ y \in DOMAIN IfaceName
                  /\ s.node = NetifNode(y, 1) /\ s.child = NetifNode(y, 1)
                  /\ s.cursor.field = 4 /\ s.cursor.num > 0 /\ s.cursor.sub = 2
               \/ /\ cur.field < 4 /\ s.node = n /\ s.child = c
                  /\ s.cursor.field \in 0 .. 4 /\ s.cursor.sub = 1
    <2>1. s = IF cur.field = 4 /\ y # NULL /\ cur.num > 0
              THEN Step(NetifNode(y, 1), NetifNode(y, 1),
                        WithSub(cur, IncUint8(cur.sub)))
              ELSE IF cur.field < 4
              THEN Step(NetifNode(y, 2), c, WithField(cur, IncUint8(cur.field)))
              ELSE Step(NetifNode(y, 2), NullNode, cur)
      BY <1>2, <1>6, NetifLevel2
    <2>2. CASE cur.field = 4 /\ y # NULL /\ cur.num > 0
      <3>1. PICK z : z = WithSub(cur, IncUint8(cur.sub))
        OBVIOUS
      <3>2. z.sub = 2 /\ z.field = 4 /\ z.num = cur.num
        <4>1. IncUint8(1) = 2
          BY DEF IncUint8
        <4>2. QED  BY <1>6, <2>2, <3>1, <4>1, CountsOn
      <3>3. s = Step(NetifNode(y, 1), NetifNode(y, 1), z)
        BY <2>1, <2>2, <3>1
      <3>4. QED  BY <1>3, <2>2, <3>2, <3>3, StepIs
    <2>3. CASE cur.field < 4
      <3>1. PICK z : z = WithField(cur, IncUint8(cur.field))
        OBVIOUS
      <3>2. z.field = cur.field + 1 /\ z.sub = 1
        <4>1. cur.field \in 0 .. 3
          BY <1>6, <2>3
        <4>2. QED  BY <1>6, <3>1, <4>1, CountsOn
      <3>3. s = Step(n, c, z)
        BY <1>6, <2>1, <2>3, <3>1
      <3>4. z.field \in 0 .. 4
        BY <1>6, <2>3, <3>2
      <3>5. QED  BY <2>3, <3>2, <3>3, <3>4, StepIs
    <2>4. QED  BY <2>1, <2>2, <2>3, StepIs
  <1>7. ASSUME d = 3, NEW x \in DOMAIN IfaceName, AtIface(p, x), n.ops = "netif",
               n.is_root = 2, c = NetifNode(x, 2), cur.field \in 0 .. 4, cur.sub = 1
        PROVE  NetifPasses(p, d, s.node, s.child, s.cursor, l)
    <2>1. PICK y \in 0 .. Len(IfaceName) : n = NetifNode(y, 2)
      BY <1>1, <1>7, Kinds
    <2>2. CASE /\ y \in DOMAIN IfaceName
               /\ s.node = NetifNode(y, 1) /\ s.child = NetifNode(y, 1)
               /\ s.cursor.field = 4 /\ s.cursor.num > 0 /\ s.cursor.sub = 2
      BY <1>7, <2>2 DEF NetifPasses, Astray
    <2>3. CASE /\ s.node = n /\ s.child = c
               /\ s.cursor.field \in 0 .. 4 /\ s.cursor.sub = 1
      BY <1>7, <2>3 DEF NetifPasses
    <2>4. QED  BY <1>6, <1>7, <2>1, <2>2, <2>3
  <1>8. ASSUME d = 4, NEW x \in DOMAIN IfaceName, AtNeighbours(p, x, cur),
               n = NetifNode(x, 2), cur.sub = 1
        PROVE  NetifPasses(p, d, s.node, s.child, s.cursor, l)
    <2>1. x \in 0 .. Len(IfaceName) /\ cur.field = 4 /\ cur.field \in 0 .. 4
      BY <1>8, DbAssumption DEF AtNeighbours
    <2>2. /\ s.node = NetifNode(x, 1) /\ s.child = NetifNode(x, 1)
          /\ s.cursor.field = 4 /\ s.cursor.num > 0 /\ s.cursor.sub = 2
      BY <1>6, <1>8, <2>1
    <2>3. AtNeighbours(p, x, s.cursor)
      BY <1>8, <2>2 DEF AtNeighbours
    <2>4. QED  BY <1>8, <2>2, <2>3 DEF NetifPasses
  <1>9. ASSUME NEW x \in DOMAIN IfaceName, n = NetifNode(x, 1), cur.num > 0,
               cur.sub = 2
        PROVE  /\ s.node = NetifNode(x, 0) /\ s.child = NetifNode(x, 0)
               /\ s.cursor = cur
    BY <1>9, FieldsNext, StepIs
  <1>10. ASSUME NEW x \in DOMAIN IfaceName, n = c, n = NetifNode(x, 0), cur.num > 0,
                cur.sub \in 2 .. 4
         PROVE  /\ s.node = NetifNode(x, 0) /\ s.child = NetifNode(x, 0)
                /\ s.cursor.sub \in 2 .. 4 /\ s.cursor.num = cur.num
                /\ s.cursor.field = cur.field
    BY <1>10, FieldsNext, StepIs
  <1>11. ASSUME d = 4, NEW x \in DOMAIN IfaceName, AtNeighbours(p, x, cur),
                cur.num > 0, n = NetifNode(x, 1), cur.sub = 2
         PROVE  NetifPasses(p, d, s.node, s.child, s.cursor, l)
    <2>1. cur.field = 4
      BY <1>11 DEF AtNeighbours
    <2>2. QED  BY <1>9, <1>11, <2>1 DEF NetifPasses, Astray
  <1>12. ASSUME d = 5, NEW x \in DOMAIN IfaceName, AtNeighbour(p, x, cur, l),
                n = NetifNode(x, 1), cur.sub = 2
         PROVE  NetifPasses(p, d, s.node, s.child, s.cursor, l)
    <2>1. cur.num > 0 /\ cur.sub \in 2 .. 4
      BY <1>12 DEF AtNeighbour
    <2>2. QED  BY <1>9, <1>12, <2>1 DEF NetifPasses
  <1>13. ASSUME d = 5, NEW x \in DOMAIN IfaceName, AtNeighbour(p, x, cur, l),
                n = c, c = NetifNode(x, 0), cur.sub \in 2 .. 4
         PROVE  NetifPasses(p, d, s.node, s.child, s.cursor, l)
    <2>1. cur.num > 0
      BY <1>13 DEF AtNeighbour
    <2>2. AtNeighbour(p, x, s.cursor, l)
      BY <1>10, <1>13, <2>1 DEF AtNeighbour, AtNeighbours
    <2>3. QED  BY <1>10, <1>13, <2>1, <2>2 DEF NetifPasses
  <1>14. CASE Astray(d, n, c, cur)
    <2>1. n = c /\ cur.field = 4 /\ cur.num > 0
      BY <1>14 DEF Astray
    <2>2. ASSUME NEW x \in DOMAIN IfaceName, d = 3, c = NetifNode(x, 1), cur.sub = 2
          PROVE  NetifPasses(p, d, s.node, s.child, s.cursor, l)
      BY <1>9, <2>1, <2>2 DEF NetifPasses, Astray
    <2>3. ASSUME NEW x \in DOMAIN IfaceName, d \in {3, 4}, c = NetifNode(x, 0),
                 cur.sub \in 2 .. 4
          PROVE  NetifPasses(p, d, s.node, s.child, s.cursor, l)
      BY <1>10, <2>1, <2>3 DEF NetifPasses, Astray
    <2>4. QED  BY <1>14, <2>2, <2>3 DEF Astray
  <1>15. QED
    BY <1>4, <1>5, <1>7, <1>8, <1>11, <1>12, <1>13, <1>14 DEF NetifEnters, NetifPasses

\* What get_name_fn gives for a neighbour.
LEMMA NeighbourIs ==
    ASSUME cursor \in CursorSet, list \in Seq(Addresses), cursor.num > 0, WalkEnds
    PROVE  /\ Max({1, cursor.num}) \in 1 .. Len(list)
           /\ Neighbour = list[Max({1, cursor.num})] /\ Neighbour \in Addresses
  <1>1. PICK m \in Nat, len \in Nat :
            m = cursor.num /\ m >= 1 /\ len = Len(list) /\ m <= len
    BY CountsOn DEF WalkEnds
  <1>2. Max({1, m}) \in {1, m}
    <2>1. \E k \in {1, m} : \A j \in {1, m} : j <= k
      BY <1>1
    <2>2. QED  BY <2>1 DEF Max
  <1>3. Max({1, m}) \in 1 .. len
    BY <1>1, <1>2
  <1>4. QED  BY <1>1, <1>3 DEF Neighbour

\* A name within /network/netif is the token asked for; what is met astray never is,
\* as the path is proper.
LEMMA NetifHit ==
    ASSUME NEW p, ProperPath(p), Len(p) \in Nat, NEW d \in Nat, d < Len(p),
           NEW n, NEW c, cursor \in CursorSet, list \in Seq(Addresses),
           NetifPasses(p, d, n, c, cursor, list),
           NEW buf, Matches(p[d + 1], GetName(c, buf)),
           d \in {3, 4} => ~Matches(p[d + 1], buf)
    PROVE  Descends(p, d, c, buf, list)
  <1>1. \A y, k : /\ NetifNode(y, k).ops = "netif" /\ NetifNode(y, k).is_root = k
                  /\ NetifNode(y, k).iface = y
    BY DEF NetifNode
  <1>2. \A y, k : c = NetifNode(y, k) => GetName(c, buf) = NetifName(c, buf)
    BY <1>1 DEF GetName
  <1>3. DOMAIN NetifFields = 1 .. 5 /\ DOMAIN QosFields = 1 .. 4
        /\ NetifFields[5] = "neighbours"
    BY DEF NetifFields, QosFields
  <1>4. ASSUME d = 2, Below(p, "network", "netif"), NEW x \in DOMAIN IfaceName,
               c = NetifNode(x, 3), cursor.field = 0, cursor.sub = 1
        PROVE  Descends(p, d, c, buf, list)
    <2>1. GetName(c, buf) = IfaceName[x] /\ d + 1 = 3 /\ d + 2 = 4
      BY <1>1, <1>2, <1>4 DEF NetifName
    <2>2. AtIface(p, x)
      BY <1>4, <2>1 DEF AtIface
    <2>3. Enters(p, 3, c, c, cursor, list) /\ Folder(c, cursor)
      BY <1>1, <1>4, <2>2 DEF Enters, NetifEnters, Folder
    <2>4. 3 < Len(p) => ~Matches(p[4], IfaceName[x])
      BY Proper
    <2>5. QED  BY <2>1, <2>3, <2>4 DEF Descends
  <1>5. ASSUME d = 3, NEW x \in DOMAIN IfaceName, AtIface(p, x),
               c = NetifNode(x, 2), cursor.field \in 0 .. 4, cursor.sub = 1
        PROVE  Descends(p, d, c, buf, list)
    <2>1. PICK f \in 1 .. 5 : f = cursor.field + 1 /\ cursor.field = f - 1
      BY <1>5
    <2>2. GetName(c, buf) = NetifFields[f] /\ d + 1 = 4 /\ d + 2 = 5
      BY <1>1, <1>2, <1>3, <1>5, <2>1 DEF NetifName, FieldName
    <2>3. CASE Len(p) = 4
      <3>1. Leaf(p, c, cursor, list)
        BY <1>5, <2>1, <2>2, <2>3 DEF Leaf
      <3>2. QED  BY <2>2, <2>3, <3>1 DEF Descends
    <2>4. CASE Len(p) > 4
      <3>1. f = 5
        <4>1. f \notin 1 .. 4
          BY <2>2, <2>4, Proper
        <4>2. QED  BY <2>1, <4>1
      <3>2. AtNeighbours(p, x, cursor)
        BY <1>3, <1>5, <2>1, <2>2, <3>1 DEF AtNeighbours
      <3>3. Enters(p, 4, c, c, cursor, list)
        BY <1>5, <3>2 DEF Enters, NetifEnters
      <3>4. ~Matches(p[5], NetifFields[5])
        BY <2>4, Proper
      <3>5. QED  BY <2>2, <2>4, <3>1, <3>3, <3>4 DEF Descends
    <2>5. \A m \in Nat : 3 < m => m = 4 \/ m > 4
      OBVIOUS
    <2>6. QED  BY <1>5, <2>3, <2>4, <2>5
  <1>6. ASSUME NEW x \in DOMAIN IfaceName, d \in {3, 4}, c = NetifNode(x, 1),
               cursor.num > 0
        PROVE  WalkEnds /\ GetName(c, buf) = Neighbour /\ Neighbour \in Addresses
    <2>1. GetName(c, buf) = IF WalkEnds THEN Neighbour ELSE buf
      BY <1>1, <1>2, <1>6 DEF NetifName
    <2>2. QED  BY <1>6, <2>1, NeighbourIs
  <1>7. ASSUME d = 4, NEW x \in DOMAIN IfaceName, AtNeighbours(p, x, cursor),
               cursor.num > 0, c = NetifNode(x, 1), cursor.sub = 2
        PROVE  Descends(p, d, c, buf, list)
    <2>1. WalkEnds /\ Matches(p[5], Neighbour) /\ d + 1 = 5
      BY <1>6, <1>7
    <2>2. AtNeighbour(p, x, cursor, list)
      BY <1>7, <2>1 DEF AtNeighbour, WalkEnds, Neighbour
    <2>3. Enters(p, 5, c, c, cursor, list)
      BY <1>7, <2>2 DEF Enters, NetifEnters
    <2>4. Folder(c, cursor)
      BY <1>1, <1>7 DEF Folder, AtNeighbours
    <2>5. QED  BY <2>1, <2>3, <2>4 DEF Descends
  <1>8. ASSUME NEW x \in DOMAIN IfaceName, c = NetifNode(x, 0), cursor.sub \in 2 .. 4
        PROVE  GetName(c, buf) = QosFields[cursor.sub] /\ cursor.sub \in 1 .. 4
    BY <1>1, <1>2, <1>3, <1>8 DEF NetifName, FieldName
  <1>9. ASSUME d = 5, NEW x \in DOMAIN IfaceName, AtNeighbour(p, x, cursor, list),
               c = NetifNode(x, 0), cursor.sub \in 2 .. 4
        PROVE  Descends(p, d, c, buf, list)
    <2>1. d + 1 = 6 /\ Len(p) = 6
      <3>1. Len(p) <= 6
        BY Proper
      <3>2. \A m \in Nat : 5 < m /\ m <= 6 => m = 6
        OBVIOUS
      <3>3. d + 1 = 6 /\ 5 < Len(p)
        BY <1>9
      <3>4. QED  BY <3>1, <3>2, <3>3
    <2>2. Matches(p[6], QosFields[cursor.sub])
      BY <1>8, <1>9, <2>1
    <2>3. Leaf(p, c, cursor, list)
      BY <1>9, <2>1, <2>2 DEF Leaf
    <2>4. QED  BY <2>1, <2>3 DEF Descends
  <1>10. CASE Astray(d, n, c, cursor)
    <2>1. cursor.num > 0
      BY <1>10 DEF Astray
    <2>2. ASSUME NEW x \in DOMAIN IfaceName, d = 3, c = NetifNode(x, 1)
          PROVE  FALSE
      <3>1. Matches(p[4], Neighbour) /\ Neighbour \in Addresses
        <4>1. d + 1 = 4
          BY <2>2
        <4>2. QED  BY <1>6, <2>1, <2>2, <4>1
      <3>2. QED  BY <2>2, <3>1, Proper
    <2>3. ASSUME NEW x \in DOMAIN IfaceName, d = 3, c = NetifNode(x, 0),
                 cursor.sub \in 2 .. 4
          PROVE  FALSE
      <3>1. Matches(p[4], QosFields[cursor.sub]) /\ cursor.sub \in 1 .. 4
        <4>1. d + 1 = 4
          BY <2>3
        <4>2. QED  BY <1>8, <2>3, <4>1
      <3>2. QED  BY <2>3, <3>1, Proper
    <2>4. ASSUME NEW x \in DOMAIN IfaceName, d = 4, c = NetifNode(x, 0),
                 cursor.sub \in 2 .. 4
          PROVE  FALSE
      <3>1. Matches(p[5], QosFields[cursor.sub]) /\ cursor.sub \in 1 .. 4
        <4>1. d + 1 = 5
          BY <2>4
        <4>2. QED  BY <1>8, <2>4, <4>1
      <3>2. QED  BY <2>4, <3>1, Proper
    <2>5. QED  BY <1>10, <2>2, <2>3, <2>4 DEF Astray
  <1>11. QED  BY <1>4, <1>5, <1>7, <1>9, <1>10 DEF NetifPasses

-----------------------------------------------------------------------------
(* What has been found is read.                                            *)

\* Folders are no leaves.
LEMMA FolderType ==
    ASSUME NEW c, Folder(c, cursor)
    PROVE  GetType(c) = "inner"
  BY DEF Folder, GetType, FlType, PsType, SaulType, NetifType

\* A path names the key whose parts are the names its tokens match.
LEMMA KeyOf ==
    ASSUME NEW p \in Seq(STRING)
    PROVE  /\ \A a, b : /\ Len(p) = 2 /\ Matches(p[1], a) /\ Matches(p[2], b)
                        => MatchesPath(p, <<a, b>>)
           /\ \A a, b, c, e :
                 /\ Len(p) = 4 /\ Matches(p[1], a) /\ Matches(p[2], b)
                 /\ Matches(p[3], c) /\ Matches(p[4], e)
                 => MatchesPath(p, <<a, b, c, e>>)
           /\ \A a, b, c, e, f, g :
                 /\ Len(p) = 6 /\ Matches(p[1], a) /\ Matches(p[2], b)
                 /\ Matches(p[3], c) /\ Matches(p[4], e)
                 /\ Matches(p[5], f) /\ Matches(p[6], g)
                 => MatchesPath(p, <<a, b, c, e, f, g>>)
  <1>1. PICK m \in Nat : m = Len(p) /\ DOMAIN p = 1 .. m
    OBVIOUS
  <1>2. /\ \A i \in 1 .. 2 : i = 1 \/ i = 2
        /\ \A i \in 1 .. 4 : i = 1 \/ i = 2 \/ i = 3 \/ i = 4
        /\ \A i \in 1 .. 6 : i = 1 \/ i = 2 \/ i = 3 \/ i = 4 \/ i = 5 \/ i = 6
    OBVIOUS
  <1>3. ASSUME NEW a, NEW b, m = 2, Matches(p[1], a), Matches(p[2], b)
        PROVE  MatchesPath(p, <<a, b>>)
    <2>1. Len(<<a, b>>) = 2 /\ <<a, b>>[1] = a /\ <<a, b>>[2] = b
      OBVIOUS
    <2>2. QED  BY <1>1, <1>2, <1>3, <2>1 DEF MatchesPath
  <1>4. ASSUME NEW a, NEW b, NEW c, NEW e, m = 4, Matches(p[1], a),
               Matches(p[2], b), Matches(p[3], c), Matches(p[4], e)
        PROVE  MatchesPath(p, <<a, b, c, e>>)
    <2>1. PICK k : k = <<a, b, c, e>>
      OBVIOUS
    <2>2. Len(k) = 4 /\ k[1] = a /\ k[2] = b /\ k[3] = c /\ k[4] = e
      BY <2>1
    <2>3. QED  BY <1>1, <1>2, <1>4, <2>1, <2>2 DEF MatchesPath
  <1>5. ASSUME NEW a, NEW b, NEW c, NEW e, NEW f, NEW g, m = 6, Matches(p[1], a),
               Matches(p[2], b), Matches(p[3], c), Matches(p[4], e),
               Matches(p[5], f), Matches(p[6], g)
        PROVE  MatchesPath(p, <<a, b, c, e, f, g>>)
    <2>1. PICK k : k = <<a, b, c, e, f, g>>
      OBVIOUS
    <2>2. /\ Len(k) = 6 /\ k[1] = a /\ k[2] = b /\ k[3] = c /\ k[4] = e
          /\ k[5] = f /\ k[6] = g
      BY <2>1
    <2>3. QED  BY <1>1, <1>2, <1>5, <2>1, <2>2 DEF MatchesPath
  <1>6. QED  BY <1>1, <1>3, <1>4, <1>5

\* The keys of an interface.
LEMMA KeyAppended ==
    ASSUME NEW a, NEW b, NEW c
    PROVE  /\ \A f : <<a, b, c>> \o <<f>> = <<a, b, c, f>>
           /\ \A f, g, h : <<a, b, c>> \o <<f, g, h>> = <<a, b, c, f, g, h>>
  <1>1. ASSUME NEW f
        PROVE  <<a, b, c>> \o <<f>> = <<a, b, c, f>>
    <2>1. PICK S : a \in S /\ b \in S /\ c \in S /\ f \in S
      <3>1. a \in {a, b, c, f} /\ b \in {a, b, c, f} /\ c \in {a, b, c, f}
               /\ f \in {a, b, c, f}
        OBVIOUS
      <3>2. QED  BY <3>1
    <2>2. <<a, b, c>> \in Seq(S) /\ <<f>> \in Seq(S) /\ <<a, b, c, f>> \in Seq(S)
      BY <2>1
    <2>3. PICK k \in Seq(S), m \in Seq(S), w \in Seq(S) :
             k = <<a, b, c>> /\ m = <<f>> /\ w = <<a, b, c, f>>
      BY <2>2
    <2>4. /\ Len(k) = 3 /\ k[1] = a /\ k[2] = b /\ k[3] = c
          /\ Len(m) = 1 /\ m[1] = f
          /\ Len(w) = 4 /\ w[1] = a /\ w[2] = b /\ w[3] = c /\ w[4] = f
      BY <2>3
    <2>5. k \o m \in Seq(S) /\ Len(k \o m) = 4 /\ \A i \in 1 .. 4 : (k \o m)[i] = w[i]
      <3>1. /\ k \o m \in Seq(S) /\ Len(k \o m) = Len(k) + Len(m)
            /\ \A i \in 1 .. Len(k) + Len(m) :
                  (k \o m)[i] = IF i <= Len(k) THEN k[i] ELSE m[i - Len(k)]
        BY ConcatProperties
      <3>2. /\ Len(k \o m) = 4
            /\ \A i \in 1 .. 4 : (k \o m)[i] = IF i <= 3 THEN k[i] ELSE m[i - 3]
        BY <2>4, <3>1
      <3>3. QED  BY <2>4, <3>1, <3>2
    <2>6. k \o m = w
      BY <2>4, <2>5, SeqEqual
    <2>7. QED  BY <2>3, <2>6
  <1>2. ASSUME NEW f, NEW g, NEW h
        PROVE  <<a, b, c>> \o <<f, g, h>> = <<a, b, c, f, g, h>>
    <2>1. PICK S : a \in S /\ b \in S /\ c \in S /\ f \in S /\ g \in S /\ h \in S
      <3>1. /\ a \in {a, b, c, f, g, h} /\ b \in {a, b, c, f, g, h}
            /\ c \in {a, b, c, f, g, h} /\ f \in {a, b, c, f, g, h}
            /\ g \in {a, b, c, f, g, h} /\ h \in {a, b, c, f, g, h}
        OBVIOUS
      <3>2. QED  BY <3>1
    <2>2. /\ <<a, b, c>> \in Seq(S) /\ <<f, g, h>> \in Seq(S)
          /\ <<a, b, c, f, g, h>> \in Seq(S)
      BY <2>1
    <2>3. PICK k \in Seq(S), m \in Seq(S), w \in Seq(S) :
             k = <<a, b, c>> /\ m = <<f, g, h>> /\ w = <<a, b, c, f, g, h>>
      BY <2>2
    <2>4. /\ Len(k) = 3 /\ k[1] = a /\ k[2] = b /\ k[3] = c
          /\ Len(m) = 3 /\ m[1] = f /\ m[2] = g /\ m[3] = h
          /\ Len(w) = 6 /\ w[1] = a /\ w[2] = b /\ w[3] = c
          /\ w[4] = f /\ w[5] = g /\ w[6] = h
      BY <2>3
    <2>5. k \o m \in Seq(S) /\ Len(k \o m) = 6 /\ \A i \in 1 .. 6 : (k \o m)[i] = w[i]
      <3>1. /\ k \o m \in Seq(S) /\ Len(k \o m) = Len(k) + Len(m)
            /\ \A i \in 1 .. Len(k) + Len(m) :
                  (k \o m)[i] = IF i <= Len(k) THEN k[i] ELSE m[i - Len(k)]
        BY ConcatProperties
      <3>2. /\ Len(k \o m) = 6
            /\ \A i \in 1 .. 6 : (k \o m)[i] = IF i <= 3 THEN k[i] ELSE m[i - 3]
        BY <2>4, <3>1
      <3>3. QED  BY <2>4, <3>1, <3>2
    <2>6. k \o m = w
      BY <2>4, <2>5, SeqEqual
    <2>7. QED  BY <2>3, <2>6
  <1>3. QED  BY <1>1, <1>2

\* The keys of an interface's fields, and of its neighbours' fields.
LEMMA IfaceKeys ==
    ASSUME NEW x
    PROVE  /\ \A f : IfaceKey(x) \o <<f>> = <<"network", "netif", IfaceName[x], f>>
           /\ \A a, f : IfaceKey(x) \o <<"neighbours", a, f>>
                  = <<"network", "netif", IfaceName[x], "neighbours", a, f>>
  BY KeyAppended DEF IfaceKey

\* The getter called on the leaf of the path reads the datum the path names, or
\* counts the neighbours.
LEMMA LeafRead ==
    ASSUME NEW p \in Seq(STRING), cursor \in CursorSet, NEW c,
           Leaf(p, c, cursor, list), GetType(c) # "inner"
    PROVE  /\ ~CountsNeighbours(c, GetType(c)) => MatchesPath(p, Datum(c, GetType(c)))
           /\ CountsNeighbours(c, GetType(c)) =>
                 /\ c.ops = "netif" /\ c.is_root = 2 /\ cursor.field = 3
  <1>1. ASSUME Len(p) = 2, NEW i \in 1 .. Len(db_index),
               NEW k \in 1 .. Len(db_index[i].static), c = FlNode(i - 1, k - 1, 0),
               Matches(p[1], db_index[i].name),
               Matches(p[2], db_index[i].static[k][1])
        PROVE  /\ ~CountsNeighbours(c, GetType(c))
               /\ MatchesPath(p, Datum(c, GetType(c)))
    <2>2. /\ FlEntry(c) = db_index[i] /\ StaticEntry(c) = db_index[i].static[k]
          /\ c.ops = "fl"
      BY <1>1, EntryAt DEF FlNode
    <2>3. Datum(c, GetType(c)) = <<db_index[i].name, db_index[i].static[k][1]>>
      BY <2>2 DEF Datum, FlDatum
    <2>4. QED  BY <1>1, <2>2, <2>3, KeyOf DEF CountsNeighbours
  <1>2. ASSUME Len(p) = 4, cursor.ps \in 0 .. 4, Matches(p[4], PsFields[cursor.ps + 1]),
               NEW x \in 1 .. PidLast, AtThread(p, x), c = PsNode(x, 0)
        PROVE  /\ ~CountsNeighbours(c, GetType(c))
               /\ MatchesPath(p, Datum(c, GetType(c)))
    <2>1. c.ops = "ps" /\ c.is_root = 0 /\ c.pid = x
      BY <1>2 DEF PsNode
    <2>2. GetType(c) = IF cursor.ps = 1 THEN "str" ELSE "int"
      BY <2>1 DEF GetType, PsType
    <2>3. cursor.ps \in PsReads(GetType(c))
      <3>1. cursor.ps # 1 => cursor.ps \in {0, 2, 3, 4}
        BY <1>2
      <3>2. QED  BY <2>2, <3>1 DEF PsReads
    <2>4. Datum(c, GetType(c))
             = <<"runtime", "ps", ThreadName[x], PsFields[cursor.ps + 1]>>
      BY <2>1, <2>3 DEF Datum, PsDatum
    <2>5. QED  BY <1>2, <2>1, <2>4, KeyOf DEF AtThread, Below, CountsNeighbours
  <1>3. ASSUME Len(p) = 4, Matches(p[4], "class"),
               NEW x \in DOMAIN DeviceName, AtDevice(p, x), c = SaulNode(x, 0)
        PROVE  /\ ~CountsNeighbours(c, GetType(c))
               /\ MatchesPath(p, Datum(c, GetType(c)))
    <2>1. c.ops = "saul" /\ c.is_root = 0 /\ c.dev = x
      BY <1>3 DEF SaulNode
    <2>2. Datum(c, GetType(c)) = <<"saul", "devices", DeviceName[x], "class">>
      BY <2>1 DEF Datum, SaulDatum
    <2>3. QED  BY <1>3, <2>1, <2>2, KeyOf DEF AtDevice, Below, CountsNeighbours
  <1>4. ASSUME Len(p) = 4, cursor.field \in 0 .. 4,
               Matches(p[4], NetifFields[cursor.field + 1]),
               NEW x \in DOMAIN IfaceName, AtIface(p, x), c = NetifNode(x, 2)
        PROVE  /\ ~CountsNeighbours(c, GetType(c)) =>
                     MatchesPath(p, Datum(c, GetType(c)))
               /\ CountsNeighbours(c, GetType(c)) =>
                     /\ c.ops = "netif" /\ c.is_root = 2 /\ cursor.field = 3
    <2>1. c.ops = "netif" /\ c.is_root = 2 /\ c.iface = x
      BY <1>4 DEF NetifNode
    <2>2. PICK f \in 0 .. 3 : f = cursor.field
      <3>1. cursor.field # 4
        BY <2>1 DEF GetType, NetifType
      <3>2. QED  BY <1>4, <3>1
    <2>3. GetType(c) = IF f \in {0, 3} THEN "int" ELSE "str"
      BY <2>1, <2>2 DEF GetType, NetifType
    <2>4. Datum(c, GetType(c)) = IfaceKey(x) \o <<NetifFields[f + 1]>>
      <3>1. CASE f \in {0, 3}
        BY <2>1, <2>2, <2>3, <3>1 DEF Datum, NetifDatum
      <3>2. CASE f \in {1, 2}
        <4>1. GetType(c) = "str"
          BY <2>3, <3>2
        <4>2. QED  BY <2>1, <2>2, <3>2, <4>1 DEF Datum, NetifDatum
      <3>3. f \in {0, 3} \/ f \in {1, 2}
        BY <2>2
      <3>4. QED  BY <3>1, <3>2, <3>3
    <2>5. Datum(c, GetType(c))
             = <<"network", "netif", IfaceName[x], NetifFields[f + 1]>>
      BY <2>4, IfaceKeys
    <2>6. MatchesPath(p, Datum(c, GetType(c)))
      BY <1>4, <2>2, <2>5, KeyOf DEF AtIface, Below
    <2>7. QED  BY <2>1, <2>6 DEF CountsNeighbours
  <1>5. ASSUME Len(p) = 6, cursor.sub \in 2 .. 4, Matches(p[6], QosFields[cursor.sub]),
               NEW x \in DOMAIN IfaceName, AtNeighbour(p, x, cursor, list),
               c = NetifNode(x, 0)
        PROVE  /\ ~CountsNeighbours(c, GetType(c))
               /\ MatchesPath(p, Datum(c, GetType(c)))
    <2>1. c.ops = "netif" /\ c.is_root = 0 /\ c.iface = x
      BY <1>5 DEF NetifNode
    <2>2. cursor.field = 4 /\ WalkEnds /\ Matches(p[5], Neighbour)
      BY <1>5 DEF AtNeighbour, AtNeighbours, WalkEnds, Neighbour
    <2>3. GetType(c) = "float"
      BY <1>5, <2>1, <2>2 DEF GetType, NetifType
    <2>4. Datum(c, "float") = IfaceKey(x) \o <<"neighbours", Neighbour,
                                               QosFields[cursor.sub]>>
      BY <1>5, <2>1, <2>2 DEF Datum, NetifDatum
    <2>5. Datum(c, "float") = <<"network", "netif", IfaceName[x], "neighbours",
                                Neighbour, QosFields[cursor.sub]>>
      BY <2>4, IfaceKeys
    <2>6. MatchesPath(p, Datum(c, "float"))
      BY <1>5, <2>2, <2>5, KeyOf DEF AtNeighbour, AtNeighbours, AtIface, Below
    <2>7. QED  BY <2>2, <2>3, <2>6 DEF CountsNeighbours
  <1>6. QED  BY <1>1, <1>2, <1>3, <1>4, <1>5 DEF Leaf

-----------------------------------------------------------------------------
(* What is on the neighbour list.                                          *)

\* Only the counting of neighbours goes on to count or to add them.
LEMMA CountingOnly ==
    ASSUME ShapeInv, NEW t \in Tasks,
           \/ Request(t) \/ Tests(t) \/ Lookup(t) \/ Match(t) \/ Type(t) \/ List(t)
           \/ Show(t) \/ ValueToStr(t) \/ CheckType(t) \/ Counted(t)
    PROVE  task'[t].pc \notin {"count", "add"} /\ list' = list
  <1>1. PICK r : r = task[t] /\ DOMAIN r = TaskFields /\ DOMAIN task = Tasks
    BY DEF ShapeInv, Shape
  <1>2. \A q, res : Finished(q, res).pc = "idle"
    BY DEF Finished, Idle
  <1>3. \A res : Printed(r, res).pc \in {"idle", "list"}
    BY <1>1, <1>2 DEF Printed, TaskFields
  <1>4. ASSUME NEW q, Update(t, q), q.pc \notin {"count", "add"}
        PROVE  task'[t].pc \notin {"count", "add"}
    BY <1>1, <1>4 DEF Update
  <1>5. list' = list
    BY DEF Request, Tests, Lookup, Match, Type, List, Show, ValueToStr, CheckType,
           Counted, db
  <1>6. CASE Request(t)
    <2>1. PICK q, x, short :
            /\ x = [Idle EXCEPT !.cmd = q.cmd, !.path = q.path, !.todo = q.path]
            /\ Update(t, CASE q.cmd = "get" /\ q.path = <<>> /\ short ->
                                       Finished(x, <<"enoent">>)
                           [] q.cmd = "dcadump" ->
                                       [x EXCEPT !.pc = "show", !.stack = <<Root>>]
                           [] q.cmd # "dcadump" /\ q.path # <<>> ->
                                       [x EXCEPT !.pc = "lookup",
                                                 !.stack = <<Root, Uninitialised>>]
                           [] OTHER -> [x EXCEPT !.pc = "type", !.stack = <<Root>>])
      BY <1>6 DEF Request
    <2>2. DOMAIN x = TaskFields
      BY <2>1 DEF Idle, TaskFields
    <2>3. \A pc, st : [x EXCEPT !.pc = pc, !.stack = st].pc = pc
      BY <2>2 DEF TaskFields
    <2>4. PICK y : /\ Update(t, y)
                   /\ \/ y = Finished(x, <<"enoent">>)
                      \/ \E pc \in {"show", "lookup", "type"} : \E st :
                            y = [x EXCEPT !.pc = pc, !.stack = st]
      <3>1. "show" \in {"show", "lookup", "type"} /\ "lookup" \in {"show", "lookup", "type"}
            /\ "type" \in {"show", "lookup", "type"}
        OBVIOUS
      <3>2. CASE q.cmd = "get" /\ q.path = <<>> /\ short
        <4>1. Update(t, Finished(x, <<"enoent">>))
          BY <2>1, <3>2
        <4>2. QED  BY <4>1
      <3>3. CASE q.cmd = "dcadump"
        <4>1. Update(t, [x EXCEPT !.pc = "show", !.stack = <<Root>>])
          BY <2>1, <3>3
        <4>2. QED  BY <3>1, <4>1
      <3>4. CASE q.cmd # "dcadump" /\ q.path # <<>>
        <4>1. Update(t, [x EXCEPT !.pc = "lookup", !.stack = <<Root, Uninitialised>>])
          BY <2>1, <3>4
        <4>2. QED  BY <3>1, <4>1
      <3>5. CASE q.cmd # "dcadump" /\ ~(q.cmd = "get" /\ short) /\ q.path = <<>>
        <4>1. Update(t, [x EXCEPT !.pc = "type", !.stack = <<Root>>])
          BY <2>1, <3>5
        <4>2. QED  BY <3>1, <4>1
      <3>6. QED  BY <3>2, <3>3, <3>4, <3>5
    <2>5. y.pc \notin {"count", "add"}
      BY <1>2, <2>3, <2>4
    <2>6. QED  BY <1>4, <1>5, <2>4, <2>5
  <1>7. CASE Lookup(t) \/ List(t)
    <2>1. PICK s, e, pc :
            /\ e = Enumerated(t, s)
            /\ pc \in {"match", "show"}
            /\ \/ Update(t, Finished(r, <<"enoent">>))
               \/ Update(t, Leave(e)) /\ r.pc = "list"
               \/ Update(t, [e EXCEPT !.pc = pc])
      <3>1. CASE Lookup(t)
        BY <1>1, <3>1 DEF Lookup
      <3>2. CASE List(t)
        BY <1>1, <3>2 DEF List, At
      <3>3. QED  BY <1>7, <3>1, <3>2
    <2>2. DOMAIN e = TaskFields /\ e.pc = r.pc
      BY <1>1, <2>1 DEF Enumerated, TaskFields
    <2>3. [e EXCEPT !.pc = pc].pc = pc
      BY <2>2 DEF TaskFields
    <2>4. Leave(e).pc \in {"idle", r.pc}
      BY <1>2, <2>2 DEF Leave, TaskFields
    <2>5. QED  BY <1>2, <1>4, <1>5, <2>1, <2>3, <2>4
  <1>8. CASE Match(t)
    <2>1. PICK name, rest, c :
          \/ Update(t, [r EXCEPT !.pc = "lookup", !.name = name])
          \/ Update(t, [r EXCEPT !.pc = "lookup", !.todo = rest, !.name = name,
                                !.stack = <<c, c>>])
          \/ Update(t, FoundNode(r, c))
      BY <1>1, <1>8 DEF Match
    <2>2. FoundNode(r, c).pc \in {"type", "found"}
      BY <1>1 DEF FoundNode, TaskFields
    <2>3. /\ [r EXCEPT !.pc = "lookup", !.name = name].pc = "lookup"
          /\ [r EXCEPT !.pc = "lookup", !.todo = rest, !.name = name,
                       !.stack = <<c, c>>].pc = "lookup"
      BY <1>1 DEF TaskFields
    <2>4. QED  BY <1>4, <1>5, <2>1, <2>2, <2>3
  <1>9. CASE Tests(t) \/ Type(t) \/ Show(t)
    BY <1>1, <1>5, <1>9 DEF Tests, Type, Show, At, Update, TaskFields
  <1>10. CASE ValueToStr(t) \/ CheckType(t) \/ Counted(t)
    <2>1. PICK type, res :
          \/ Update(t, Printed(r, res))
          \/ Update(t, [r EXCEPT !.pc = "assert", !.type = type])
          \/ Update(t, [r EXCEPT !.pc = "read"])
      BY <1>1, <1>10 DEF ValueToStr, CheckType, Counted
    <2>2. /\ [r EXCEPT !.pc = "assert", !.type = type].pc = "assert"
          /\ [r EXCEPT !.pc = "read"].pc = "read"
      BY <1>1 DEF TaskFields
    <2>3. QED  BY <1>3, <1>4, <1>5, <2>1, <2>2
  <1>11. QED  BY <1>6, <1>7, <1>8, <1>9, <1>10

\* A task that counts stands at a node of an interface; a neighbour it adds is
\* one of those in the caches.
Counts(r) ==
    /\ r.pc \in {"count", "add"} =>
          LET c == r.stack[Len(r.stack)]
          IN  c.ops = "netif" /\ c.iface \in DOMAIN IfaceName
    /\ r.pc = "add" => r.nce \in Addresses

\* An insertion in progress has an address and what the list was.
Holds(i) ==
    /\ i.step # "none" => i.addr \in Addresses
    /\ i.step = "publish" => i.rest \in Seq(Addresses)

\* The list of neighbours holds addresses only, and every counting task stands at a slot.
AddressInv ==
    /\ list \in Seq(Addresses)
    /\ \A t \in Tasks : Counts(task[t]) /\ Holds(ins[t])

\* A slot of a neighbour cache that is in use holds one of the addresses.
LEMMA AddressIn ==
    ASSUME nib \in NibStates, NEW x \in DOMAIN IfaceName,
           NEW i \in DOMAIN nib[x], nib[x][i] # Free
    PROVE  nib[x][i] \in Addresses
  <1>1. nib \in NibStates /\ nib \in [DOMAIN IfaceName -> Seq(STRING)]
    BY QueryAssumption
  <1>2. PICK U : U = {ToSet(nib[y]) : y \in DOMAIN nib}
    OBVIOUS
  <1>3. nib[x][i] \in ToSet(nib[x])
    BY DEF ToSet
  <1>4. x \in DOMAIN nib
    BY <1>1
  <1>5. nib[x][i] \in UNION U
    BY <1>2, <1>3, <1>4
  <1>6. UNION U \in {UNION {ToSet(s[y]) : y \in DOMAIN s} : s \in NibStates}
    BY <1>1, <1>2
  <1>7. PICK V : V = {UNION {ToSet(s[y]) : y \in DOMAIN s} : s \in NibStates}
    OBVIOUS
  <1>8. nib[x][i] \in UNION V
    BY <1>5, <1>6, <1>7
  <1>9. Addresses = (UNION V) \ {Free}
    BY <1>7 DEF Addresses
  <1>10. QED  BY <1>8, <1>9

\* A list with one more neighbour in front.
LEMMA Inserted ==
    ASSUME NEW S, NEW l \in Seq(S), NEW a \in S
    PROVE  <<a>> \o l \in Seq(S)
  <1>1. <<a>> \in Seq(S)
    OBVIOUS
  <1>2. QED  BY <1>1, ConcatProperties

\* An insertion puts only such addresses on the list.
LEMMA InsertionStep ==
    ASSUME DOMAIN ins = Tasks, list \in Seq(Addresses),
           NEW t \in Tasks, Counts(task[t]), \A u \in Tasks : Holds(ins[u]),
           DOMAIN ins[t] = {"step", "addr", "rest"},
           Add(t) \/ Link(t) \/ Publish(t)
    PROVE  list' \in Seq(Addresses) /\ \A u \in Tasks : Holds(ins'[u])
  <1>1. CASE Add(t) /\ Listed(task[t].nce)
    BY <1>1 DEF Add
  <1>2. CASE Add(t) /\ ~Listed(task[t].nce)
    BY <1>2 DEF Add, At, Counts, Holds
  <1>3. CASE Link(t)
    BY <1>3 DEF Link, Holds, NoInsertion
  <1>4. CASE Publish(t)
    BY <1>4, Inserted DEF Publish, Holds, NoInsertion
  <1>5. QED  BY <1>1, <1>2, <1>3, <1>4

\* The counting meets only such addresses.
LEMMA CountingStep ==
    ASSUME DOMAIN task = Tasks, nib \in NibStates,
           NEW t \in Tasks, DOMAIN task[t] = TaskFields, Counts(task[t]),
           Child(t) \in WrittenNodes, GetValue(t) \/ Count(t) \/ Entered(t)
    PROVE  Counts(task'[t])
  <1>1. PICK r : r = task[t] /\ r.pc \in {"read", "count", "add"}
    BY DEF GetValue, Count, Entered, At
  <1>2. DOMAIN r = TaskFields /\ DOMAIN task = Tasks /\ Counts(r)
    BY <1>1
  <1>3. PICK c : c = Child(t) /\ c = r.stack[Len(r.stack)] /\ c \in WrittenNodes
    BY <1>1 DEF Child, Last
  <1>4. CASE GetValue(t)
    <2>1. ~ReadFaults(c, r.type)
      BY <1>1, <1>3, <1>4 DEF GetValue
    <2>2. CASE CountsNeighbours(c, r.type)
      <3>1. task'[t] = [r EXCEPT !.pc = "count"]
        BY <1>1, <1>2, <1>3, <1>4, <2>2 DEF GetValue, Update
      <3>2. c.ops = "netif" /\ c.iface \in DOMAIN IfaceName
        <4>1. c.ops = "netif" /\ c.iface # NULL
          BY <2>1, <2>2 DEF CountsNeighbours, ReadFaults
        <4>2. c.iface \in 0 .. Len(IfaceName)
          BY <1>3, <4>1 DEF WrittenNodes
        <4>3. IfaceName \in Seq(STRING)
          BY DbAssumption
        <4>4. QED  BY <4>1, <4>2, <4>3 DEF NULL
      <3>3. task'[t].pc = "count" /\ task'[t].stack = r.stack
        BY <1>2, <3>1 DEF TaskFields
      <3>4. QED  BY <1>3, <3>2, <3>3 DEF Counts
    <2>3. CASE ~CountsNeighbours(c, r.type)
      <3>1. PICK res : task'[t] = Printed(r, res)
        BY <1>1, <1>2, <1>3, <1>4, <2>3 DEF GetValue, Update
      <3>2. task'[t].pc \in {"idle", "list"}
        BY <1>2, <3>1 DEF Printed, Finished, Idle, TaskFields
      <3>3. QED  BY <3>2 DEF Counts
    <2>4. QED  BY <2>2, <2>3
  <1>5. CASE Count(t)
    <2>1. PICK i : /\ i = Min(NextSlots(t))
                   /\ Update(t, [r EXCEPT !.pc = "add", !.slot = i,
                                          !.nce = nib[c.iface][i]])
      BY <1>1, <1>3, <1>5 DEF Count
    <2>2. c.ops = "netif" /\ c.iface \in DOMAIN IfaceName
      <3>1. r.pc = "count"
        BY <1>1, <1>5 DEF Count, At
      <3>2. QED  BY <1>2, <1>3, <3>1 DEF Counts
    <2>3. i \in DOMAIN nib[c.iface] /\ nib[c.iface][i] # Free
      <3>1. nib[c.iface] \in Seq(STRING)
        BY <2>2, QueryAssumption
      <3>2. NextSlots(t) \in SUBSET Nat /\ NextSlots(t) # {}
        <4>1. NextSlots(t) \subseteq DOMAIN nib[c.iface]
          BY <1>3 DEF NextSlots
        <4>2. DOMAIN nib[c.iface] \subseteq Nat
          BY <3>1
        <4>3. NextSlots(t) # {}
          BY <1>5 DEF Count
        <4>4. QED  BY <4>1, <4>2, <4>3
      <3>3. i \in NextSlots(t)
        BY <2>1, <3>2, MinIs
      <3>4. QED  BY <1>3, <3>3 DEF NextSlots
    <2>4. nib[c.iface][i] \in Addresses
      BY <2>2, <2>3, AddressIn
    <2>5. PICK q : q = task'[t] /\ q = [r EXCEPT !.pc = "add", !.slot = i,
                                                 !.nce = nib[c.iface][i]]
      BY <1>2, <2>1 DEF Update
    <2>6. q.pc = "add" /\ q.stack = r.stack /\ q.nce = nib[c.iface][i]
      BY <1>2, <2>5 DEF TaskFields
    <2>7. QED  BY <1>3, <2>2, <2>4, <2>5, <2>6 DEF Counts
  <1>6. CASE Entered(t)
    <2>1. r.pc = "add"
      BY <1>1, <1>6 DEF Entered, At
    <2>2. c.ops = "netif" /\ c.iface \in DOMAIN IfaceName
      BY <1>2, <1>3, <2>1 DEF Counts
    <2>3. PICK q : q = task'[t] /\ q = [r EXCEPT !.pc = "count", !.nce = Free]
      BY <1>1, <1>2, <1>6 DEF Entered, CountOn, Update
    <2>4. q.pc = "count" /\ q.stack = r.stack
      BY <1>2, <2>3 DEF TaskFields
    <2>5. QED  BY <1>3, <2>2, <2>3, <2>4 DEF Counts
  <1>7. QED  BY <1>4, <1>5, <1>6

\* A step of one task leaves the others alone.
LEMMA OthersStay ==
    ASSUME ShapeInv, NEW t \in Tasks, Request(t) \/ Call(t), NEW u \in Tasks, u # t
    PROVE  task'[u] = task[u]
  BY DEF Request, Call, Tests, Lookup, Match, Type, List, Show, ValueToStr,
         CheckType, GetValue, Count, Add, Link, Publish, Counted, Fault, Halt, Update,
         ShapeInv

\* Every step keeps the list of neighbours a list of addresses.
LEMMA AddressStep ==
    ASSUME ShapeInv, AddressInv, [Next]_vars
    PROVE  AddressInv'
  <1>1. ASSUME UNCHANGED <<task, list, ins>>
        PROVE  AddressInv'
    BY <1>1 DEF AddressInv
  <1>2. ASSUME NEW t \in Tasks, Request(t) \/ Call(t), ~Fault(t)
        PROVE  AddressInv'
    <2>1. ASSUME GetValue(t) \/ Count(t) \/ Entered(t)
          PROVE  Counts(task'[t])
      <3>1. task[t].pc \in Reading
        BY <2>1 DEF GetValue, Count, Entered, At, Reading
      <3>2. /\ DOMAIN task[t] = TaskFields /\ Child(t) \in WrittenNodes
            /\ DOMAIN task = Tasks /\ nib \in NibStates
        BY <3>1, TopOfStack DEF ShapeInv, Shape
      <3>3. Counts(task[t])
        BY DEF AddressInv
      <3>4. QED  BY <2>1, <3>2, <3>3, CountingStep
    <2>2. ASSUME ~(GetValue(t) \/ Count(t) \/ Add(t) \/ Link(t) \/ Publish(t))
          PROVE  Counts(task'[t])
      <3>1. task'[t].pc \notin {"count", "add"}
        BY <1>2, <2>2, CountingOnly DEF Call
      <3>2. QED  BY <3>1 DEF Counts
    <2>3. Counts(task'[t])
      <3>1. UNCHANGED task => Counts(task'[t])
        BY DEF AddressInv
      <3>2. QED  BY <2>1, <2>2, <3>1, InsertionIs
    <2>4. list' \in Seq(Addresses) /\ \A u \in Tasks : Holds(ins'[u])
      <3>1. CASE Add(t) \/ Link(t) \/ Publish(t)
        BY <3>1, InsertionStep DEF AddressInv, ShapeInv, Settled
      <3>2. CASE ~(Add(t) \/ Link(t) \/ Publish(t))
        <4>1. UNCHANGED <<list, ins>>
          BY <1>2, <3>2
             DEF Request, Call, Tests, Lookup, Match, Type, List, Show, ValueToStr,
                 CheckType, GetValue, Count, Counted, db
        <4>2. QED  BY <4>1 DEF AddressInv
      <3>3. QED  BY <3>1, <3>2
    <2>5. \A u \in Tasks : u # t => Counts(task'[u])
      BY <1>2, OthersStay DEF AddressInv
    <2>6. QED  BY <2>3, <2>4, <2>5 DEF AddressInv
  <1>3. CASE Measure
    BY <1>3, QueryAssumption DEF Measure, AddressInv, Holds, ShapeInv, Settled
  <1>4. QED  BY <1>1, <1>2, <1>3
             DEF Next, vars, ThreadExit, NibChange, Fault, Halt, db, Call

-----------------------------------------------------------------------------
(* What has been found is what was asked for: the steps of a command that   *)
(* nothing interrupts.                                                      *)

\* The tokens that are left.
LEMMA Tokens ==
    ASSUME NEW p \in Seq(STRING), NEW d \in Nat, d < Len(p),
           NEW todo, todo = SubSeq(p, d + 1, Len(p))
    PROVE  /\ Head(todo) = p[d + 1]
           /\ Tail(todo) # <<>> <=> d + 1 < Len(p)
           /\ Tail(todo) = SubSeq(p, (d + 1) + 1, Len(p))
  <1>1. PICK n \in Nat : n = Len(p)
    OBVIOUS
  <1>2. /\ todo \in Seq(STRING) /\ Len(todo) = n - d
        /\ \A i \in 1 .. n - d : todo[i] = p[d + i]
    BY <1>1, SubSeqProperties
  <1>3. todo # <<>> /\ Head(todo) = p[d + 1]
    BY <1>1, <1>2
  <1>4. /\ Tail(todo) \in Seq(STRING) /\ Len(Tail(todo)) = n - d - 1
        /\ \A i \in 1 .. n - d - 1 : Tail(todo)[i] = todo[i + 1]
    BY <1>1, <1>2, <1>3, HeadTailProperties
  <1>5. PICK w : w = SubSeq(p, (d + 1) + 1, Len(p))
    OBVIOUS
  <1>6. /\ w \in Seq(STRING) /\ Len(w) = n - d - 1
        /\ \A i \in 1 .. n - d - 1 : w[i] = p[d + 1 + i]
    BY <1>1, <1>5, SubSeqProperties
  <1>7. \A i \in 1 .. n - d - 1 : Tail(todo)[i] = w[i]
    <2>1. SUFFICES ASSUME NEW i \in 1 .. n - d - 1
                   PROVE  Tail(todo)[i] = w[i]
      OBVIOUS
    <2>2. i + 1 \in 1 .. n - d /\ d + (i + 1) = d + 1 + i
      BY <1>1
    <2>3. QED  BY <1>2, <1>4, <1>6, <2>2
  <1>8. Tail(todo) = w
    BY <1>4, <1>6, <1>7, SeqEqual
  <1>9. Tail(todo) = <<>> <=> n - d - 1 = 0
    <2>1. Tail(todo) = <<>> <=> Len(Tail(todo)) = 0
      BY <1>4, EmptySeq
    <2>2. QED  BY <1>4, <2>1
  <1>10. QED  BY <1>1, <1>3, <1>5, <1>8, <1>9

\* What is proved of the request a task works on.
SoundOf(r, cur, l) ==
    r.seen = <<>> /\ r.path \in Seq(STRING) /\ ProperPath(r.path) /\ Sound(r, cur, l)

\* The getter that is called is the one for the type of the node.
Typed(r) == r.cmd # "dcadump" /\ r.pc = "read" => r.type = GetType(r.stack[1])

\* A step of the task t keeps that.
Sounds(t) ==
    \E q : /\ Update(t, q) /\ SoundOf(q, cursor', list')
           /\ q.pc = "read" => cursor' = cursor /\ Typed(q)

\* A finished request is sound if its result is.
LEMMA FinishedSound ==
    ASSUME NEW r, r.path \in Seq(STRING), ProperPath(r.path),
           NEW res, res[1] = "value" => MatchesPath(r.path, res[2]),
           NEW cur, NEW l
    PROVE  SoundOf(Finished(r, res), cur, l) /\ Finished(r, res).pc = "idle"
  <1>1. PICK q : q = Finished(r, res)
    OBVIOUS
  <1>2. q.pc = "idle" /\ q.seen = <<>> /\ q.path = r.path /\ q.res = res
    BY <1>1 DEF Finished, Idle
  <1>3. Sound(q, cur, l)
    BY <1>2 DEF Sound, Reading
  <1>4. QED  BY <1>1, <1>2, <1>3 DEF SoundOf

\* Of a listing nothing is claimed, nor of a dump that has not ended.
LEMMA ListingSound ==
    ASSUME NEW q, q.pc \in {"list", "show"} \/ (q.cmd = "dcadump" /\ q.pc # "idle"),
           NEW cur, NEW l
    PROVE  Sound(q, cur, l)
  BY DEF Sound, Reading

\* A new request.
LEMMA RequestSounds ==
    ASSUME ShapeInv, NEW t \in Tasks, Request(t), ProperRequests(t)
    PROVE  Sounds(t)
  <1>1. PICK q, r, short :
          /\ q \in Requests[t]
          /\ r = [Idle EXCEPT !.cmd = q.cmd, !.path = q.path, !.todo = q.path]
          /\ Update(t, CASE q.cmd = "get" /\ q.path = <<>> /\ short ->
                                     Finished(r, <<"enoent">>)
                         [] q.cmd = "dcadump" ->
                                     [r EXCEPT !.pc = "show", !.stack = <<Root>>]
                         [] q.cmd # "dcadump" /\ q.path # <<>> ->
                                     [r EXCEPT !.pc = "lookup",
                                               !.stack = <<Root, Uninitialised>>]
                         [] OTHER -> [r EXCEPT !.pc = "type", !.stack = <<Root>>])
    BY DEF Request
  <1>2. q.path \in Seq(STRING) /\ ProperPath(q.path)
    BY <1>1, QueryAssumption DEF ProperRequests
  <1>3. /\ DOMAIN r = TaskFields /\ r.cmd = q.cmd /\ r.path = q.path
        /\ r.todo = q.path /\ r.seen = <<>>
    BY <1>1 DEF Idle, TaskFields
  <1>4. Root.ops = "root"
    BY DEF Root, RootNode
  <1>5. /\ SoundOf(Finished(r, <<"enoent">>), cursor', list')
        /\ Finished(r, <<"enoent">>).pc = "idle"
    <2>1. <<"enoent">>[1] # "value"
      OBVIOUS
    <2>2. QED  BY <1>2, <1>3, <2>1, FinishedSound
  <1>6. ASSUME q.cmd = "dcadump"
        PROVE  /\ SoundOf([r EXCEPT !.pc = "show", !.stack = <<Root>>], cursor', list')
               /\ [r EXCEPT !.pc = "show", !.stack = <<Root>>].pc = "show"
    <2>1. PICK x : x = [r EXCEPT !.pc = "show", !.stack = <<Root>>]
      OBVIOUS
    <2>2. x.pc = "show" /\ x.seen = <<>> /\ x.path = q.path
      BY <1>3, <2>1 DEF TaskFields
    <2>3. Sound(x, cursor', list')
      BY <2>2, ListingSound
    <2>4. QED  BY <1>2, <2>1, <2>2, <2>3 DEF SoundOf
  <1>7. /\ SoundOf([r EXCEPT !.pc = "type", !.stack = <<Root>>], cursor', list')
        /\ [r EXCEPT !.pc = "type", !.stack = <<Root>>].pc = "type"
    <2>1. PICK x : x = [r EXCEPT !.pc = "type", !.stack = <<Root>>]
      OBVIOUS
    <2>2. x.pc = "type" /\ x.seen = <<>> /\ x.path = q.path /\ x.stack = <<Root>>
      BY <1>3, <2>1 DEF TaskFields
    <2>3. Len(x.stack) = 1 /\ x.stack[1] = Root
      BY <2>2
    <2>4. Folder(x.stack[1], cursor')
      BY <1>4, <2>3 DEF Folder
    <2>5. Sound(x, cursor', list')
      BY <2>2, <2>3, <2>4 DEF Sound, Reading
    <2>6. QED  BY <1>2, <2>1, <2>2, <2>5 DEF SoundOf
  <1>8. ASSUME q.path # <<>>
        PROVE  LET x == [r EXCEPT !.pc = "lookup", !.stack = <<Root, Uninitialised>>]
               IN  SoundOf(x, cursor', list') /\ x.pc = "lookup"
    <2>1. PICK x : x = [r EXCEPT !.pc = "lookup", !.stack = <<Root, Uninitialised>>]
      OBVIOUS
    <2>2. /\ x.pc = "lookup" /\ x.seen = <<>> /\ x.path = q.path /\ x.todo = q.path
          /\ x.stack = <<Root, Uninitialised>>
      BY <1>3, <2>1 DEF TaskFields
    <2>3. /\ Len(x.stack) = 2 /\ x.stack[1] = Root /\ x.stack[2] = Uninitialised
      BY <2>2
    <2>4. /\ 0 \in 0 .. Len(q.path) - 1
          /\ q.path = SubSeq(q.path, 0 + 1, Len(q.path))
      <3>1. Len(q.path) \in Nat /\ Len(q.path) # 0
        BY <1>2, <1>8
      <3>2. SubSeq(q.path, 1, Len(q.path)) = q.path
        BY <1>2, SubSeqFull
      <3>3. QED  BY <3>1, <3>2
    <2>5. Enters(q.path, 0, Root, Uninitialised, cursor', list')
      BY DEF Enters, TopEnters
    <2>6. 0 \notin {3, 4}
      OBVIOUS
    <2>7. Searches(x, cursor', list')
      BY <2>2, <2>3, <2>4, <2>5, <2>6 DEF Searches
    <2>8. Sound(x, cursor', list')
      BY <2>2, <2>7 DEF Sound, Reading
    <2>9. QED  BY <1>2, <2>1, <2>2, <2>8 DEF SoundOf
  <1>9. QED  BY <1>1, <1>5, <1>6, <1>7, <1>8 DEF Sounds

\* What a search that nothing interrupts finds next.
LEMMA NextPasses ==
    ASSUME NEW p, NEW d, NEW n \in WrittenNodes, NEW c, cursor \in CursorSet, NEW l,
           Enters(p, d, n, c, cursor, l) \/ Passes(p, d, n, c, cursor, l),
           NEW s, s = NextChild(n, c, cursor, cursor), s.child # NullNode
    PROVE  Passes(p, d, s.node, s.child, s.cursor, l)
  <1>1. CASE TopEnters(p, d, n) \/ TopPasses(p, d, n, c, cursor)
    BY <1>1, TopNext DEF Passes
  <1>2. CASE PsEnters(p, d, n, c) \/ PsPasses(p, d, n, c)
    BY <1>2, PsNext DEF Passes
  <1>3. CASE SaulEnters(p, d, n, c) \/ SaulPasses(p, d, n, c)
    BY <1>3, SaulNext DEF Passes
  <1>4. CASE NetifEnters(p, d, n, cursor, l) \/ NetifPasses(p, d, n, c, cursor, l)
    BY <1>4, NetifNext DEF Passes
  <1>5. QED  BY <1>1, <1>2, <1>3, <1>4 DEF Enters, Passes

\* And where it goes when the name fits.
LEMMA HitDescends ==
    ASSUME NEW p, ProperPath(p), Len(p) \in Nat, NEW d \in Nat, d < Len(p),
           NEW n, NEW c, cursor \in CursorSet, list \in Seq(Addresses),
           Passes(p, d, n, c, cursor, list),
           NEW buf, Matches(p[d + 1], GetName(c, buf)),
           d \in {3, 4} => ~Matches(p[d + 1], buf)
    PROVE  Descends(p, d, c, buf, list)
  <1>1. CASE TopPasses(p, d, n, c, cursor)
    <2>1. d \in {0, 1}
      BY <1>1 DEF TopPasses
    <2>2. d + 1 \notin {3, 4}
      BY <2>1
    <2>3. QED  BY <1>1, <2>2, TopHit DEF Descends
  <1>2. CASE PsPasses(p, d, n, c)
    BY <1>2, PsHit
  <1>3. CASE SaulPasses(p, d, n, c)
    BY <1>3, SaulHit
  <1>4. CASE NetifPasses(p, d, n, c, cursor, list)
    BY <1>4, NetifHit
  <1>5. QED  BY <1>1, <1>2, <1>3, <1>4 DEF Passes

\* One call of get_next_child by the lookup (db_node.c:86).
LEMMA LookupSounds ==
    ASSUME ShapeInv, NEW t \in Tasks, Lookup(t), SoundOf(task[t], cursor, list)
    PROVE  Sounds(t)
  <1>1. PICK r : r = task[t] /\ Shape(r) /\ r.pc = "lookup"
    BY DEF ShapeInv, Lookup, At
  <1>2. /\ r.cmd # "dcadump" /\ r.seen = <<>> /\ Len(r.stack) = 2
        /\ DOMAIN r = TaskFields
        /\ r.path \in Seq(STRING) /\ ProperPath(r.path) /\ Searches(r, cursor, list)
    BY <1>1 DEF Shape, StackOK, SoundOf, Sound
  <1>3. PICK n, c : /\ n = r.stack[1] /\ c = r.stack[2] /\ n \in WrittenNodes
                    /\ n = Node(t) /\ c = Child(t)
    BY <1>1, <1>2, TopOfStack
  <1>4. PICK s : /\ s = NextChild(n, c, cursor, cursor)
                 /\ s \in Outcomes(t)
                 /\ cursor' = s.cursor /\ list' = list
                 /\ Update(t, IF s.child = NullNode THEN Finished(r, <<"enoent">>)
                              ELSE [Enumerated(t, s) EXCEPT !.pc = "match"])
    BY <1>1, <1>2, <1>3 DEF Lookup, Outcomes
  <1>5. CASE s.child = NullNode
    <2>1. <<"enoent">>[1] # "value"
      OBVIOUS
    <2>2. QED  BY <1>2, <1>4, <1>5, <2>1, FinishedSound DEF Sounds
  <1>6. CASE s.child # NullNode
    <2>1. PICK d \in 0 .. Len(r.path) - 1 :
            /\ r.todo = SubSeq(r.path, d + 1, Len(r.path))
            /\ d \in {3, 4} => ~Matches(r.path[d + 1], r.name)
            /\ \/ Enters(r.path, d, n, c, cursor, list)
               \/ Passes(r.path, d, n, c, cursor, list)
      BY <1>2, <1>3 DEF Searches
    <2>2. Passes(r.path, d, s.node, s.child, s.cursor, list)
      BY <1>3, <1>4, <1>6, <2>1, NextPasses DEF ShapeInv
    <2>3. PICK e : e = Enumerated(t, s)
      OBVIOUS
    <2>4. Returns(s, n, c)
      BY <1>1, <1>3, <1>4, OutcomesReturn
    <2>5. /\ DOMAIN e = TaskFields /\ e.cmd = r.cmd /\ e.seen = <<>>
          /\ e.path = r.path /\ e.todo = r.todo
          /\ Len(e.stack) = 2 /\ e.stack[1] = s.node /\ e.stack[2] = s.child
      BY <1>1, <1>2, <1>3, <2>3, <2>4, EnumeratedStack
    <2>6. e.name = r.name
      BY <1>1, <1>2, <2>3 DEF Enumerated, TaskFields
    <2>7. PICK q : q = [e EXCEPT !.pc = "match"]
      OBVIOUS
    <2>8. /\ q.pc = "match" /\ q.cmd = r.cmd /\ q.seen = <<>>
          /\ q.path = r.path /\ q.todo = r.todo /\ q.name = r.name
          /\ Len(q.stack) = 2 /\ q.stack[1] = s.node /\ q.stack[2] = s.child
      BY <2>5, <2>6, <2>7 DEF TaskFields
    <2>9. Searches(q, s.cursor, list)
      BY <2>1, <2>2, <2>8 DEF Searches
    <2>10. Sound(q, s.cursor, list)
      BY <2>8, <2>9 DEF Sound, Reading
    <2>11. QED  BY <1>2, <1>4, <1>6, <2>3, <2>7, <2>8, <2>10 DEF Sounds, SoundOf
  <1>7. QED  BY <1>5, <1>6

\* The comparison of one name with a token (db_node.c:88-105).
LEMMA MatchSounds ==
    ASSUME ShapeInv, AddressInv, NEW t \in Tasks, Match(t),
           SoundOf(task[t], cursor, list)
    PROVE  Sounds(t)
  <1>1. PICK r : r = task[t] /\ Shape(r) /\ r.pc = "match"
    BY DEF ShapeInv, Match, At
  <1>2. /\ r.cmd \in {"dcaq", "get"} /\ r.seen = <<>> /\ Len(r.stack) = 2
        /\ DOMAIN r = TaskFields
        /\ r.path \in Seq(STRING) /\ ProperPath(r.path) /\ Searches(r, cursor, list)
    BY <1>1 DEF Shape, StackOK, SoundOf, Sound
  <1>3. PICK n, c : n = r.stack[1] /\ c = r.stack[2] /\ c = Child(t)
    BY <1>1, <1>2, TopOfStack
  <1>4. cursor' = cursor /\ list' = list
    BY DEF Match, db
  <1>5. PICK d \in 0 .. Len(r.path) - 1 :
          /\ r.todo = SubSeq(r.path, d + 1, Len(r.path))
          /\ d \in {3, 4} => ~Matches(r.path[d + 1], r.name)
          /\ Passes(r.path, d, n, c, cursor, list)
    BY <1>1, <1>2, <1>3 DEF Searches
  <1>6. PICK len \in Nat : len = Len(r.path) /\ d \in Nat /\ d < len
    BY <1>2, <1>5
  <1>7. PICK rest, name :
          /\ name = GetName(c, r.name)
          /\ rest = Tail(r.todo)
          /\ Head(r.todo) = r.path[d + 1]
          /\ rest # <<>> <=> d + 1 < len
          /\ rest = SubSeq(r.path, (d + 1) + 1, Len(r.path))
    BY <1>2, <1>5, <1>6, Tokens
  <1>8. CASE ~Matches(r.path[d + 1], name)
    <2>1. PICK q : q = [r EXCEPT !.pc = "lookup", !.name = name]
      OBVIOUS
    <2>2. Update(t, q)
      BY <1>1, <1>3, <1>7, <1>8, <2>1 DEF Match
    <2>3. /\ q.pc = "lookup" /\ q.cmd = r.cmd /\ q.seen = <<>> /\ q.path = r.path
          /\ q.todo = r.todo /\ q.name = name /\ q.stack = r.stack
      BY <1>2, <2>1 DEF TaskFields
    <2>4. Searches(q, cursor, list)
      BY <1>2, <1>3, <1>5, <1>8, <2>3 DEF Searches
    <2>5. Sound(q, cursor, list)
      BY <2>3, <2>4 DEF Sound, Reading
    <2>6. QED  BY <1>2, <1>4, <2>2, <2>3, <2>5 DEF Sounds, SoundOf
  <1>9. CASE Matches(r.path[d + 1], name)
    <2>1. Descends(r.path, d, c, r.name, list)
      BY <1>2, <1>5, <1>6, <1>7, <1>9, HitDescends DEF ShapeInv, AddressInv
    <2>2. CASE rest # <<>>
      <3>1. PICK q : q = [r EXCEPT !.pc = "lookup", !.todo = rest, !.name = name,
                                   !.stack = <<c, c>>]
        OBVIOUS
      <3>2. Update(t, q)
        BY <1>1, <1>3, <1>7, <1>9, <2>2, <3>1 DEF Match
      <3>3. /\ q.pc = "lookup" /\ q.cmd = r.cmd /\ q.seen = <<>> /\ q.path = r.path
            /\ q.todo = rest /\ q.name = name /\ q.stack = <<c, c>>
        BY <1>2, <3>1 DEF TaskFields
      <3>4. Len(q.stack) = 2 /\ q.stack[1] = c /\ q.stack[2] = c
        BY <3>3
      <3>5. PICK e : e = d + 1 /\ e \in 0 .. Len(r.path) - 1 /\ e + 1 = d + 2
        <4>1. d \in Nat /\ len \in Nat /\ d + 1 < len
          BY <1>6, <1>7, <2>2
        <4>2. d + 1 \in 0 .. len - 1 /\ (d + 1) + 1 = d + 2
          BY <4>1
        <4>3. QED  BY <1>6, <4>2
      <3>6. /\ Enters(r.path, e, c, c, cursor, list)
            /\ e \in {3, 4} => ~Matches(r.path[e + 1], name)
        BY <1>6, <1>7, <2>1, <2>2, <3>5 DEF Descends
      <3>7. Searches(q, cursor, list)
        BY <1>7, <3>3, <3>4, <3>5, <3>6 DEF Searches
      <3>8. Sound(q, cursor, list)
        BY <3>3, <3>7 DEF Sound, Reading
      <3>9. QED  BY <1>2, <1>4, <3>2, <3>3, <3>8 DEF Sounds, SoundOf
    <2>3. CASE rest = <<>>
      <3>1. PICK q : q = FoundNode(r, c)
        OBVIOUS
      <3>2. Update(t, q)
        BY <1>1, <1>3, <1>7, <1>9, <2>3, <3>1 DEF Match
      <3>3. /\ q.pc = "type" /\ q.cmd = r.cmd /\ q.seen = <<>> /\ q.path = r.path
            /\ q.stack = <<c>>
        BY <1>2, <3>1 DEF FoundNode, TaskFields
      <3>4. Len(q.stack) = 1 /\ q.stack[1] = c
        BY <3>3
      <3>5. d + 1 = Len(r.path)
        BY <1>6, <1>7, <2>3
      <3>6. Folder(c, cursor) \/ Leaf(r.path, c, cursor, list)
        BY <2>1, <3>5 DEF Descends
      <3>7. Sound(q, cursor, list)
        BY <3>3, <3>4, <3>6 DEF Sound, Reading
      <3>8. QED  BY <1>2, <1>4, <3>2, <3>3, <3>7 DEF Sounds, SoundOf
    <2>4. QED  BY <2>2, <2>3
  <1>10. QED  BY <1>8, <1>9

\* What the caller of the lookup does with the type of the node found.
LEMMA TypeSounds ==
    ASSUME ShapeInv, NEW t \in Tasks, Type(t), SoundOf(task[t], cursor, list)
    PROVE  Sounds(t)
  <1>1. PICK r : r = task[t] /\ Shape(r) /\ r.pc = "type"
    BY DEF ShapeInv, Type, At
  <1>2. /\ DOMAIN r = TaskFields /\ r.seen = <<>> /\ Sound(r, cursor, list)
        /\ r.path \in Seq(STRING) /\ ProperPath(r.path)
    BY <1>1 DEF Shape, SoundOf
  <1>3. Child(t) = r.stack[Len(r.stack)] /\ cursor' = cursor /\ list' = list
    BY <1>1, TopOfStack DEF Type, db
  <1>4. CASE GetType(Child(t)) = "inner"
    <2>1. PICK q : q = [r EXCEPT !.pc = "list", !.stack = Append(@, Uninitialised)]
      OBVIOUS
    <2>2. Update(t, q)
      BY <1>1, <1>4, <2>1 DEF Type
    <2>3. q.pc = "list" /\ q.seen = <<>> /\ q.path = r.path
      BY <1>2, <2>1 DEF TaskFields
    <2>4. QED  BY <1>2, <2>2, <2>3, ListingSound DEF Sounds, SoundOf
  <1>5. CASE GetType(Child(t)) # "inner"
    <2>1. PICK q : q = [r EXCEPT !.pc = "print"]
      OBVIOUS
    <2>2. Update(t, q)
      BY <1>1, <1>5, <2>1 DEF Type
    <2>3. /\ q.pc = "print" /\ q.seen = <<>> /\ q.path = r.path /\ q.cmd = r.cmd
          /\ q.stack = r.stack
      BY <1>2, <2>1 DEF TaskFields
    <2>4. CASE r.cmd = "dcadump"
      BY <1>2, <2>2, <2>3, <2>4, ListingSound DEF Sounds, SoundOf
    <2>5. CASE r.cmd # "dcadump"
      <3>1. /\ Len(r.stack) = 1
            /\ Folder(r.stack[1], cursor) \/ Leaf(r.path, r.stack[1], cursor, list)
        BY <1>1, <1>2, <2>5 DEF Sound
      <3>2. Leaf(r.path, r.stack[1], cursor, list)
        BY <1>3, <1>5, <3>1, FolderType
      <3>3. Sound(q, cursor, list)
        BY <2>3, <3>1, <3>2 DEF Sound, Reading
      <3>4. QED  BY <1>2, <1>3, <2>2, <2>3, <3>3 DEF Sounds, SoundOf
    <2>6. QED  BY <2>4, <2>5
  <1>6. QED  BY <1>4, <1>5

\* A field of an interface stays what it is while neighbours are counted.
LEMMA LeafStays ==
    ASSUME NEW p, NEW c, c.ops = "netif", c.is_root = 2, NEW cur, NEW l,
           Leaf(p, c, cur, l), NEW cur2, cur2.field = cur.field, NEW l2
    PROVE  Leaf(p, c, cur2, l2)
  BY DEF Leaf, FlNode, PsNode, SaulNode, NetifNode

\* The number of neighbours is what was asked for.
LEMMA CountedKey ==
    ASSUME NEW p \in Seq(STRING), NEW c, c.ops = "netif", c.is_root = 2,
           cursor.field = 3, Leaf(p, c, cursor, list)
    PROVE  MatchesPath(p, IfaceKey(c.iface) \o <<"num_neighbours">>)
  <1>1. PICK x \in DOMAIN IfaceName :
          /\ Len(p) = 4 /\ Matches(p[4], NetifFields[cursor.field + 1])
          /\ AtIface(p, x) /\ c = NetifNode(x, 2)
    BY DEF Leaf, FlNode, PsNode, SaulNode, NetifNode
  <1>2. NetifFields[cursor.field + 1] = "num_neighbours"
    BY DEF NetifFields
  <1>3. c.iface = x
    BY <1>1 DEF NetifNode
  <1>4. IfaceKey(x) \o <<"num_neighbours">>
           = <<"network", "netif", IfaceName[x], "num_neighbours">>
    BY IfaceKeys
  <1>5. MatchesPath(p, <<"network", "netif", IfaceName[x], "num_neighbours">>)
    BY <1>1, <1>2, KeyOf DEF AtIface, Below
  <1>6. QED  BY <1>3, <1>4, <1>5

\* The command ends with what it was asked for, unless it is a dump.
LEMMA PrintedSounds ==
    ASSUME NEW r, DOMAIN r = TaskFields, r.seen = <<>>, r.path \in Seq(STRING),
           ProperPath(r.path),
           NEW res, r.cmd # "dcadump" /\ res[1] = "value" => MatchesPath(r.path, res[2]),
           NEW cur, NEW l
    PROVE  SoundOf(Printed(r, res), cur, l) /\ Printed(r, res).pc # "read"
  <1>1. CASE r.cmd # "dcadump"
    <2>1. Printed(r, res) = Finished(r, res)
      BY <1>1 DEF Printed
    <2>2. QED  BY <1>1, <2>1, FinishedSound
  <1>2. CASE r.cmd = "dcadump"
    <2>1. PICK q : q = Printed(r, res)
      OBVIOUS
    <2>2. q.pc = "list" /\ q.seen = <<>> /\ q.path = r.path
      BY <1>2, <2>1 DEF Printed, TaskFields
    <2>3. QED  BY <2>1, <2>2, ListingSound DEF SoundOf
  <1>3. QED  BY <1>1, <1>2

\* The steps that read the value of a leaf.
LEMMA ReadingSounds ==
    ASSUME ShapeInv, NEW t \in Tasks,
           \/ ValueToStr(t) \/ CheckType(t) \/ GetValue(t)
           \/ Count(t) \/ Entered(t) \/ Counted(t),
           SoundOf(task[t], cursor, list), Typed(task[t])
    PROVE  Sounds(t)
  <1>1. PICK r : r = task[t] /\ Shape(r) /\ r.pc \in Reading
    BY DEF ShapeInv, ValueToStr, CheckType, GetValue, Count, Entered, Counted, At,
           Reading
  <1>2. /\ DOMAIN r = TaskFields /\ r.seen = <<>> /\ Sound(r, cursor, list)
        /\ r.path \in Seq(STRING) /\ ProperPath(r.path) /\ cursor \in CursorSet
    BY <1>1 DEF Shape, SoundOf, ShapeInv
  <1>3. PICK c : c = Child(t) /\ c = r.stack[Len(r.stack)]
    BY <1>1, TopOfStack
  <1>4. r.cmd # "dcadump" =>
           /\ c = r.stack[1] /\ Len(r.stack) = 1 /\ Leaf(r.path, c, cursor, list)
           /\ r.pc \in {"assert", "read"} => r.type # "inner"
           /\ r.pc = "read" => r.type = GetType(c)
           /\ r.pc \in {"count", "add"} =>
                 c.ops = "netif" /\ c.is_root = 2 /\ cursor.field = 3
    BY <1>1, <1>2, <1>3 DEF Sound, Typed
  <1>5. \A res : /\ r.cmd # "dcadump" /\ res[1] = "value" =>
                       MatchesPath(r.path, res[2])
                 => /\ SoundOf(Printed(r, res), cursor', list')
                    /\ Printed(r, res).pc # "read"
    BY <1>2, PrintedSounds
  <1>6. ASSUME NEW q, Update(t, q), q.pc \in Reading, q.seen = <<>>,
               q.path = r.path, q.cmd = r.cmd, q.stack = r.stack,
               q.pc = "read" => cursor' = cursor,
               r.cmd # "dcadump" =>
                  /\ Leaf(r.path, c, cursor', list')
                  /\ q.pc \in {"assert", "read"} => q.type # "inner"
                  /\ q.pc = "read" => q.type = GetType(c)
                  /\ q.pc \in {"count", "add"} =>
                        c.ops = "netif" /\ c.is_root = 2 /\ cursor'.field = 3
        PROVE  Sounds(t)
    <2>1. CASE r.cmd = "dcadump"
      <3>1. Sound(q, cursor', list')
        BY <1>6, <2>1, ListingSound DEF Reading
      <3>2. QED  BY <1>2, <1>6, <2>1, <3>1 DEF Sounds, SoundOf, Typed
    <2>2. CASE r.cmd # "dcadump"
      <3>1. Len(q.stack) = 1 /\ q.stack[1] = c
        BY <1>4, <1>6, <2>2
      <3>2. Sound(q, cursor', list')
        BY <1>6, <2>2, <3>1 DEF Sound, Reading
      <3>3. QED  BY <1>2, <1>6, <2>2, <3>1, <3>2 DEF Sounds, SoundOf, Typed
    <2>3. QED  BY <2>1, <2>2
  <1>7. CASE ValueToStr(t)
    <2>1. cursor' = cursor /\ list' = list
      BY <1>7 DEF ValueToStr, db
    <2>2. CASE GetType(c) = "inner"
      <3>1. Update(t, Printed(r, <<"error", <<"error">> >>))
        BY <1>1, <1>3, <1>7, <2>2 DEF ValueToStr
      <3>2. <<"error", <<"error">> >>[1] # "value"
        OBVIOUS
      <3>3. QED  BY <1>5, <3>1, <3>2 DEF Sounds
    <2>3. CASE GetType(c) # "inner"
      <3>1. PICK q : q = [r EXCEPT !.pc = "assert", !.type = GetType(c)]
        OBVIOUS
      <3>2. Update(t, q)
        BY <1>1, <1>3, <1>7, <2>3, <3>1 DEF ValueToStr
      <3>3. /\ q.pc = "assert" /\ q.seen = <<>> /\ q.path = r.path /\ q.cmd = r.cmd
            /\ q.stack = r.stack /\ q.type = GetType(c)
        BY <1>2, <3>1 DEF TaskFields
      <3>4. QED  BY <1>4, <1>6, <2>1, <2>3, <3>2, <3>3 DEF Reading
    <2>4. QED  BY <2>2, <2>3
  <1>8. CASE CheckType(t)
    <2>1. cursor' = cursor /\ list' = list /\ GetType(c) = r.type /\ r.pc = "assert"
      BY <1>1, <1>3, <1>8 DEF CheckType, db, At
    <2>2. PICK q : q = [r EXCEPT !.pc = "read"]
      OBVIOUS
    <2>3. Update(t, q)
      BY <1>1, <1>8, <2>2 DEF CheckType
    <2>4. /\ q.pc = "read" /\ q.seen = <<>> /\ q.path = r.path /\ q.cmd = r.cmd
          /\ q.stack = r.stack /\ q.type = r.type
      BY <1>2, <2>2 DEF TaskFields
    <2>5. QED  BY <1>4, <1>6, <2>1, <2>3, <2>4 DEF Reading
  <1>9. CASE GetValue(t)
    <2>1. list' = list /\ r.pc = "read"
      BY <1>1, <1>9 DEF GetValue, At
    <2>2. r.cmd # "dcadump" =>
             /\ ~CountsNeighbours(c, r.type) => MatchesPath(r.path, Datum(c, r.type))
             /\ CountsNeighbours(c, r.type) =>
                   c.ops = "netif" /\ c.is_root = 2 /\ cursor.field = 3
      BY <1>2, <1>4, <2>1, LeafRead
    <2>3. CASE CountsNeighbours(c, r.type)
      <3>1. cursor' = [cursor EXCEPT !.num = 0] /\ cursor'.field = cursor.field
        BY <1>1, <1>2, <1>3, <1>9, <2>3 DEF GetValue, CursorSet
      <3>2. PICK q : q = [r EXCEPT !.pc = "count"]
        OBVIOUS
      <3>3. Update(t, q)
        BY <1>1, <1>3, <1>9, <2>3, <3>2 DEF GetValue
      <3>4. /\ q.pc = "count" /\ q.seen = <<>> /\ q.path = r.path /\ q.cmd = r.cmd
            /\ q.stack = r.stack
        BY <1>2, <3>2 DEF TaskFields
      <3>5. r.cmd # "dcadump" => Leaf(r.path, c, cursor', list')
        BY <1>4, <2>2, <2>3, <3>1, LeafStays
      <3>6. QED  BY <1>6, <2>2, <2>3, <3>1, <3>3, <3>4, <3>5 DEF Reading
    <2>4. CASE ~CountsNeighbours(c, r.type)
      <3>1. Update(t, Printed(r, <<"value", Datum(c, r.type)>>))
        BY <1>1, <1>3, <1>9, <2>4 DEF GetValue
      <3>2. <<"value", Datum(c, r.type)>>[2] = Datum(c, r.type)
        OBVIOUS
      <3>3. QED  BY <1>5, <2>2, <2>4, <3>1, <3>2 DEF Sounds
    <2>5. QED  BY <2>3, <2>4
  <1>10. CASE Count(t) \/ Entered(t)
    <2>1. r.pc \in {"count", "add"}
      BY <1>1, <1>10 DEF Count, Entered, At
    <2>2. PICK q :
            /\ Update(t, q)
            /\ \/ \E i, a : q = [r EXCEPT !.pc = "add", !.slot = i, !.nce = a]
               \/ q = [r EXCEPT !.pc = "count", !.nce = Free]
      <3>1. CASE Count(t)
        BY <1>1, <3>1 DEF Count
      <3>2. CASE Entered(t)
        BY <1>1, <3>2 DEF Entered, CountOn
      <3>3. QED  BY <1>10, <3>1, <3>2
    <2>3. /\ q.pc \in {"count", "add"} /\ q.seen = <<>> /\ q.path = r.path
          /\ q.cmd = r.cmd /\ q.stack = r.stack
      BY <1>2, <2>2 DEF TaskFields
    <2>4. cursor'.field = cursor.field
      <3>1. cursor' = cursor \/ cursor' = [cursor EXCEPT !.num = IncUint8(@)]
        BY <1>10 DEF Count, Entered
      <3>2. QED  BY <1>2, <3>1 DEF CursorSet
    <2>5. r.cmd # "dcadump" => Leaf(r.path, c, cursor', list')
      BY <1>4, <2>1, <2>4, LeafStays
    <2>6. QED  BY <1>4, <1>6, <2>1, <2>2, <2>3, <2>4, <2>5 DEF Reading
  <1>11. CASE Counted(t)
    <2>1. r.pc = "count" /\ cursor' = cursor /\ list' = list
      BY <1>1, <1>11 DEF Counted, At, db
    <2>2. PICK key : key = IfaceKey(c.iface) \o <<"num_neighbours">>
      OBVIOUS
    <2>3. Update(t, Printed(r, <<"value", key>>))
      BY <1>1, <1>3, <1>11, <2>2 DEF Counted
    <2>4. r.cmd # "dcadump" => MatchesPath(r.path, key)
      BY <1>2, <1>4, <2>1, <2>2, CountedKey
    <2>5. <<"value", key>>[2] = key
      OBVIOUS
    <2>6. QED  BY <1>5, <2>3, <2>4, <2>5 DEF Sounds
  <1>12. QED  BY <1>7, <1>8, <1>9, <1>10, <1>11

\* dcals and dcadump print a node.
LEMMA ShowSounds ==
    ASSUME ShapeInv, NEW t \in Tasks, Show(t), SoundOf(task[t], cursor, list)
    PROVE  Sounds(t)
  <1>1. PICK r : r = task[t] /\ DOMAIN r = TaskFields /\ r.seen = <<>>
                 /\ r.path \in Seq(STRING) /\ ProperPath(r.path)
    BY DEF ShapeInv, Shape, SoundOf
  <1>2. PICK q, name :
          q = [r EXCEPT !.pc = IF r.cmd = "dcadump" THEN "type" ELSE "list",
                        !.name = name] /\ Update(t, q)
    BY <1>1 DEF Show
  <1>3. /\ q.cmd = r.cmd /\ q.seen = <<>> /\ q.path = r.path
        /\ q.pc = IF r.cmd = "dcadump" THEN "type" ELSE "list"
    BY <1>1, <1>2 DEF TaskFields
  <1>4. Sound(q, cursor', list') /\ q.pc # "read"
    BY <1>3, ListingSound
  <1>5. SoundOf(q, cursor', list')
    BY <1>1, <1>3, <1>4 DEF SoundOf
  <1>6. QED  BY <1>2, <1>4, <1>5 DEF Sounds

\* dcals and dcadump ask for the next child.
LEMMA ListSounds ==
    ASSUME ShapeInv, NEW t \in Tasks, List(t), SoundOf(task[t], cursor, list)
    PROVE  Sounds(t)
  <1>1. PICK r : /\ r = task[t] /\ Shape(r) /\ r.pc = "list" /\ r.seen = <<>>
                 /\ r.path \in Seq(STRING) /\ ProperPath(r.path)
    BY DEF ShapeInv, SoundOf, List, At
  <1>2. PICK s \in Outcomes(t) :
          Update(t, IF s.child = NullNode THEN Leave(Enumerated(t, s))
                    ELSE [Enumerated(t, s) EXCEPT !.pc = "show"])
    BY <1>1 DEF List
  <1>3. PICK e : e = Enumerated(t, s)
    OBVIOUS
  <1>4. /\ DOMAIN e = TaskFields /\ e.pc = "list" /\ e.cmd = r.cmd /\ e.seen = <<>>
        /\ e.path = r.path
    <2>1. Returns(s, Node(t), Child(t))
      BY <1>1, OutcomesReturn
    <2>2. QED  BY <1>1, <1>3, <2>1, EnumeratedStack
  <1>5. ASSUME NEW q, q.pc \in {"list", "show"}, q.seen = <<>>, q.path = r.path,
               Update(t, q)
        PROVE  Sounds(t)
    BY <1>1, <1>5, ListingSound DEF Sounds, SoundOf
  <1>6. CASE s.child # NullNode
    <2>1. PICK q : q = [e EXCEPT !.pc = "show"]
      OBVIOUS
    <2>2. q.pc = "show" /\ q.seen = <<>> /\ q.path = r.path
      BY <1>4, <2>1 DEF TaskFields
    <2>3. Update(t, q)
      BY <1>2, <1>3, <1>6, <2>1
    <2>4. QED  BY <1>5, <2>2, <2>3
  <1>7. CASE s.child = NullNode /\ Len(e.stack) = 2
    <2>1. <<"listed">>[1] # "value"
      OBVIOUS
    <2>2. Update(t, Finished(e, <<"listed">>))
      BY <1>2, <1>3, <1>7 DEF Leave
    <2>3. QED  BY <1>1, <1>4, <2>1, <2>2, FinishedSound DEF Sounds
  <1>8. CASE s.child = NullNode /\ Len(e.stack) # 2
    <2>1. PICK q : q = [e EXCEPT !.stack = Front(@)]
      OBVIOUS
    <2>2. q.pc = "list" /\ q.seen = <<>> /\ q.path = r.path
      BY <1>4, <2>1 DEF TaskFields
    <2>3. Update(t, q)
      BY <1>2, <1>3, <1>8, <2>1 DEF Leave
    <2>4. QED  BY <1>5, <2>2, <2>3
  <1>9. QED  BY <1>6, <1>7, <1>8

-----------------------------------------------------------------------------
(* The answers are those of the keys that were asked for.                  *)

\* The task t is not interrupted: it is the handler, or the other task is given
\* no commands.
Alone(t) == t = Coap \/ \A u \in Tasks \ {t} : Requests[u] = {}

\* The inductive invariant of a task t that nothing interrupts.  A task without
\* requests stays idle.
SoundInv(t) ==
    /\ SoundOf(task[t], cursor, list) /\ Typed(task[t])
    /\ \A u \in Tasks : Requests[u] = {} => task[u] = Idle

\* A task that does not move keeps its getter, unless it reads and the cursors change.
LEMMA TypedKept ==
    ASSUME NEW t \in Tasks, task'[t] = task[t], Typed(task[t]),
           cursor' = cursor \/ task[t].pc # "read"
    PROVE  Typed(task[t])'
  BY DEF Typed, GetType, PsType, NetifType

\* An insertion changes the list only while the task t looks at none of it.
LEMMA SoundKept ==
    ASSUME NEW t \in Tasks, SoundInv(t), UNCHANGED <<task, cursor>>,
           list' = list \/ task[t].pc \in {"idle", "add"}
    PROVE  SoundInv(t)'
  <1>1. PICK r : r = task[t]
    OBVIOUS
  <1>2. Sound(r, cursor, list')
    <2>1. CASE r.pc = "idle"
      BY <1>1, <2>1 DEF SoundInv, SoundOf, Sound, Reading
    <2>2. CASE r.pc = "add"
      <3>1. /\ r.cmd # "dcadump" => Leaf(r.path, r.stack[1], cursor, list')
            /\ Sound(r, cursor, list)
        BY <1>1, <2>2, LeafStays DEF SoundInv, SoundOf, Sound, Reading
      <3>2. QED  BY <2>2, <3>1 DEF Sound
    <2>3. QED  BY <1>1, <2>1, <2>2 DEF SoundInv, SoundOf
  <1>3. SoundOf(task[t], cursor, list)'
    BY <1>1, <1>2 DEF SoundInv, SoundOf
  <1>4. Typed(task[t])'
    BY TypedKept DEF SoundInv
  <1>5. QED  BY <1>3, <1>4 DEF SoundInv

\* Every step keeps it.
LEMMA SoundStep ==
    ASSUME NEW t \in Tasks, Alone(t), ProperRequests(t),
           ShapeInv, AddressInv, SoundInv(t), [Next]_vars
    PROVE  SoundInv(t)'
  <1> DEFINE Inserts(u) == (Add(u) \/ Link(u) \/ Publish(u)) /\ ~Entered(u)
  <1>1. ASSUME NEW u \in Tasks, Request(u) \/ Call(u), ~Fault(u), ~Inserts(u)
        PROVE  Requests[u] # {} /\ (task[u].pc = "idle" => Request(u)) /\ CanRun(u)
    <2>1. Call(u) => task[u].pc # "idle"
      BY <1>1
         DEF Call, Tests, Lookup, Match, Type, List, Show, ValueToStr, CheckType,
             GetValue, Count, Entered, Counted, At
    <2>2. (Request(u) => Requests[u] # {}) /\ Idle.pc = "idle"
      BY DEF Request, Idle
    <2>3. CanRun(u)
      BY <1>1
         DEF Request, Call, Tests, Lookup, Match, Type, List, Show, ValueToStr,
             CheckType, GetValue, Count, Entered, Counted, At
    <2>4. QED  BY <1>1, <2>1, <2>2, <2>3 DEF SoundInv
  <1>2. ASSUME NEW u \in Tasks, Request(u) \/ Call(u), ~Fault(u), ~Inserts(u)
        PROVE  \A v \in Tasks : Requests[v] = {} => task'[v] = Idle
    BY <1>1, <1>2, OthersStay DEF SoundInv
  <1>3. ASSUME UNCHANGED <<task, cursor, list>>
        PROVE  SoundInv(t)'
    <2>1. SoundOf(task[t], cursor, list)'
      BY <1>3 DEF SoundInv
    <2>2. Typed(task[t])'
      BY <1>3, TypedKept DEF SoundInv
    <2>3. QED  BY <1>3, <2>1, <2>2 DEF SoundInv
  <1>4. ASSUME Request(t) \/ Call(t), ~Fault(t), ~Inserts(t)
        PROVE  SoundInv(t)'
    <2>1. ~Tests(t)
      BY <1>1, <1>4, QueryAssumption DEF Alone, Tests, Tasks
    <2>2. Sounds(t)
      BY <1>4, <2>1, RequestSounds, LookupSounds, MatchSounds, TypeSounds,
         ReadingSounds, ListSounds, ShowSounds DEF Call, SoundInv
    <2>3. PICK q : /\ Update(t, q) /\ SoundOf(q, cursor', list')
                   /\ q.pc = "read" => cursor' = cursor /\ Typed(q)
      BY <2>2 DEF Sounds
    <2>4. task'[t] = q
      BY <2>3 DEF Update, ShapeInv
    <2>5. SoundOf(task[t], cursor, list)'
      BY <2>3, <2>4
    <2>6. Typed(task[t])'
      BY <2>3, <2>4 DEF Typed, GetType, PsType, NetifType
    <2>7. QED  BY <1>2, <1>4, <2>5, <2>6 DEF SoundInv
  <1>5. ASSUME NEW u \in Tasks, u # t, Request(u) \/ Call(u), ~Fault(u), ~Inserts(u)
        PROVE  SoundInv(t)'
    <2>1. t = Coap /\ u = Shell
      BY <1>1, <1>5 DEF Alone, Tasks
    <2>2. task'[t] = task[t] /\ task[t].pc = "idle"
      BY <1>1, <1>5, <2>1, OthersStay, QueryAssumption DEF CanRun
    <2>3. Sound(task[t], cursor, list)'
      BY <2>2 DEF SoundInv, SoundOf, Sound, Reading
    <2>4. QED  BY <1>2, <1>5, <2>2, <2>3 DEF SoundInv, SoundOf, Typed
  <1>6. ASSUME NEW u \in Tasks, Inserts(u)
        PROVE  SoundInv(t)'
    <2>1. UNCHANGED <<cursor, task>> /\ CanRun(u)
      BY <1>6, InsertionIs
    <2>2. list' = list \/ ins[u].step = "publish"
      BY <1>6 DEF Add, Link, Publish
    <2>3. CASE ins[u].step = "publish"
      <3>1. task[u].pc = "add" \/ (u = Shell /\ task[u].pc = "idle")
        <4>1. Settled
          BY DEF ShapeInv
        <4>2. QED  BY <2>3, <4>1 DEF Settled
      <3>2. u = t \/ task[t].pc = "idle"
        <4>1. CASE u = Shell
          BY <2>1, <4>1 DEF CanRun, Tasks
        <4>2. CASE u # Shell
          BY <3>1, <4>2 DEF Alone, Tasks, SoundInv, Idle
        <4>3. QED  BY <4>1, <4>2
      <3>3. QED  BY <2>1, <3>1, <3>2, SoundKept
    <2>4. QED  BY <2>1, <2>2, <2>3, SoundKept
  <1>7. QED  BY <1>3, <1>4, <1>5, <1>6
             DEF Next, Call, Fault, Halt, Measure, ThreadExit, NibChange, vars, db

\* What a task answers in such a state.
LEMMA SoundAnswer ==
    ASSUME NEW t \in Tasks, SoundInv(t), Answered(t), task[t].res[1] = "value"
    PROVE  MatchesPath(task[t].path, task[t].res[2])
  BY DEF SoundInv, SoundOf, Sound, Answered

\* It holds at the start.
LEMMA SoundInit ==
    ASSUME Init, NEW t \in Tasks
    PROVE  AddressInv /\ SoundInv(t)
  <1>1. \A u \in Tasks : task[u] = Idle
    BY DEF Init
  <1>2. /\ Idle.pc = "idle" /\ Idle.seen = <<>> /\ Idle.path = <<>>
        /\ Idle.res = <<"none">>
    BY DEF Idle
  <1>3. AddressInv
    <2>1. <<>> \in Seq(Addresses)
      OBVIOUS
    <2>2. QED  BY <1>1, <1>2, <2>1 DEF AddressInv, Counts, Holds, NoInsertion, Init
  <1>4. <<>> \in Seq(STRING) /\ ProperPath(<<>>)
    <2>1. Len(<<>>) = 0
      OBVIOUS
    <2>2. QED  BY <2>1 DEF ProperPath
  <1>5. <<"none">>[1] # "value"
    OBVIOUS
  <1>6. Sound(Idle, cursor, list)
    BY <1>2, <1>5 DEF Sound, Reading
  <1>7. QED  BY <1>1, <1>2, <1>3, <1>4, <1>6 DEF SoundInv, SoundOf, Typed

\* Every value a single reader answers, by dcaq or by a GET request, is the value
\* of the key it was asked for, whatever commands it has executed before, and
\* whatever threads and neighbours come and go meanwhile: db_find_node_by_path
\* never lands at another thread, device, interface, neighbour or field than the
\* path names, as long as no token can be taken for a name of another level.
THEOREM LookupCorrect ==
    ASSUME OneReader, ProperRequests(Shell), ProperRequests(Coap)
    PROVE  Spec => []LookupSound
  <1>1. PICK t \in Tasks : \A u \in Tasks \ {t} : Requests[u] = {}
    BY DEF OneReader
  <1>2. Alone(t) /\ ProperRequests(t)
    BY <1>1 DEF Alone, Tasks
  <1>3. Init => AddressInv /\ SoundInv(t)
    BY SoundInit
  <1>4. ShapeInv /\ AddressInv /\ SoundInv(t) /\ [Next]_vars
           => AddressInv' /\ SoundInv(t)'
    BY <1>2, AddressStep, SoundStep
  <1>5. Spec => []ShapeInv
    BY ShapeInit, ShapeStep, PTL DEF Spec
  <1>6. Spec => [](SoundInv(t))
    BY <1>3, <1>4, <1>5, PTL DEF Spec
  <1>7. SoundInv(t) => LookupSound
    <2>1. ASSUME SoundInv(t), NEW u \in Tasks, u # t
          PROVE  ~Answered(u)
      BY <1>1, <2>1 DEF SoundInv, Answered, Idle
    <2>2. QED  BY <2>1, SoundAnswer DEF LookupSound
  <1>8. QED  BY <1>6, <1>7, PTL

\* What the handler answers is the value of the key it was asked for, although it
\* may start in the middle of any command of the shell, and whatever the shell has
\* left in the counters and on the neighbour list: nothing it finds there survives
\* its own enumeration, and nothing interrupts that (its thread has the higher
\* priority).
THEOREM HandlerCorrect ==
    ASSUME ProperRequests(Coap)
    PROVE  Spec => []HandlerSound
  <1>1. Coap \in Tasks /\ Alone(Coap)
    BY DEF Tasks, Alone
  <1>2. Init => AddressInv /\ SoundInv(Coap)
    BY <1>1, SoundInit
  <1>3. ShapeInv /\ AddressInv /\ SoundInv(Coap) /\ [Next]_vars
           => AddressInv' /\ SoundInv(Coap)'
    BY <1>1, AddressStep, SoundStep
  <1>4. SoundInv(Coap) => HandlerSound
    BY <1>1, SoundAnswer DEF HandlerSound
  <1>5. Spec => []ShapeInv
    BY ShapeInit, ShapeStep, PTL DEF Spec
  <1>6. QED  BY <1>2, <1>3, <1>4, <1>5, PTL DEF Spec
=============================================================================
