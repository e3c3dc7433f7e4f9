------------------------------- MODULE DbNode -------------------------------
(***************************************************************************)
(* The nodes of the DCA database and their operations: the root (db.c),    *)
(* the first-level branches (db_fl.c) and the three dynamic subtrees       *)
(* /runtime/ps (ps.c), /saul/devices (saul_devices.c) and /network/netif   *)
(* (netif.c).                                                              *)
(*                                                                         *)
(* A node is a small value a caller keeps on its stack.  Enumerating its   *)
(* children changes the node itself (it is its own cursor) and, below the  *)
(* dynamic subtrees, counters that are global variables of ps.c,           *)
(* saul_devices.c and netif.c: the record "cursor".  An operation of the   *)
(* code that changes state is an operator that returns the new values.     *)
(***************************************************************************)
EXTENDS Integers, Sequences, FiniteSetsExt, SequencesExt

CONSTANTS
    Config,       \* the CONFIG_DCA_* switches that are on (Kconfig)
    PidLast,      \* KERNEL_PID_LAST; KERNEL_PID_FIRST is 1
    Started,      \* the pids in use once the board is up
    ThreadName,   \* thread_t.name of every pid
    IfaceName,    \* the interfaces in the order of netif_iter, by name
    DeviceName,   \* the devices of the SAUL registry in list order, by name
    PrefixOf      \* the pairs <<s, t>> of names, s a proper prefix of t

ASSUME DbAssumption ==
    /\ Config \subseteq {"PS", "NETWORK", "SAUL"}
    /\ PidLast \in Nat \ {0}
    /\ Started \subseteq 1 .. PidLast
    /\ 1 \in Started
    /\ DOMAIN ThreadName = 1 .. PidLast
    /\ IfaceName \in Seq(STRING) /\ DeviceName \in Seq(STRING)

VARIABLES
    cursor,    \* the global counters of ps.c, saul_devices.c and netif.c
    threads,   \* the pids with sched_threads[pid] != NULL
    nib,       \* the neighbour cache of every interface: its slots in order
    list       \* the addresses in the neighbour list, from head on

\* A slot of the neighbour cache that is not in use.
Free == "free"

-----------------------------------------------------------------------------
(* Nodes: db_node_t with its operation table and its private data.         *)

NullNode == [ops |-> "null"]

\* A db_node_t on the stack that nothing has been written to yet.
Uninitialised == [ops |-> "uninit"]

RootNode(i) == [ops |-> "root", idx |-> i]

FlNode(i, sub, isRoot) ==
    [ops |-> "fl", fl_idx |-> i, sub_idx |-> sub, is_root |-> isRoot]

PsNode(pid, isRoot) == [ops |-> "ps", pid |-> pid, is_root |-> isRoot]

SaulNode(dev, isRoot) == [ops |-> "saul", dev |-> dev, is_root |-> isRoot]

NetifNode(iface, isRoot) ==
    [ops |-> "netif", iface |-> iface, is_root |-> isRoot]

\* A netif_t * or saul_reg_t * is the position in its list, NULL is 0.
NULL == 0
IfaceIter(i) == IF i < Len(IfaceName) THEN i + 1 ELSE NULL
DeviceNext(d) == IF d < Len(DeviceName) THEN d + 1 ELSE NULL

CursorInit ==
    [ps |-> 0, saul |-> 0, field |-> 0, sub |-> 1, num |-> 0]

-----------------------------------------------------------------------------
(* db_index: the static layout of the tree.  Entries are named and typed.  *)

Board ==
    [name |-> "board", dynamic |-> <<>>,
     static |-> << <<"name", "str">>, <<"mcu", "str">>, <<"ram", "int">>,
                   <<"clock", "int">>, <<"nonvolatile", "int">> >>]
Runtime ==
    [name |-> "runtime",
     static |-> << <<"cpu_load", "int">>, <<"cpu_util", "float">>,
                   <<"num_processes", "int">>, <<"stack_used", "int">>,
                   <<"heap", "int">> >>,
     dynamic |-> IF "PS" \in Config THEN <<"ps">> ELSE <<>>]
Network ==
    [name |-> "network", static |-> << <<"num_ifaces", "int">> >>,
     dynamic |-> <<"netif">>]
Saul ==
    [name |-> "saul",
     static |-> << <<"num_sensors", "int">>, <<"num_actuators", "int">> >>,
     dynamic |-> <<"devices">>]

db_index ==
    <<Board, Runtime>>
      \o (IF "NETWORK" \in Config THEN <<Network>> ELSE <<>>)
      \o (IF "SAUL" \in Config THEN <<Saul>> ELSE <<>>)

\* None of the names in the static layout begins with another of them, nor with
\* that of a dynamic subtree.
StaticNames ==
    UNION {{e.name} \cup {s[1] : s \in ToSet(e.static)} : e \in ToSet(db_index)}

ASSUME NamesAssumption ==
    /\ \A s, t \in StaticNames : <<s, t>> \notin PrefixOf
    /\ \A s \in {"ps", "devices", "netif"}, t \in StaticNames : <<s, t>> \notin PrefixOf

\* The field names, in the order of the enumerations of ps.c and netif.c.
PsFields == <<"pid", "state", "priority", "total stack", "stack used">>
NetifFields ==
    <<"pid", "inet6 addr", "Link type", "num_neighbours", "neighbours">>
QosFields == <<"ip", "latency", "packet_loss", "throughput">>

FlEntry(n) == db_index[n.fl_idx + 1]
StaticEntry(n) == FlEntry(n).static[n.sub_idx + 1]

-----------------------------------------------------------------------------
(* get_next_child_fn: [node, child, cursor] after the call.  The code tests *)
(* the counters and then assigns to them; a thread may be preempted in      *)
(* between, so that "seen" is what the tests read and "cur" what the        *)
(* counters are when they are assigned to.                                  *)

Step(n, c, cur) == [node |-> n, child |-> c, cursor |-> cur]

\* The counter of ps.c is an int8_t, those of netif.c are of type uint8_t.
IncInt8(x)  == IF x = 127 THEN -128 ELSE x + 1
IncUint8(x) == (x + 1) % 256
DecUint8(x) == (x - 1) % 256

\* Mutants: the end of db_index is tested too late; the index is moved on
\* before it is used.
RootNextChildPastEnd(n, cur) ==
    IF n.idx <= Len(db_index)
    THEN Step([n EXCEPT !.idx = @ + 1], FlNode(n.idx, 0, 1), cur)
    ELSE Step(n, NullNode, cur)

RootNextChildPreIncrement(n, cur) ==
    IF n.idx + 1 < Len(db_index)
    THEN Step([n EXCEPT !.idx = @ + 1], FlNode(n.idx + 1, 0, 1), cur)
    ELSE Step(n, NullNode, cur)

RootNextChild(n, cur) ==
    IF n.idx < Len(db_index)
    THEN Step([n EXCEPT !.idx = @ + 1], FlNode(n.idx, 0, 1), cur)
    ELSE Step(n, NullNode, cur)

\* The constructors db_new_ps_node, db_new_saul_node and db_new_netif_node:
\* only the last one resets its global counters.
DynamicNode(kind) ==
    CASE kind = "ps"      -> PsNode(1, 2)
      [] kind = "devices" -> SaulNode(DeviceNext(NULL), 2)
      [] kind = "netif"   -> NetifNode(IfaceIter(NULL), 4)

\* Mutants: nothing is reset; the counter of ps.c is reset with the others.
DynamicCursorKept(kind, cur) == cur

DynamicCursorAll(kind, cur) ==
    IF kind = "netif" THEN [cur EXCEPT !.field = 0, !.sub = 1, !.ps = 0]
    ELSE cur

DynamicCursor(kind, cur) ==
    IF kind = "netif" THEN [cur EXCEPT !.field = 0, !.sub = 1] ELSE cur

FlNextChild(n, cur) ==
    LET e    == FlEntry(n)
        next == [n EXCEPT !.sub_idx = @ + 1]
        dyn  == n.sub_idx - Len(e.static) + 1
    IN  CASE n.is_root = 0 -> Step(n, NullNode, cur)
          [] n.is_root = 1 /\ dyn <= 0 ->
                Step(next, FlNode(n.fl_idx, n.sub_idx, 0), cur)
          [] n.is_root = 1 /\ dyn \in 1 .. Len(e.dynamic) ->
                Step(next, DynamicNode(e.dynamic[dyn]),
                     DynamicCursor(e.dynamic[dyn], cur))
          [] OTHER -> Step(n, NullNode, cur)

\* _get_next_pid: the next pid with a thread, or KERNEL_PID_LAST + 1.
\* Mutant: the next pid, whether it is in use or not.
NextPidUnchecked(pid) == pid + 1

NextPid(pid) == Min({q \in threads : q > pid} \cup {PidLast + 1})

\* The fields of a thread: the child stands for the thread of n, n moves on.
\* Mutant: the child is made after n has moved on.
PsFieldsBeginLate(n, cur) ==
    Step(PsNode(NextPid(n.pid), 0), PsNode(NextPid(n.pid), 0), cur)

PsFieldsBegin(n, cur) ==
    Step(PsNode(NextPid(n.pid), 0), PsNode(n.pid, 0), cur)

\* _field_count is that of the last field.  Mutant: off by one.
AtLastFieldPlusOne(seen) == seen.ps = Len(PsFields)
AtLastField(seen) == seen.ps = Len(PsFields) - 1

\* After the last field the counter starts again.  Mutant: it does not.
PsFieldsEndKept(n, cur) == Step(n, NullNode, cur)
PsFieldsEnd(n, cur) == Step(n, NullNode, [cur EXCEPT !.ps = 0])

PsNextChild(n, c, seen, cur) ==
    CASE n.is_root = 2 /\ n.pid <= PidLast ->
            Step([n EXCEPT !.pid = NextPid(@)], PsNode(n.pid, 1), cur)
      [] n.is_root = 2 /\ n.pid > PidLast -> Step(n, NullNode, cur)
      [] n.is_root = 1 /\ n.pid <= PidLast /\ seen.ps < Len(PsFields) ->
            PsFieldsBegin(n, cur)
      [] n.is_root = 0 /\ AtLastField(seen) -> PsFieldsEnd(n, cur)
      [] n.is_root = 0 /\ ~AtLastField(seen) ->
            Step(n, c, [cur EXCEPT !.ps = IncInt8(@)])
      [] OTHER -> Step(n, c, cur)

\* One field, "class": COUNT is 1, so the field counter never leaves 0.
SaulNextChild(n, c, seen, cur) ==
    CASE n.is_root = 2 /\ n.dev # NULL ->
            Step([n EXCEPT !.dev = DeviceNext(@)], SaulNode(n.dev, 1), cur)
      [] n.is_root = 2 /\ n.dev = NULL -> Step(n, NullNode, cur)
      [] n.is_root = 1 /\ n.dev # NULL /\ seen.saul < 1 ->
            Step(SaulNode(DeviceNext(n.dev), 0), SaulNode(n.dev, 0), cur)
      [] n.is_root = 0 /\ seen.saul = 0 ->
            Step(n, NullNode, [cur EXCEPT !.saul = 0])
      [] n.is_root = 0 /\ seen.saul # 0 ->
            Step(n, c, [cur EXCEPT !.saul = IncInt8(@)])
      [] OTHER -> Step(n, c, cur)

\* The end of one neighbour's fields: step to the next one, _num_neighbours
\* being counted down and then tested.  The recursive call of the code always
\* takes its branch for _netif_sub_field_count = 1.
NextNeighbour(n, cur) ==
    LET left == DecUint8(cur.num)
    IN  IF left = 0
        THEN Step(n, NullNode, [cur EXCEPT !.num = 0, !.sub = 1])
        ELSE Step([n EXCEPT !.is_root = 1], NetifNode(n.iface, 1),
                  [cur EXCEPT !.num = left, !.sub = 2])

NetifNextChild(n, c, seen, cur) ==
    LET nFields == Len(NetifFields)
        nQos    == Len(QosFields)
        listed  == /\ seen.field = nFields - 1
                   /\ n.iface # NULL
                   /\ seen.num > 0
        child(isRoot) == NetifNode(n.iface, isRoot)
    IN  CASE n.is_root = 4 /\ n.iface # NULL ->
                Step([n EXCEPT !.iface = IfaceIter(@)], child(3), cur)
          [] n.is_root = 4 /\ n.iface = NULL -> Step(n, NullNode, cur)
          [] n.is_root = 3 /\ n.iface # NULL /\ seen.field < nFields ->
                Step(NetifNode(IfaceIter(n.iface), 2), child(2), cur)
          [] n.is_root = 2 /\ listed ->
                Step([n EXCEPT !.is_root = 1], child(1),
                     [cur EXCEPT !.sub = IncUint8(@)])
          [] n.is_root = 2 /\ seen.field < nFields - 1 ->
                Step(n, c, [cur EXCEPT !.field = IncUint8(@)])
          [] n.is_root = 2 /\ ~listed /\ seen.field >= nFields - 1 ->
                Step(n, NullNode, cur)
          [] n.is_root = 1 /\ seen.num = 0 ->
                Step(n, NullNode, [cur EXCEPT !.sub = 1])
          [] n.is_root = 1 /\ seen.num > 0 /\ seen.sub = 1 ->
                Step(n, child(1), [cur EXCEPT !.sub = IncUint8(@)])
          [] n.is_root = 1 /\ seen.num > 0 /\ seen.sub # 1
                           /\ seen.sub < nQos ->
                Step([n EXCEPT !.is_root = 0], child(0), cur)
          [] n.is_root = 1 /\ seen.num > 0 /\ seen.sub >= nQos ->
                NextNeighbour(n, cur)
          [] n.is_root = 0 /\ seen.sub < nQos ->
                Step(n, c, [cur EXCEPT !.sub = IncUint8(@)])
          [] n.is_root = 0 /\ seen.sub = nQos /\ seen.num # 0 ->
                Step(n, NullNode, [cur EXCEPT !.sub = IncUint8(@)])
          [] /\ n.is_root = 0
             /\ seen.sub > nQos \/ (seen.sub = nQos /\ seen.num = 0) ->
                NextNeighbour(n, cur)
          [] OTHER -> Step(n, c, cur)

NextChild(n, c, seen, cur) ==
    CASE n.ops = "root"  -> RootNextChild(n, cur)
      [] n.ops = "fl"    -> FlNextChild(n, cur)
      [] n.ops = "ps"    -> PsNextChild(n, c, seen, cur)
      [] n.ops = "saul"  -> SaulNextChild(n, c, seen, cur)
      [] n.ops = "netif" -> NetifNextChild(n, c, seen, cur)

-----------------------------------------------------------------------------
(* get_name_fn and get_type_fn.                                            *)

\* linked_list_read and linked_list_read_ip walk num - 1 links from head: the
\* walk dereferences NULL beyond the end of the list.
WalkFaults == list # <<>> /\ cursor.num - 1 > Len(list)
WalkEnds == list # <<>> /\ cursor.num <= Len(list)
Neighbour == list[Max({1, cursor.num})]

\* The name the call leaves in the caller's buffer, which held "buf": a field
\* counter beyond the table of names leaves it alone.
FieldName(fields, i, buf) == IF i \in DOMAIN fields THEN fields[i] ELSE buf

FlName(n) == IF n.is_root = 1 THEN FlEntry(n).name ELSE StaticEntry(n)[1]

PsName(n, buf) ==
    CASE n.is_root = 2 -> "ps"
      [] n.is_root = 1 -> ThreadName[n.pid]
      [] n.is_root = 0 -> FieldName(PsFields, cursor.ps + 1, buf)

SaulName(n, buf) ==
    CASE n.is_root = 2 -> "devices"
      [] n.is_root = 1 -> DeviceName[n.dev]
      [] n.is_root = 0 -> FieldName(<<"class">>, cursor.saul + 1, buf)

NetifName(n, buf) ==
    CASE n.is_root = 4 -> "netif"
      [] n.is_root = 3 -> IfaceName[n.iface]
      [] n.is_root = 2 -> FieldName(NetifFields, cursor.field + 1, buf)
      [] n.is_root = 1 -> IF WalkEnds THEN Neighbour ELSE buf
      [] n.is_root = 0 -> FieldName(QosFields, cursor.sub, buf)

GetName(n, buf) ==
    CASE n.ops = "root"  -> "/"
      [] n.ops = "fl"    -> FlName(n)
      [] n.ops = "ps"    -> PsName(n, buf)
      [] n.ops = "saul"  -> SaulName(n, buf)
      [] n.ops = "netif" -> NetifName(n, buf)

\* The assertions and dereferences of get_name_fn that stop the system.
NameFaults(n) ==
    \/ n.ops = "uninit"
    \/ n.ops = "ps" /\ n.is_root = 1 /\ n.pid \notin threads
    \/ n.ops = "netif" /\ n.is_root \in {2, 3} /\ n.iface = NULL
    \/ n.ops = "netif" /\ n.is_root = 1 /\ WalkFaults

FlType(n) == IF n.is_root = 1 THEN "inner" ELSE StaticEntry(n)[2]

PsType(n) ==
    CASE n.is_root # 0 -> "inner"
      [] n.is_root = 0 /\ cursor.ps = 1 -> "str"
      [] n.is_root = 0 /\ cursor.ps # 1 -> "int"

SaulType(n) == IF n.is_root = 0 THEN "str" ELSE "inner"

NetifType(n) ==
    CASE n.is_root \in {3, 4} -> "inner"
      [] n.is_root \in 0 .. 2 /\ cursor.field \in {0, 3} -> "int"
      [] n.is_root = 2 /\ cursor.field \in {1, 2} -> "str"
      [] n.is_root = 2 /\ cursor.field = 4 -> "inner"
      [] n.is_root = 1 /\ cursor.field \notin {0, 3} -> "inner"
      [] OTHER -> IF cursor.sub \in 2 .. 4 THEN "float" ELSE "str"

GetType(n) ==
    CASE n.ops = "null"  -> "null"
      [] n.ops = "root"  -> "inner"
      [] n.ops = "fl"    -> FlType(n)
      [] n.ops = "ps"    -> PsType(n)
      [] n.ops = "saul"  -> SaulType(n)
      [] n.ops = "netif" -> NetifType(n)

-----------------------------------------------------------------------------
(* The getters of values.  What matters of a value is which datum it is:   *)
(* the datum is named by its path in the tree, "junk" is a constant the    *)
(* code returns for none.  A getter is called for the type a node had      *)
(* before, and reads the counters again.                                   *)

Junk == <<"junk">>

FlDatum(n) == <<FlEntry(n).name, StaticEntry(n)[1]>>

\* The counters _ps_node_getint_value and _ps_node_getstr_value know.
PsReads(type) == IF type = "str" THEN {1} ELSE {0, 2, 3, 4}

PsDatum(n, type) ==
    IF cursor.ps \in PsReads(type)
    THEN <<"runtime", "ps", ThreadName[n.pid], PsFields[cursor.ps + 1]>>
    ELSE Junk

SaulDatum(n) == <<"saul", "devices", DeviceName[n.dev], "class">>

IfaceKey(i) == <<"network", "netif", IfaceName[i]>>

\* _netif_node_getint_value, _netif_node_getstr_value and linked_list_read of
\* _netif_node_getfloat_value.
NetifDatum(n, type) ==
    LET iface  == IfaceKey(n.iface)
        own    == iface \o <<NetifFields[cursor.field + 1]>>
        qos(f) == IF WalkEnds
                  THEN iface \o <<"neighbours", Neighbour, QosFields[f]>>
                  ELSE Junk
    IN  CASE type = "int" ->
                IF cursor.field \in {0, 3} THEN own ELSE Junk
          [] type = "float" ->
                IF cursor.sub \in 2 .. 4 THEN qos(cursor.sub) ELSE Junk
          [] type = "str" /\ cursor.field \in {1, 2} -> own
          [] type = "str" /\ cursor.field \notin {1, 2} ->
                IF cursor.sub = 1 THEN qos(1) ELSE Junk

\* The path of what the getter for a type reads.
Datum(n, type) ==
    CASE n.ops = "fl"    -> FlDatum(n)
      [] n.ops = "ps"    -> PsDatum(n, type)
      [] n.ops = "saul"  -> SaulDatum(n)
      [] n.ops = "netif" -> NetifDatum(n, type)

\* The assertions and dereferences of the getters that stop the system.
ReadFaults(n, type) ==
    \/ /\ n.ops = "ps" /\ n.pid \notin threads
       /\ type = "str" \/ cursor.ps \in 2 .. 4
    \/ n.ops = "saul" /\ n.dev = NULL
    \/ n.ops = "netif" /\ n.iface = NULL
    \/ n.ops = "netif" /\ WalkFaults
         /\ \/ type = "float" /\ cursor.sub \in 2 .. 4
            \/ type = "str" /\ cursor.field \notin {1, 2} /\ cursor.sub = 1

\* _netif_node_getint_value of "num_neighbours" counts the neighbours of the
\* interface into _num_neighbours, from 0, and puts the new ones on the list.
CountsNeighbours(n, type) == n.ops = "netif" /\ type = "int" /\ cursor.field = 3

\* linked_list_node_exists, as its callers take it.  Mutant: any entry counts as
\* the one looked for.
ListedAny(a) == list # <<>>

Listed(a) == \E i \in DOMAIN list : list[i] = a

-----------------------------------------------------------------------------
(* The values nodes and counters can have.                                 *)

Int8  == -128 .. 127
Uint8 == 0 .. 255

CursorSet == [ps : Int8, saul : Int8, field : Uint8, sub : Uint8, num : Uint8]

\* The nodes the operations have written.
WrittenNodes ==
    [ops : {"root"}, idx : 0 .. Len(db_index)]
      \cup [ops : {"fl"}, fl_idx : 0 .. Len(db_index) - 1, sub_idx : 0 .. 6,
            is_root : 0 .. 1]
      \cup [ops : {"ps"}, pid : 1 .. PidLast + 1, is_root : 0 .. 2]
      \cup [ops : {"saul"}, dev : 0 .. Len(DeviceName), is_root : 0 .. 2]
      \cup [ops : {"netif"}, iface : 0 .. Len(IfaceName), is_root : 0 .. 4]

NodeSet == {NullNode, Uninitialised} \cup WrittenNodes
=============================================================================
