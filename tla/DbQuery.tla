------------------------------ MODULE DbQuery -------------------------------
(***************************************************************************)
(* The commands that read the database: dcaq and dcadump of the shell      *)
(* (shell_cmds.c) and the GET handler of the CoAP server (coap.c).  All of *)
(* them find a node by its path (db_find_node_by_path of db_node.c) and    *)
(* then print its value, list its children or, for dcadump, walk the whole *)
(* tree below it.                                                          *)
(*                                                                         *)
(* The shell runs in the main thread, the handler in the thread of gcoap,  *)
(* which has the higher priority: it may run between any two steps of the  *)
(* shell, and then runs to completion.  A step of a task is one call of a  *)
(* node operation (DbNode), divided where what it has tested may have      *)
(* changed when it assigns: within get_next_child and within the reading   *)
(* of a value.  A task that the code would stop by an assertion or by      *)
(* following a wild pointer halts the board.                               *)
(***************************************************************************)
EXTENDS DbNode

CONSTANTS
    Shell, Coap,   \* the two threads that read the database
    Requests,      \* the commands each of them may be given
    NibStates,     \* the neighbour caches the network stack may hold
    Measured,      \* the neighbours dcalat and dcatp may have results for
    Mortal         \* the pids of the threads that may exit

Tasks == {Shell, Coap}

\* The addresses in all the neighbour caches there may be.
Addresses ==
    (UNION {UNION {ToSet(s[i]) : i \in DOMAIN s} : s \in NibStates}) \ {Free}

ASSUME QueryAssumption ==
    /\ Shell # Coap
    /\ Requests \in [Tasks -> SUBSET [cmd  : {"dcaq", "dcadump", "get"},
                                      path : Seq(STRING)]]
    /\ \A t \in Tasks : \A q \in Requests[t] :
          q.cmd = "dcadump" => q.path = <<>>
    /\ \A q \in Requests[Shell] : q.cmd # "get"
    /\ \A q \in Requests[Coap] : q.cmd = "get"
    /\ NibStates # {} /\ NibStates \subseteq [DOMAIN IfaceName -> Seq(STRING)]
    /\ Measured \subseteq Addresses
    /\ Mortal \subseteq Started \ {1}

VARIABLES
    task,     \* the command each thread executes, with the locals of its calls
    hist,     \* history: whether the shell's command repeats a query that has
              \* just failed, and the counter of ps.c when it started
    ins,      \* the insertion into the neighbour list each thread is executing
    count,    \* history: the neighbours met since _num_neighbours was set to 0,
              \* whether one was met twice and whether the list has lost one
    halted    \* an assertion or a fault has stopped the board

db   == <<cursor, list, ins>>
env  == <<threads, nib>>
vars == <<cursor, threads, nib, list, ins, task, hist, count, halted>>

\* The root before anything has enumerated it (db_get_root).
Root == RootNode(0)

\* seen holds the counters a call of get_next_child has tested and not yet
\* written, if any; type, slot and nce are locals of the reading of a value.
Idle == [pc |-> "idle", cmd |-> "dcaq", path |-> <<>>, todo |-> <<>>,
         stack |-> <<>>, name |-> "junk", seen |-> <<>>, type |-> "null",
         slot |-> 0, nce |-> Free, out |-> <<>>, res |-> <<"none">>]

\* An insertion has a node for addr, then what it has linked that node to.
NoInsertion == [step |-> "none", addr |-> Free, rest |-> <<>>]

NewCount == [met |-> {}, twice |-> FALSE, lost |-> FALSE]

Init ==
    /\ cursor = CursorInit
    /\ threads = Started
    /\ nib \in NibStates
    /\ list = <<>>
    /\ ins = [t \in Tasks |-> NoInsertion]
    /\ task = [t \in Tasks |-> Idle]
    /\ hist = [retry |-> FALSE, start |-> CursorInit.ps]
    /\ count = NewCount
    /\ halted = FALSE

-----------------------------------------------------------------------------
(* Locals of a task.  stack holds the nodes of the calls in progress: the  *)
(* one below the top is being enumerated, the top is the child variable    *)
(* the enumeration writes to.                                              *)

Node(t)  == task[t].stack[Len(task[t].stack) - 1]
Child(t) == Last(task[t].stack)

\* memcmp over the length of the token: a name matches its every prefix.
Matches(tok, name) == tok = name \/ <<tok, name>> \in PrefixOf

\* The gcoap thread preempts the main thread, never the other way round.
\* Mutant: each may preempt the other.
CanRunAnytime(t) == ~halted

CanRun(t) == ~halted /\ (t = Shell => task[Coap].pc = "idle")

At(t, pc) == CanRun(t) /\ task[t].pc = pc

Update(t, r) == task' = [task EXCEPT ![t] = r]

\* The command ends: its locals go, what it answered stays.
Finished(r, res) ==
    [Idle EXCEPT !.cmd = r.cmd, !.path = r.path, !.out = r.out, !.res = res]

Halt == halted' = TRUE /\ UNCHANGED <<task, hist, count, db, env>>

-----------------------------------------------------------------------------
(* Steps of a command.                                                     *)

\* A command line or a GET request arrives.  Of the two URIs of the root the
\* handler refuses the short one, "/dca", at once (coap.c:72), not "/dca/".
Request(t) ==
    /\ At(t, "idle") /\ ins[t].step = "none"
    /\ \E q \in Requests[t], short \in BOOLEAN :
         LET r == [Idle EXCEPT !.cmd = q.cmd, !.path = q.path, !.todo = q.path]
         IN  /\ Update(t, CASE q.cmd = "get" /\ q.path = <<>> /\ short ->
                                 Finished(r, <<"enoent">>)
                            [] q.cmd = "dcadump" ->
                                 [r EXCEPT !.pc = "show", !.stack = <<Root>>]
                            [] q.cmd # "dcadump" /\ q.path # <<>> ->
                                 [r EXCEPT !.pc = "lookup",
                                           !.stack = <<Root, Uninitialised>>]
                            [] OTHER ->
                                 [r EXCEPT !.pc = "type", !.stack = <<Root>>])
             /\ hist' = IF t # Shell THEN hist
                        ELSE [retry |-> /\ task[t].res = <<"enoent">>
                                        /\ task[t].path = q.path,
                              start |-> cursor.ps]
    /\ UNCHANGED <<db, env, count, halted>>

\* get_next_child for Child(t).  What it writes, it computes from the counters
\* it has tested or from those it reads again, as the compiler likes.
Assigned(t, seen) ==
    LET s == NextChild(Node(t), Child(t), seen, seen)
    IN  [s EXCEPT !.cursor = [f \in DOMAIN cursor |->
            IF @[f] = seen[f] THEN cursor[f] ELSE @[f]]]

Outcomes(t) ==
    IF task[t].seen = <<>>
    THEN {NextChild(Node(t), Child(t), cursor, cursor)}
    ELSE LET seen == Head(task[t].seen)
         IN  {NextChild(Node(t), Child(t), seen, cursor), Assigned(t, seen)}

\* The thread is preempted after the tests of a get_next_child that is going
\* to write to the counters, before it does.  Nothing preempts the handler, and
\* nothing preempts the shell where the handler gets no requests.
Tests(t) ==
    /\ At(t, "lookup") \/ At(t, "list") \/ At(t, "readdir")
    /\ t = Shell /\ Requests[Coap] # {} /\ task[t].seen = <<>>
    /\ Node(t).ops \in {"ps", "saul", "netif"}
    /\ NextChild(Node(t), Child(t), cursor, cursor).cursor # cursor
    /\ Update(t, [task[t] EXCEPT !.seen = <<cursor>>])
    /\ UNCHANGED <<db, env, hist, count, halted>>

\* The task t after get_next_child returned s.
Enumerated(t, s) ==
    LET n == Len(task[t].stack)
    IN  [task[t] EXCEPT !.stack = [@ EXCEPT ![n - 1] = s.node, ![n] = s.child],
                        !.seen = <<>>]

\* db_find_node_by_path: the next folder of the node.
Lookup(t) ==
    /\ At(t, "lookup")
    /\ \E s \in Outcomes(t) :
         /\ cursor' = s.cursor
         /\ Update(t, IF s.child = NullNode THEN Finished(task[t], <<"enoent">>)
                      ELSE [Enumerated(t, s) EXCEPT !.pc = "match"])
    /\ UNCHANGED <<list, ins, env, hist, count, halted>>

\* What a caller does with the node it was looking for.
FoundNode(r, n) ==
    [r EXCEPT !.pc = IF r.cmd = "vfs" THEN "found" ELSE "type",
              !.stack = <<n>>, !.todo = <<>>, !.name = "junk"]

\* Its name is compared with the token; on a match the search descends.
Match(t) ==
    /\ At(t, "match")
    /\ ~NameFaults(Child(t))
    /\ LET name == GetName(Child(t), task[t].name)
           hit  == Matches(Head(task[t].todo), name)
           rest == Tail(task[t].todo)
       IN  Update(t, CASE ~hit ->
                            [task[t] EXCEPT !.pc = "lookup", !.name = name]
                       [] hit /\ rest # <<>> ->
                            [task[t] EXCEPT !.pc = "lookup", !.todo = rest,
                                 !.name = name, !.stack = <<Child(t), Child(t)>>]
                       [] hit /\ rest = <<>> -> FoundNode(task[t], Child(t)))
    /\ UNCHANGED <<db, env, hist, count, halted>>

\* The type of the node found (or, in dcadump, reached) decides what to do.
Type(t) ==
    /\ At(t, "type")
    /\ Update(t, IF GetType(Child(t)) = "inner"
                 THEN [task[t] EXCEPT !.pc = "list",
                                      !.stack = Append(@, Uninitialised)]
                 ELSE [task[t] EXCEPT !.pc = "print"])
    /\ UNCHANGED <<db, env, hist, count, halted>>

\* What the caller of db_node_value_to_str does with the answer.
Printed(r, res) ==
    IF r.cmd # "dcadump" THEN Finished(r, res)
    ELSE [r EXCEPT !.pc = "list", !.out = Append(@, Last(res)),
                   !.type = "null", !.slot = 0]

\* db_node_value_to_str asks for the type again: a node that has become an
\* inner one by now is an error.
ValueToStr(t) ==
    /\ At(t, "print")
    /\ LET type == GetType(Child(t))
       IN  Update(t, IF type = "inner"
                     THEN Printed(task[t], <<"error", <<"error">> >>)
                     ELSE [task[t] EXCEPT !.pc = "assert", !.type = type])
    /\ UNCHANGED <<db, env, hist, count, halted>>

\* The wrapper of the getter for that type asserts that it still is the type.
CheckType(t) ==
    /\ At(t, "assert")
    /\ GetType(Child(t)) = task[t].type
    /\ Update(t, [task[t] EXCEPT !.pc = "read"])
    /\ UNCHANGED <<db, env, hist, count, halted>>

\* The getter.  All but one return at once, that one counts neighbours.
GetValue(t) ==
    /\ At(t, "read")
    /\ ~ReadFaults(Child(t), task[t].type)
    /\ IF CountsNeighbours(Child(t), task[t].type)
       THEN /\ cursor' = [cursor EXCEPT !.num = 0]
            /\ Update(t, [task[t] EXCEPT !.pc = "count"])
            /\ count' = NewCount
       ELSE /\ Update(t, Printed(task[t],
                            <<"value", Datum(Child(t), task[t].type)>>))
            /\ UNCHANGED <<cursor, count>>
    /\ UNCHANGED <<list, ins, env, hist, halted>>

\* gnrc_ipv6_nib_nc_iter: the slots with neighbours that are still to come.
\* Mutant: the one after the next is taken.
NextSlotsSkip(t) ==
    {i \in DOMAIN nib[Child(t).iface] :
        i > task[t].slot + 1 /\ nib[Child(t).iface][i] # Free}

NextSlots(t) ==
    {i \in DOMAIN nib[Child(t).iface] :
        i > task[t].slot /\ nib[Child(t).iface][i] # Free}

\* A neighbour is counted...
Count(t) ==
    /\ At(t, "count") /\ NextSlots(t) # {}
    /\ cursor' = [cursor EXCEPT !.num = IncUint8(@)]
    /\ LET i == Min(NextSlots(t))
           a == nib[Child(t).iface][i]
       IN  /\ Update(t, [task[t] EXCEPT !.pc = "add", !.slot = i, !.nce = a])
           /\ count' = [count EXCEPT !.met = @ \cup {a},
                                     !.twice = @ \/ a \in count.met]
    /\ UNCHANGED <<list, ins, env, hist, halted>>

CountOn(r) == [r EXCEPT !.pc = "count", !.nce = Free]

\* ...and put on the list unless it is there; the handler may run in between.
Add(t) ==
    /\ At(t, "add") /\ ins[t].step = "none"
    /\ IF Listed(task[t].nce)
       THEN Update(t, CountOn(task[t])) /\ UNCHANGED ins
       ELSE /\ ins' = [ins EXCEPT ![t] = [step |-> "link", addr |-> task[t].nce,
                                          rest |-> <<>>]]
            /\ UNCHANGED task
    /\ UNCHANGED <<cursor, list, env, hist, count, halted>>

\* linked_list_insert_node: link->next = head...
Link(t) ==
    /\ CanRun(t) /\ ins[t].step = "link"
    /\ ins' = [ins EXCEPT ![t].step = "publish", ![t].rest = list]
    /\ UNCHANGED <<cursor, list, task, env, hist, count, halted>>

\* ...head = link.  What the handler has put on the list between the two is
\* lost.
Publish(t) ==
    /\ CanRun(t) /\ ins[t].step = "publish"
    /\ list' = <<ins[t].addr>> \o ins[t].rest
    /\ ins' = [ins EXCEPT ![t] = NoInsertion]
    /\ count' = [count EXCEPT !.lost = @ \/ ~(ToSet(list) \subseteq ToSet(list'))]
    /\ IF task[t].pc = "add" THEN Update(t, CountOn(task[t])) ELSE UNCHANGED task
    /\ UNCHANGED <<cursor, env, hist, halted>>

Counted(t) ==
    /\ At(t, "count") /\ NextSlots(t) = {}
    /\ Update(t, Printed(task[t], <<"value", IfaceKey(Child(t).iface)
                                              \o <<"num_neighbours">> >>))
    /\ UNCHANGED <<db, env, hist, count, halted>>

\* No further child: the command ends or, in dcadump, this call of _tree_r.
\* Mutant: _tree_r goes on with the children of the same node.
LeaveNever(r) ==
    IF Len(r.stack) = 2 THEN Finished(r, <<"listed">>) ELSE r

Leave(r) ==
    IF Len(r.stack) = 2 THEN Finished(r, <<"listed">>)
    ELSE [r EXCEPT !.stack = Front(@)]

\* The loops over the children: the next one of the folder being listed.
List(t) ==
    /\ At(t, "list")
    /\ \E s \in Outcomes(t) :
         /\ s.child # Uninitialised
         /\ cursor' = s.cursor
         /\ Update(t, IF s.child = NullNode THEN Leave(Enumerated(t, s))
                      ELSE [Enumerated(t, s) EXCEPT !.pc = "show"])
    /\ UNCHANGED <<list, ins, env, hist, count, halted>>

\* Its name is printed; dcadump goes on to its type, a listing to the next.
Show(t) ==
    /\ At(t, "show")
    /\ ~NameFaults(Child(t))
    /\ Update(t, [task[t] EXCEPT
            !.pc = IF task[t].cmd = "dcadump" THEN "type" ELSE "list",
            !.name = GetName(Child(t), @)])
    /\ UNCHANGED <<db, env, hist, count, halted>>

\* An assertion fails, or a call works on a node nobody has written.
Fault(t) ==
    /\ \/ (At(t, "match") \/ At(t, "show")) /\ NameFaults(Child(t))
       \/ At(t, "assert") /\ GetType(Child(t)) # task[t].type
       \/ At(t, "read") /\ ReadFaults(Child(t), task[t].type)
       \/ At(t, "list") /\ \E s \in Outcomes(t) : s.child = Uninitialised
    /\ Halt

Call(t) ==
    \/ Tests(t) \/ Lookup(t) \/ Match(t) \/ Type(t) \/ List(t) \/ Show(t)
    \/ ValueToStr(t) \/ CheckType(t) \/ GetValue(t)
    \/ Count(t) \/ Add(t) \/ Link(t) \/ Publish(t) \/ Counted(t)
    \/ Fault(t)

-----------------------------------------------------------------------------
(* What the rest of the system does to the data.                           *)

\* dcalat or dcatp, in the main thread, has a result for a neighbour that is
\* not on the list and inserts it (latency.c:392-397, udp_throughput.c:208-215).
\* That of a listed one changes no address (see NeighborList).
Measure ==
    /\ At(Shell, "idle") /\ ins[Shell].step = "none"
    /\ \E a \in Measured :
         /\ ~Listed(a)
         /\ ins' = [ins EXCEPT ![Shell] = [step |-> "link", addr |-> a,
                                           rest |-> <<>>]]
    /\ UNCHANGED <<cursor, list, task, env, hist, count, halted>>

\* A thread returns (the UDP server on an unknown packet, for example).
ThreadExit ==
    /\ ~halted
    /\ \E p \in Mortal \cap threads : threads' = threads \ {p}
    /\ UNCHANGED <<nib, db, task, hist, count, halted>>

\* The network stack learns or forgets neighbours.
NibChange ==
    /\ ~halted
    /\ nib' \in NibStates \ {nib}
    /\ UNCHANGED <<threads, db, task, hist, count, halted>>

Next ==
    \/ \E t \in Tasks : Request(t) \/ Call(t)
    \/ Measure
    \/ ThreadExit
    \/ NibChange

\* A thread of the highest priority that can run does run.
Spec     == Init /\ [][Next]_vars
FairSpec == Spec /\ \A t \in Tasks : WF_vars(Call(t))

-----------------------------------------------------------------------------
(* Properties.                                                             *)

\* Type invariant.  The counters have the ranges of int8_t and uint8_t
\* (ps.c:69, saul_devices.c:46, netif.c:70-72).
TypeOK ==
    /\ cursor \in CursorSet
    /\ threads \subseteq 1 .. PidLast
    /\ nib \in NibStates
    /\ halted \in BOOLEAN
    /\ \A t \in Tasks :
         /\ task[t].pc \in {"idle", "lookup", "match", "found", "type", "list",
                            "show", "print", "assert", "read", "count", "add",
                            "readdir", "dirname"}
         /\ ToSet(task[t].stack) \subseteq NodeSet
         /\ ins[t].step \in {"none", "link", "publish"}

\* Wherever the commands executed so far have left the counters of ps.c and
\* netif.c, the next enumeration starts from an index of the field tables;
\* only the counter of the QoS fields passes its table, by one, to mark the
\* end of a neighbour (netif.c:246-251).
CountersInTables ==
    /\ cursor.ps \in 0 .. Len(PsFields) - 1
    /\ cursor.saul = 0
    /\ cursor.field \in 0 .. Len(NetifFields) - 1
    /\ cursor.sub \in 1 .. Len(QosFields) + 1

\* The reference: every key below which the database keeps a datum, written
\* down from the tables alone.  A neighbour's "ip" is its folder's name.
Keys ==
    (UNION {{<<e.name, s[1]>> : s \in ToSet(e.static)} : e \in ToSet(db_index)})
    \cup (IF "PS" \in Config
          THEN {<<"runtime", "ps", ThreadName[p], f>> :
                    p \in threads, f \in ToSet(PsFields)}
          ELSE {})
    \cup (IF "SAUL" \in Config
          THEN {<<"saul", "devices", d, "class">> : d \in ToSet(DeviceName)}
          ELSE {})
    \cup (IF "NETWORK" \in Config
          THEN UNION {
            {<<"network", "netif", IfaceName[i], f>> :
                    f \in ToSet(NetifFields) \ {"neighbours"}}
            \cup {<<"network", "netif", IfaceName[i], "neighbours", a, f>> :
                    a \in ToSet(nib[i]) \ {Free}, f \in ToSet(QosFields) \ {"ip"}} :
            i \in DOMAIN IfaceName}
          ELSE {})

\* The keys that do not depend on which neighbours have been counted before.
FixedKeys == {k \in Keys : Len(k) < 6}

MatchesPath(path, key) ==
    /\ Len(path) = Len(key)
    /\ \A i \in DOMAIN path : Matches(path[i], key[i])

Answered(t) == task[t].pc = "idle" /\ task[t].res # <<"none">>
CleanDump ==
    Answered(Shell) /\ task[Shell].cmd = "dcadump" /\ hist.start = 0
Failed(t) == Answered(t) /\ task[t].res = <<"enoent">>

\* A value that dcaq or a GET request answers is the value of the key that
\* was asked for (up to the abbreviation db_find_node_by_path allows), and
\* never of another field, thread, device or neighbour that the shared
\* counters had moved on to (db_node.c:59-109 with ps.c and netif.c).
LookupSound ==
    \A t \in Tasks :
        Answered(t) /\ task[t].res[1] = "value"
            => MatchesPath(task[t].path, task[t].res[2])

\* No sequence of commands makes an assertion of the node operations fail or
\* lets one of them work on an unwritten node or past the end of the
\* neighbour list (ps.c:140, netif.c:133, linked_list.c:40 and 59).
NoFault == ~halted

\* A failed query for a key that exists has run the counter of ps.c to its
\* end and reset it: the same query, repeated, succeeds (ps.c:189-194).
RetrySucceeds ==
    Failed(Shell) /\ task[Shell].path \in FixedKeys => ~hist.retry

\* The network branch resets its counters whenever it is entered
\* (netif.c:115-116): whatever was read before, the fields of an interface
\* are found.
NetifFieldsFound ==
    \A t \in Tasks :
        Failed(t) => ~(/\ task[t].path \in FixedKeys
                       /\ task[t].path[1] = "network")

\* A dcadump that starts with the counter of ps.c at 0 prints every datum of
\* the database exactly once, the neighbours included, whatever queries came
\* before it (_tree_r over every get_next_child).
DumpExact ==
    CleanDump => /\ ToSet(task[Shell].out) = Keys
                 /\ Len(task[Shell].out) = Cardinality(Keys)

\* Every command ends: none of the loops over get_next_child runs forever,
\* although the counters they advance are left anywhere by earlier commands.
CommandsEnd == \A t \in Tasks : task[t].pc # "idle" ~> task[t].pc = "idle"

\* Nothing has happened to the last counting, or during it, that makes its
\* number worthless: the list has not lost an entry to an insertion that the
\* handler has interrupted (linked_list.c:24-25), and no neighbour was met
\* twice because it had left the cache and come back in a later slot.
CountKept == ~count.lost /\ ~count.twice

\* _num_neighbours, by which linked_list_read and linked_list_read_ip walk the
\* list, does not point past its end unless one of these two has happened: the
\* counting (netif.c:571-580) enters every neighbour it counts, although the
\* cache changes meanwhile and the main thread inserts, too, and a listing
\* counts down to 0 and not below.  Between the counting of a neighbour and its
\* entering it may point to the end.
NumWithinList ==
    ~halted /\ CountKept =>
        cursor.num <= Len(list)
                        + (IF \E t \in Tasks : task[t].pc = "add" THEN 1 ELSE 0)

\* The static entries have no state outside their node: a query for one of
\* them is answered with its value even when the handler interrupts it.
StaticKeys == {k \in Keys : Len(k) = 2}

StaticAnswered ==
    \A t \in Tasks :
        Answered(t) /\ task[t].path \in StaticKeys
            => task[t].res = <<"value", task[t].path>>

\* What the handler answers is the value of the key it was asked for, although
\* it may start in the middle of any command of the shell, with the shared
\* counters wherever that command has moved them.
HandlerSound ==
    Answered(Coap) /\ task[Coap].res[1] = "value"
        => MatchesPath(task[Coap].path, task[Coap].res[2])

\* db_find_node_by_path knows nothing of levels: it goes on below a leaf, and
\* among the fields it meets neighbours, too (db_node.c:82-106).  A path is proper
\* if it ends at a leaf or above, and no token from the fields on can be taken
\* for a name of another level.
ProperPath(p) ==
    LET clear(i, names) == \A name \in names : ~Matches(p[i], name)
    IN  /\ Len(p) <= 6
        /\ Len(p) > 2 => clear(2, StaticNames)
        /\ Len(p) > 3 => clear(4, ToSet(ThreadName) \cup ToSet(DeviceName)
                                    \cup ToSet(IfaceName) \cup Addresses
                                    \cup ToSet(QosFields))
        /\ Len(p) > 4 =>
              /\ clear(4, ToSet(PsFields) \cup {"class"}
                            \cup (ToSet(NetifFields) \ {"neighbours"}))
              /\ clear(5, ToSet(NetifFields) \cup ToSet(QosFields))

ProperRequests(t) == \A q \in Requests[t] : ProperPath(q.path)

\* A task that is asked for nothing in the network branch.
Outside(t) ==
    \A q \in Requests[t] : /\ q.cmd # "dcadump"
                           /\ q.path # <<>> => ~Matches(q.path[1], "network")

-----------------------------------------------------------------------------
(* What the documentation says, and the code does not do.                  *)

\* README.md:40: "`dcaq` enables you to query the value of a single key".
KeyAnswered ==
    \A t \in Tasks : Answered(t) /\ task[t].path \in FixedKeys
                        => task[t].res[1] = "value"

\* include/doriot_dca/db_node.h:100: "Iterate through children of node,
\* terminating with a null node".  So the handler's loops over them end (unless
\* something else stops the board).
HandlerEnds == task[Coap].pc # "idle" ~> task[Coap].pc = "idle" \/ halted
=============================================================================
