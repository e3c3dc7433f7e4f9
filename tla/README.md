# A TLA+ model of the DoRIoT Data Collection Agent

The DCA is an external module for RIOT OS. It presents data about a node (its
board, processes, sensors, network interfaces and neighbours) as a tree of
keys, readable by shell commands, by CoAP requests and through the VFS, and it
measures the latency, packet loss and throughput to the neighbours of the node.
This directory holds TLA+ models of its stateful parts, the TLC configurations
that check them and proofs for TLAPS. Line numbers refer to the files of the
repository.

## 1. Inventory

### Components

| Component | Files | State it keeps | Operations |
|---|---|---|---|
| Database nodes | `db_node.c`, `db.c`, `db_fl.c` | none of its own: a `db_node_t` lives on a caller's stack and is its own cursor | `get_next_child`, `get_next`, `get_name`, `get_type`, `get_size`, the value getters, `db_find_node_by_path`, `db_node_value_to_str` |
| `/runtime/ps` | `ps.c` | global `_field_count` (69) | the same, over threads and their five fields |
| `/saul/devices` | `saul_devices.c` | global `_field_count` (46) | the same, over the SAUL registry |
| `/network/netif` | `netif.c` | globals `_netif_field_count`, `_netif_sub_field_count`, `_num_neighbours` (70-72) | the same, over interfaces, fields, neighbours, QoS fields; reading `num_neighbours` enters neighbours into the list |
| Neighbour list | `linked_list.c` | global `head`, nodes on the heap, never freed | insert, search, two updates, readers by position |
| Latency measurement | `latency.c` | `_ping_data_t` of one measurement, a timer, the message queue of the thread | `db_measure_network_latency` |
| Throughput measurement | `udp_throughput.c` | counters of the server, `server_running`, two threads | client and server of a UDP test |
| Shell commands | `shell_cmds.c` | none | `dcaq`, `dcadump` |
| CoAP server | `coap.c` | none | GET below `/dca` |
| File system | `fs.c` | open files and directories: copies of nodes | stat, open, read, opendir, readdir over the nodes |
| Static getters | `board.c`, `runtime.c`, `network.c`, `saul_node.c` | none | one number or string each |
| Examples | `examples/` | the locals of a command | `tree` and `cat` over the file system (`examples/vfs`) |
| Initialisation | `doriot_dca.c` | none | start everything once |

### How they interact

* Shell, CoAP handler and VFS call the node operations. The shell runs in the
  main thread, the handler in the thread of gcoap, which has the higher priority
  and preempts it anywhere. There is no lock in the DCA.
* The node operations dispatch on the table in the node. `db_fl.c` hands over to
  the three dynamic subtrees, whose positions are partly in globals that all
  readers share.
* `netif.c` counts the neighbour cache of the network stack and enters the
  neighbours into the neighbour list; the measurements write results into the
  same list; `netif.c` reads it by position.
* `tree` calls the file system: between two calls of `readdir` for a directory it
  stats, opens and reads the entries below, each by a lookup from the root that
  moves the same globals.
* A throughput test is a protocol of two nodes. The client tests one neighbour
  after the other from the main thread; the server thread accepts one test at a
  time, but its socket takes packets from anyone.
* The latency measurement shares the message queue of the main thread with the
  timer interrupt (whose expiry is a message) and with the network stack (which
  sends it every echo reply while it is registered).

### What is hard, and what makes each part correct

* *Enumeration state in globals.* Every sequence of partial lookups must leave
  the counters where the next enumeration still works; a lookup answers with
  the value of the key it was asked for; a dump is complete and exact; every
  loop over children ends.
* *Two readers.* The answer of one must not depend on the other.
* *Stale references.* A node keeps a pid over several calls while threads exit;
  `_num_neighbours` is used after the neighbour cache has changed.
* *Unreliable replies.* Duplicated, delayed, reordered and lost replies must not
  be counted wrongly; the unsigned difference that gives the loss must not wrap;
  no division by zero.
* *A timer racing its removal, a queue at its limit.* A message of the timer
  outlives its measurement; messages of other modules must survive.
* *A list shared without a lock.* No neighbour twice, no recorded result lost,
  no cycle.
* *An unreliable test of two nodes.* Requests, acknowledgements, data and results
  are lost, late or repeated while both sides time out on their own: a result
  must belong to its test, nobody may wait for ever, and the server must not
  return on a packet of the protocol.
* *Directories without a position.* What `readdir` names must be found by the
  lookup that follows, and the lookup must leave the globals where `readdir`
  goes on.

`PROJECT.json` lists every hazard at its line with the properties that cover it.

## 2. Modules

| Module | What it is | Models |
|---|---|---|
| `DbNode` | nodes and their operations as operators | `db.c`, `db_fl.c`, `ps.c`, `saul_devices.c`, `netif.c` |
| `DbQuery` | the shell and the CoAP handler reading the tree | `db_node.c`, `shell_cmds.c`, `coap.c` |
| `LinkedList` | the list operations on a sequence of entries | `linked_list.c` as one thread sees it |
| `Latency` | the measurement, the timer, the network | `latency.c` |
| `NeighborTable` | abstract: a table of the results per neighbour | what the list is for |
| `NeighborList` | the list on the heap with two threads; refines `NeighborTable` | `linked_list.c` and its writers |
| `Throughput` | clients, servers, packets under way | `udp_throughput.c` |
| `DcaFs` | `tree` and `cat` over the file system over `DbQuery`'s lookups | `fs.c`, `examples/vfs/main.c` |
| `LatencyProofs`, `ThroughputProofs`, `NeighborListProofs`, `DbQueryProofs` | theorems about `Latency`, `Throughput`, `NeighborList` and `DbQuery` | |
| `LookupProofs` | theorems about what the lookups of `DbQuery` find | |
| `ReaderProofs` | theorems about what a command of `DbQuery` never does (point past the list, fault) and always finds | |
| `FsProofs` | theorems about `DcaFs` | |
| `LinkedListProofs` | induction over the natural numbers in a form the provers can use, and lemmas about the operators of `LinkedList`, which these theorems rest on; those about `DbNode` open `DbQueryProofs` | |
| `MCDbQuery`, `MCDcaFs`, `MCLatency`, `MCNeighborList`, `MCThroughput` | the instances TLC checks | |

`DbQuery` extends `DbNode` (the commands call the node operations), `DcaFs`
extends `DbQuery` (a call of the file system is a lookup or a reading of
`DbQuery`); `Latency` and `Throughput` use `LinkedList` (both record their results
in the list); `NeighborList` implements `NeighborTable` under the mapping
`table <- Table`.

Definitions whose comment begins with *Mutant* are the same operator with a
plausible bug. Nothing uses them in a run; they show, put in the place of the
definition that follows, that the properties notice the bug.

### DbNode and DbQuery

A node is a record whose `ops` names its operation table. `NextChild` returns the
node, the child and the new counters after a call of `get_next_child`: the node
changes because it is its own cursor, the counters because they are global
(`cursor`, with the fields `ps`, `saul`, `field`, `sub` and `num` for the five
globals). `GetName`, `GetType` and `Datum` give the name, the type and *which* key
a value would come from; values are not interpreted, so that a wrong answer is
one that comes from a wrong key. An operation that leaves its output unwritten
leaves the old name or node, as the code does.

In `DbQuery`, `task[t]` is the command a thread executes: `Request` accepts one,
`Lookup` and `Match` are the two calls in the loop of `db_find_node_by_path`,
`Type` decides between printing and listing, `List`, `Show` and `Leave` are the
loops over children and the recursion of `_tree_r`, with the nodes of the active
calls in `stack`. A value takes `ValueToStr` (the switch of
`db_node_value_to_str`), `CheckType` (the assertion of the wrapper, which asks for
the type again) and `GetValue` (the getter, which reads the counters again);
`num_neighbours` goes on with `Count` and `Add` for every neighbour and
`Counted`. An insertion into the list of neighbours is `ins[t]` and takes the two
writes of `linked_list_insert_node`, `Link` and `Publish`: `Add` begins one for a
neighbour it has not found (`Listed`), and `Measure` is the beginning of one by
dcalat or dcatp in the main thread, between two commands that read, with a
result for one of the neighbours `Measured`. The variable `count` is a history no
guard looks at: the neighbours met (`met`) since `_num_neighbours` was last set to
0, whether one was met `twice`, as it had moved to a later slot of the cache, and
whether an insertion has been `lost` to another since. The handler (`Coap`) may step whenever it has work, the shell only
when the handler is idle: `CanRun`. `Fault` is a failed assertion or a use of an
unwritten node, and stops everything. `ThreadExit` and `NibChange` are the rest
of the system.

*Preemption inside a call.* Where `get_next_child` is going to assign to a
counter, `Tests` stops the shell after it has read the counters (`seen`). The
handler may then run; what the shell assigns afterwards is computed from the
counters it tested or from those it reads again (`Outcomes`): the C code does not
say which. Names and types are read in one step each: they assign nothing, and
their reading at another moment is another step of the model.

*The root by CoAP.* The handler refuses "/dca" and lists the root for "/dca/"
(coap.c:72); `Request` accepts the empty path in either way.

*Abstractions.* Strings are names; `memcmp` over the length of the token is
equality or the prefix relation `PrefixOf`, given by the instance. Formatting,
buffer lengths and CoAP encodings are left out. `get_next`, which nobody calls,
and `get_size`, which only `fs.c` calls and which changes nothing, are not there.

### DcaFs

`task[Shell]` executes the lookups and readings as in `DbQuery`; `fs` holds the
locals of the command around them, `fs.pc` the call of the file system it is in.
`FindNode` starts the lookup of stat, open and opendir, `ReadFile` the getter of
read, `ReadDir` the call of readdir. `Tree*` are the steps of `_tree_r` between
these calls, a frame of `frames` is one of its activations; `Cat*` are those of
`_cat`, in both its versions (`newlib`). A value has `Size` pieces, and each piece
cat prints is read by a call of its own. `path` is the path buffer that all
activations share: `GoOn` returns without restoring it, as main.c:117 does.

`dcafs_readdir` passes an unwritten node to `get_next_child` and uses it even if
nothing was written. That is undefined behaviour; the model lets it either stop
the board or yield the node that the last call of the file system has left in the
same place on the stack (`stale`).

### Throughput

`client[c]` holds the locals of `db_measure_network_throughput`, `server[s]` those
of the server thread and its globals, `net` is the bag of packets under way. A
packet is lost if it is never received, or if there is no room in the bag; up to
`Copies` of it arrive, at any later time and in any order. `Begin` sends the
request, `ReceiveAck` sends the data, `ReceiveResult` and `ClientTimeout` end the
test, `Finish` records it; `ServerReceive` is the main loop, `Count` and
`ServerTimeout` the loop over the data, `Result` the answer. No packet says which
test it belongs to: `test` is a history of the model that no guard looks at,
except `Quiet`.

`Prompt` is an assumption about the network, TRUE in one of the two instances:
nothing sent in a test arrives after the pause of one second at its end
(udp_throughput.c:218), and no server is still busy with it. The second half
follows from the timeouts: a server waits one second for a packet and sleeps 0.1
before it answers, the client waits up to one second for the acknowledgement, up
to three for the result, and then pauses. `Capacity` bounds the packets under way.

*Abstractions.* No clock: a timeout may strike whenever its owner waits. A
throughput is the set of tests whose packets it was computed from, {} for 0: the
quotient of udp_throughput.c:113 may wrap around to 0, and its divisor may be 0
(`DivisionByZero`), which stops the server.

### Latency

The variable `pc` follows `db_measure_network_latency`; `data` holds the
counters, the set of bits of `cktab` and whether `tmin` has been set. `Begin` is
the head of the loop with the first `_pinger`, `ConfigureFails` the early return
there (latency.c:105); `Receive*` are the cases of
its switch; `Finish` is `xtimer_remove` with `_finish` up to its pause,
recording in the list included; `Unregister`, `Drain`, `PutBack` and `Drained`
clear the queue. `TimerExpires` and `Deliver` are the interrupt and the network
stack; a reply that is never delivered is lost, a request may be answered by up
to `Copies` replies, at any later time and in any order, also in later
measurements. A full queue drops what is sent to it.

*Abstractions.* No clock: a timer may expire at any moment after it was set.
`_pinger` is one step. The identifiers of measurements, `DEFAULT_ID ^ now`, are
taken to be different (latency.c:191). Sequence numbers do not wrap at 2^16
(`DEFAULT_COUNT` is far below). A stored average is represented by the
number of the measurement it was made in.

### NeighborList

A step is one call of `linked_list.c`, except that the two writes of an
insertion are two steps. A walk is one step: nodes enter at the head only and
never move. The heap has room for `HeapSize` nodes, and the model stops when it
is used up, as nothing is ever freed; that is why its runs do not check
deadlock. A throughput or latency measurement is here an operation of the main
thread with an arbitrary result.

## 3. Runs

Passing runs:

| Run | Question | Bounds |
|---|---|---|
| `DbQuerySeq` | The shell alone, any sequence of queries and dumps over all branches: answers belong to the key (`LookupSound`), a failed query for an existing key succeeds when repeated (`RetrySucceeds`), the fields of an interface are always found (`NetifFieldsFound`), a dump started with the counter of `ps.c` at 0 is exact (`DumpExact`), the counters stay in their tables (`CountersInTables`), nothing faults (`NoFault`), every command ends (`CommandsEnd`) | two threads with free pids between and after them, one device, one interface with two neighbours |
| `DbQueryIsolated` | Handler and shell in different subtrees, while the neighbour cache changes between any two steps and a measurement inserts into the list from the main thread: neither disturbs the other (`LookupSound`, `RetrySucceeds`), and the number the list is walked by stays within the list until an insertion of the handler is lost or a neighbour is met twice (`NumWithinList`) | handler at any step of the shell, inside its calls and between the two writes of its insertion too; caches of two neighbours and of one of them in the other's slot; results for the other one |
| `DbQueryPreempted` | Handler and shell in the same subtrees, and a thread that may exit: static entries are still answered (`StaticAnswered`), the handler still answers the key it was asked for (`HandlerSound`) | three threads, no free pid; requests of the shell that count neighbours, of the handler below them, and of a field of a thread on either side |
| `DcaFs` | tree and cat, after any number of queries and commands: what is printed belongs to the path (`FileSound`), what readdir names is found, and nests no deeper than the database does (`NamesFound`), a tree -p that starts with the counter of `ps.c` at 0 prints every datum once (`TreeComplete`), cat prints one value whole (`CatWhole`), all end (`FsEnds`) | the board of `DbQuerySeq`; trees of the root and of two branches, arguments that are files or nothing, cat of five paths, with and without newlib, values of 2 pieces; one query before, so that `_num_neighbours` and the QoS counter are left in the middle |
| `LatencyTight` | Counting under duplicated, late and lost replies with an overflowing queue: `RecvNeverExceedsSent`, `FinishDividesSafely`, `LossIsPercentage`, `CutShortByEarlierRun`, and the inductive invariant `IInv` of the proofs | 2 measurements of 2 requests, 2 copies, queue of 3 with 1 foreign message, 2 bits |
| `LatencyRoomy` | With room in the queue: foreign messages survive (`OthersKept`), stale timer messages are bounded (`LeftOversBounded`), the list holds the last result of every neighbour (`LastResultListed`), all measurements end (`MeasurementsEnd`) | 3 measurements, one neighbour twice, queue of 8 |
| `NeighborListAlone` | One thread alone: no neighbour twice, and the list implements the table (`ImplementsTable`) | 2 addresses, 3 values, 4 nodes |
| `NeighborListInterrupted` | The handler inserts between any two steps of the main thread: walks end (`WalksEnd`), the results of the main thread are found (`RecordedFound`) | the same |
| `ThroughputAlone` | One client, prompt network: what it records comes from the packets of that test (`ResultOwn`) and is what its list holds, beside the latency there (`RecordedListed`) | 2 servers, one of them listed before, 2 commands, 3 packets per test (the code's number), any of them lost |
| `ThroughputShared` | Two clients of one server, no assumption on delays, a request that may arrive twice and a packet of a stranger: the server's thread returns on the stranger's packet only (`ServerRuns`), otherwise always to its main loop (`ServersReturn`), and the commands of both clients end (`CommandsEnd`) | 1 command each, 2 packets per test, 3 under way |

Why the bounds are enough. The counters of the enumerations depend on where the
last command stopped, so what matters is that there is a command stopping at the
start, in the middle and at the end of each table, and that sequences are
unbounded: they are, as commands repeat for ever in `DbQuery`. Two threads with
a free pid after each exercise the skipping of free slots; two neighbours
the counting down. One neighbour with a result is enough for an insertion of the
main thread to cut off what the handler has inserted between its two writes; the
other then makes the number greater than the list is long. In `Latency` two measurements suffice for anything that one
leaves to the next, three for a left-over that passes through one untouched.
That bits of `cktab` are reused, when there are more requests than bits, is left
to the proofs, which remove the bounds for the counting.

In `Throughput` a second command finds the buffer of the server and the list as
the first has left them; two packets let one be lost and one be counted. With
`Capacity` 3 a late packet of a test, the packet of the stranger and one of the
present test are under way together. `DcaFs` leaves out the second reader, exiting
threads and changes of the neighbour cache: what they do to a lookup is the
question of the `DbQuery` runs.

Deadlock is not checked in `DbQueryPreempted` and `DcaFs` (an assertion, or an
undefined step, may stop the board), in the `NeighborList` runs (the heap is
used up), in the `Throughput` runs (the commands are bounded and a stopped server
stays so) and in `LatencyTight`: a full queue can drop the message
of the timer, and then a thread whose replies were all lost waits for ever
(latency.c:110 has no timeout of its own). `LatencyRoomy` checks deadlock.

Runs that TLC finds violated, each against what the repository says of itself:

| Run | Claim | What happens |
|---|---|---|
| `DbQueryField` | README.md:40, `dcaq` queries a single key | a query for a field leaves `_field_count` behind it; the next query for an earlier field fails once |
| `DbQueryHang` | db_node.h:100, the iteration over children ends with a null node | the shell is preempted between the test of `_field_count` and its increment (ps.c:189-197) while a GET request moves the counter to the last field; the increment takes it past the table, the node of a thread then enumerates no child and no null node (ps.c:178), and the next request for a field of a thread never ends |

More disagreements follow from the code in the same way and have no run of
their own:

* `_netif_field_count` is not reset between interfaces (netif.c:174): with two
  of them a dump leaves fields of the second out, against README.md:42. The
  neighbours below an interface are the first entries of one list for all, so that
  a neighbour can show up below the wrong one (netif.c:571).
* A GET request between the lookup and the read of a shell query makes the shell
  print another field, or fails the assertion of the getter's wrapper, against
  db_node.h:32 ("Each node contains its entire state"). A thread that exits
  between two calls makes the assertion at ps.c:140 fail. Both happen in
  `DbQueryPreempted`, whose properties are about the rest.
* A `_PING_FINISH` that expired just before `xtimer_remove` ends the next
  measurement before it has sent its requests (latency.c:123, against the comment
  at 204). `CutShortByEarlierRun` says that nothing else does. The loop that clears
  the queue compares its counter with the length that shrinks as it removes, and
  leaves about half of the replies (latency.c:135, against the comment at 140).
* An insertion into the list by gcoap between the two writes of another is lost
  (linked_list.c:24-26, against linked_list.h:42): when dcalat or dcatp is interrupted
  there by a GET for `num_neighbours`, its second write takes off the list what the
  handler has put there. `_num_neighbours` then exceeds the list, and so it does
  when a neighbour leaves the cache during a counting and comes back in a later
  slot (netif.c:576). `linked_list_read_ip` and `linked_list_read` walk by that number
  without a test for the end of the list (linked_list.c:36 and 56): one node too
  many gives NULL, which they test for, and with two they follow it. Both
  cases happen in `DbQueryIsolated`: with either of the two conditions of
  `CountKept` left out, TLC finds `NumWithinList` violated there. That nothing else
  makes the number too great is the property, and the theorem.
* `dcafs_readdir` uses a node that nobody has written (fs.c:283, against
  db_node.h:100, as there the enumeration neither goes on nor ends).
* `cat` of a directory without newlib prints for ever (main.c:77): read returns
  an error, which is not 0.
* Two clients of one server: the request and the data of one count as data of the
  other, and the result goes to whoever sent the last packet, against
  udp_throughput.h:19 ("gets network throughput for each neighbors"). `ResultOwn` is therefore stated for one client.

## 4. Fairness

Safety properties need none. `CommandsEnd` of `DbQuery`, `HandlerEnds` and `FsEnds`
assume that a task that can take a step of its command takes one
(`WF_vars(Call(t))`, and `WF(FsStep)` for the steps between the calls of the file
system): the scheduler of RIOT runs the thread of the highest priority that can
run, and no command blocks. `MeasurementsEnd` assumes that the measuring thread is
scheduled when it has a message and that a timer that is set expires.
`CommandsEnd` and `ServersReturn` of `Throughput` assume weak fairness of each
client and of each server thread as a whole: threads are scheduled, and a
timeout strikes if nothing else happens. Nothing is assumed of the network: all
packets may be lost.

## 5. Proofs

Every theorem holds for all values of the constants that satisfy the named
assumptions of its module; what a theorem assumes beyond them is said here.

| Theorem | Property | Beyond the assumptions of the module |
|---|---|---|
| `LatencyProofs!Invariance`, `TypeCorrect` | `IInv`, `TypeOK` | |
| `CountCorrect`, `DivisionCorrect`, `LossCorrect` | `RecvNeverExceedsSent`, `FinishDividesSafely`, `LossIsPercentage` | |
| `CutShortCorrect`, `LeftOversCorrect`, `LastResultCorrect` | `CutShortByEarlierRun`, `LeftOversBounded`, `LastResultListed` | |
| `OthersCorrect` | `OthersKept` | room in the queue when a message is put back |
| `NeighborListProofs!Invariance`, `TypeCorrect` | `IInv`, `TypeOK` | |
| `WalksEndCorrect`, `RecordedFoundCorrect` | `WalksEnd`, `RecordedFound` | |
| `ListedOnceCorrect`, `TableImplemented` | `ListedOnce`, `ImplementsTable` | the handler has no operations |
| `ThroughputProofs!Invariance`, `TypeCorrect`, `RecordedListedCorrect` | `IInv`, `TypeOK`, `RecordedListed` | |
| `ServerRunsAlways` | `ServerRuns` | |
| `OneClientOwn` | `ResultOwn` | one client, `Prompt`, no strangers |
| `DbQueryProofs!TypeCorrect`, `StaticCorrect` | `TypeOK`, `StaticAnswered` | |
| `CountersCorrect` | `CountersInTables` | one reader (`OneReader`) |
| `LookupProofs!LookupCorrect` | `LookupSound` | one reader, whose paths are proper (`ProperRequests`) |
| `HandlerCorrect` | `HandlerSound` | the handler's paths are proper |
| `ReaderProofs!NumberCorrect` | `NumWithinList` | one reader, or a shell that is asked for nothing in the network branch (`Outside`) |
| `FaultCorrect` | `NoFault`, as long as `CountKept` | one reader, no thread exits |
| `FieldsCorrect` | `NetifFieldsFound` | one reader, or a shell that is asked for nothing in the network branch (`Outside`) |
| `RetryCorrect` | `RetrySucceeds` | one reader |
| `FsProofs!FsTypeCorrect`, `CatCorrect` | `FsTypeOK`, `CatWhole` | the handler gets no requests |
| `FilesCorrect` | `ValuesSound` (part of `FileSound`) | the handler gets no requests |
| `CatFilesCorrect` | `FileSound` for cat of a proper path | the handler gets no requests |

### Latency

Under `LatencyAssumption` (at least one request per measurement, at least one bit
and one slot, the neighbours listed at the start distinct) the inductive
invariant is

    IInv == TypeOK /\ ThreadInv /\ CountInv /\ MsgInv /\ EndInv
              /\ LossIsPercentage /\ CutShortByEarlierRun /\ TimerInv /\ ListInv

`recv <= sent` is not inductive: whether a reply may still be counted depends on
the bits of `cktab`, which are cleared and reused as requests are sent.

* `CountInv`: the replies counted plus the clear bits that stand for a request
  sent do not exceed the requests sent. A request adds one to the right and
  makes at most one more bit clear; a counted reply sets a clear bit. That the
  bit stands for a request that was sent needs
* `MsgInv`: a message under way, queued or held is none of the future: a reply
  of this run answers a request it has sent, a `_PING_FINISH` of this run means
  that all requests are sent. This carries `CutShortByEarlierRun`, too.
* `ThreadInv` and `EndInv` tie the place in the code to the locals: what is held
  where, and that a run ends with all its replies or with a message. The first
  carries the division.
* `TimerInv` counts the timer messages: those in the queue, the one held and the
  timer that is set are no more than the measurements begun, because a timer is
  set when one begins and when such a message has been received. Between two
  measurements this is `LeftOversBounded`.
* `ListInv`: every neighbour is on the list once, with its last result. Recording
  changes the first entry of a neighbour (`linked_list.c` stops at the first it
  finds) or makes one, and the lemmas of `LinkedListProofs` say what that does to
  a list without repetitions.

`OthersCorrect` adds `OthersKept` to the invariant: the messages of other modules
in the queue and in the thread's hand are counted by `Having`. The step that may
lose one is `Requeue` or `PutBack`, and only on a full queue.

The proof has a lemma for each conjunct and, below it, a step for each action
that can disturb it; the lemmas on sets of slots (`SlotsFinite`, `PingerSlots`,
`CountedSlots`, `SlotsBound`) and on the messages in a queue (`HavingTail`,
`HavingEnqueue`) are about cardinalities only.

### NeighborList

The list is what following the links from `head` yields, a recursive function
over the heap (`Walk`, `Chain`). `ChainIs` shows that a sequence of nodes which the
links admit is that chain; it is the only place that needs induction. A step
that writes to the heap is then proved by naming the new chain: the old one,
or the new node before a rest of it.

    IInv == TypeOK /\ OpInv /\ ChainInv /\ NodeInv /\ CoapInv /\ MainInv

* `ChainInv`: the links from `head` end, without repetition. `WalksEnd` follows.
* `NodeInv` and `CoapInv`: a node that is not on the list yet belongs to one
  thread and holds what that thread records; nothing comes between the steps of
  a handler's insertion.
* `MainInv`: what the main thread has recorded is what the list tells
  (`Agrees`), and so does the rest of the list its new node links to: whatever
  the publication cuts off, because the handler has inserted in between, is of
  neighbours the main thread has recorded nothing of. This makes `RecordedFound`
  survive lost insertions.

With one thread `AloneInv` adds that the search of an insertion still holds when
its last write is done. Then no neighbour is listed twice, and `TableImplemented`
maps every step to one of `NeighborTable` or to a stutter: the publication of a
new node and the update of an entry are the recording of a result, the rest
leaves the table as it is.

### Throughput

Under `ThroughputAssumption` (a node that is both client and server has two
names, a stranger's packet is of no type of the protocol), for any number of
clients, servers, commands and packets and any `Copies` and `Capacity`:

* `ServerRunsAlways`, with the invariant

      RunsInv == ServerShape /\ ToServers(net) /\ AnswersClients /\ ServerRuns

  `ServerRuns` is not inductive, as any packet in the main loop that is short
  enough and no request would end the thread. `ToServers`: what is under way to
  a server is a request, data or the one copy of a stranger's packet, and comes
  from no server. `AnswersClients`: hence a busy server answers no server, and
  no acknowledgement or result reaches one. That a stranger's packet which has
  been received is not under way again needs the lemmas on the bag (`SendOther`,
  `SendDomain`, `TakenDomain`).
* `OneClientOwn`. `OwnInv` says of every packet under way, every busy server
  and the client itself that they belong to the client's present test. `Begin`
  alone changes that test; there `Prompt` empties the network, and no server is
  busy, because a busy one would be busy with this client. The throughput left
  in the buffer of a server is not in the invariant: it leaves the server in an
  acknowledgement only, which the client does not read it from.
* `Invariance`, with

      IInv == TypeOK /\ TestInv /\ PacketInv /\ ServerInv /\ ListInv

  No packet, server or result is of a test that has not begun, a server counts at
  most the packets of one test, and each client's list holds each of its
  neighbours once. `RecordedListed` follows with the lemmas of `LinkedListProofs`.

### DbQuery

The assumptions are about the board: `DbAssumption` (the pids, of which the first
is in use, the names of threads, interfaces and devices), `NamesAssumption`
(none of the names written in `board.c`, `runtime.c`, `network.c` and
`saul_node.c` begins with another or with that of a dynamic subtree) and `QueryAssumption` (`dcadump` takes no path,
GET is the handler's only request and none of the shell's, a neighbour cache has
a row of names for each interface, a measurement is of neighbours from such a
cache).
Any number of threads, devices, interfaces and neighbours is allowed, and any
prefix relation among the other names.

`DbQueryProofs` begins with what `NextChild` does, subtree by subtree. `NextChildReturns`
holds for any counters tested and any others assigned to, which is what
preemption amounts to.

* `TypeCorrect`, from `ShapeInv`: at every place of a command the stack of its
  calls has the depth the place needs, and all nodes on it but the top have been
  written. The top is one only where a name or a type was read before; an
  unwritten one is caught by `Fault`.
* `StaticCorrect`, from `StaticInv`: a task asked for a static entry has answered
  it or is `OnTheWay`, on the level of the branches at one that is not behind the
  right one, or on the level of its entries likewise. This invariant speaks of
  the task's own stack and of nothing that two readers share, and so it is
  stable under every step of the other one, in the middle of a call too.
  `NamesAssumption` is what keeps the lookup from stopping early.
* `CountersCorrect`, from `CountersInv`. `InTables` is not inductive: the counter of
  the QoS fields may only go up at a neighbour's fields. In a query or a listing
  it is 1 while there is a node above the neighbours on the stack (`Single`). In a
  dump the stack is deeper, and the invariant says where in the listing of
  neighbours it stands (`Dumping`): `Above` them, with the counter at 1; at the
  folder of one, before (`sub = 2`) or after its fields (`sub = 5`), `AtFolder`; or at
  these fields (`sub` in 2 .. 4), `AtFields`. `DumpStep` leads from each of them to the
  next. With two readers it fails, and the counter of `ps.c` leaves its table:
  that is what the run `DbQueryHang` shows.
* `LookupCorrect` and `HandlerCorrect`, from `SoundInv`. A node does not tell which
  field it is: its leaf is chosen by the global counters, and so the invariant
  relates the tokens consumed, the node and child of the loop of
  `db_find_node_by_path` and the counters. A search at the depth `d` either
  `Enters` a folder, to which the first `d` tokens lead, or has been given a child
  of it (`Passes`) whose name is compared next. `TopNext`, `PsNext`, `SaulNext` and
  `NetifNext` say that `get_next_child` leads from either to `Passes`, the lemmas
  `*Hit` that a name that matches leads down or to the `Leaf` of the path, and
  `LeafRead` that the getter called there reads what the path names.

  A folder of `netif.c` turns into its own leaves, counts on when it should have
  ended, and the counters of an earlier search are still there. So a search may
  meet neighbours on the level of the fields, or fields of neighbours on the level
  of neighbours (`Astray`), and below a leaf it goes on with what it finds
  (db_node.c:82). `ProperPath` says what keeps it from stopping there: a path ends
  at a leaf or above, and from the fields on no token can be taken for a name
  of another level. Paths of the published keys are proper unless a thread,
  device, interface or neighbour has the name of a field; the instances check
  that theirs are (`PathsAreProper`). That a search passes a neighbour only with
  a list to walk comes from `AddressInv`, which says of the list, and of what an
  insertion has linked its node to, that there are only addresses in it.

  `Alone(t)` is what both theorems need of the schedule: either there is no other
  reader, or `t` is the handler. The shell does not run while the handler does, so
  nothing changes the counters between two of its steps, and the invariant asks
  nothing of the counters it starts with.
* `NumberCorrect`, from `NumberInv`. That the number is at most the length of the list
  is not inductive: the counting of netif.c adds one to the number before it
  records the neighbour, and a neighbour already recorded makes the list no
  longer. `Tally` relates both to the neighbours met since the counting began: the
  number is at most how many they are, unless one was met twice, and all of them
  are on the list, but for the one the task is about to enter (`Entering`), unless
  an insertion was lost. `TallyStarts`, `TallyCounts` and `TallyInserts` are the
  steps that change it; the last is where the second write of an insertion
  replaces the list by its node and what that was linked to. Nothing is assumed
  of the neighbour cache: its entries may move. Elsewhere the number
  goes down by one at the fields of a neighbour, which could take it from 0 to 255;
  `QosCounted` and `DumpCounted` say that it is positive there. With two readers
  the handler's part of that is stable (`HandlerInv`) where the shell does not
  enter the network branch, which is `Stays`; the shell's insertions are steps of
  it like all others.
* `FaultCorrect`, from `SafeInv`. All nodes on the stack but the top stand for a
  thread, device or interface that is there (`Decent`), and the top can be named
  and read (`Live`). A call of `get_next_child` that only moves a counter on leaves
  the child variable of its caller as it is, and the caller then uses what was
  in it. `Keeps` says that wherever the next call would do so (`Leaves`) the child is a
  node of the level enumerated. That is why a lookup or a dump may carry the
  child from call to call. A dump comes back to a folder above after it
  has listed another one with the same counters: no node between the root and
  the folder listed would do so (`Stands`), and as `_field_id` of netif.c
  only goes up below the branches, none does when the dump returns (`LeavesLater`).
  The type a value is read with is the node's (`Getting`), and so the assertions of
  the getters hold. The walk of the list does not leave it by `NumberInv`, as long as
  `CountKept`: if the one reader is the handler, it may lose what it has inserted to a
  measurement of the main thread.
* `FieldsCorrect` and `RetryCorrect`, from `FindInv`. A lookup fails when the
  enumeration has no more children; that a key is found needs the reverse of
  `SoundInv`, that what is looked for is still to come. For each key of a dynamic
  subtree `Finds` says so level by level: the lookup has come to no branch and no
  entry behind the folder of the subtree (`ToFolder`), in the folder to no item
  behind the one named (`ToItem`), or below an item of that name to no field behind
  the field (`ToField`). The three subtrees differ only in their nodes and in their
  counter, and the lemmas are about all of them (`DynamicNext`, `ItemNext`,
  `FieldFirst`, `FieldNext`).

  On the level of the fields everything depends on where the counter stands on
  entering. That of netif.c is set to 0 whenever the network branch hands over
  to it, and so its fields are always found. That of ps.c is not, and a lookup that
  enters behind its field misses it. But it then runs the counter to its end,
  which sets it to 0: so `Finds` keeps that a key of ps.c is not found only
  where the counter is at 0 afterwards, and that a repetition, which starts there,
  finds it (`Reset`). Nothing may move the counter between the two attempts,
  which is why `RetryCorrect` is about one reader; `FieldsCorrect` also holds when
  the handler looks up fields in the middle of a call of the shell outside the
  branch, since then the shell has not entered it. `AskedInv`, that a task's path
  is one of its requests, is where `Outside` comes in: the shell's own paths are not
  in the network branch. The static entries are left to `StaticAnswered`.

### DcaFs

* `FsTypeCorrect`, from `FsInv`: the shape of the locals of a command (`Locals`), that
  of the task in a call of the file system (`Calls`), and, between two commands of
  the file system, the `Shape` of `DbQueryProofs` for the shell's other ones. A call
  of `_tree_r` has opened a directory before it calls itself, and so every frame
  but the last has a node in it that a lookup has found (`Frames`); that is what
  `GoOn` needs, which reads the directory of the frame below on. `dcafs_readdir`
  goes on with what the last call has left on the stack if the node writes no
  child: `Locals` keeps that this is a node, or one nobody has written, for which
  the name is a fault. `InsertInv` keeps that an insertion under way is that of a
  measurement between two commands or of a counting.
* `CatCorrect`, from `CatInv`. Every piece is printed by a call of its own, which
  asks for the type, checks it and reads, so that it has to be shown that all of
  them read the same datum, `FileDatum`. Reading moves no counter but
  `_num_neighbours`, and that only while neighbours are counted (`SameGetters`,
  `CountingGetters`): then the type and the datum do not depend on it. A file that
  is a directory gives an error each time, and nothing is printed.
* `FilesCorrect` and `CatFilesCorrect`, from `FilesInv`. A lookup of the file system is
  one of `db_find_node_by_path`, and the lemmas on it of `LookupProofs` say that it
  goes along its path (`FindsPath`) and that the node found is the one the path
  names, as long as the counters are what they were then (`Names`). From `open` to the
  end of the last `read` they are, but for `_num_neighbours` (`NamesStay`), and so the
  value read is that of the path (`FileReads`). What `readdir` and the lookups of other
  entries do to the counters before does not matter, since every lookup starts at
  the root: for this reason the invariant says nothing of the directories. It holds
  for proper paths only (`IsProper`, that is `ProperPath`), and does not say that
  `open` finds a file where `stat` did: tree may print that a read has failed. cat
  does not print in that case, and its path is the one it was given, and so for cat
  this is `FileSound`.

The hypothesis of all is what the runs have, too: the commands of the shell are
not interrupted. A GET request between two pieces moves the counters, and the
next piece is one of another value.

### Induction

The induction theorems of the library have an operator as a parameter, which
none of the provers can instantiate. `LinkedListProofs` states the principle for a set
of numbers instead and derives it from a theorem on well-founded relations that
has no such parameter; `ChainIs` and the lemmas on the first position in a list
use it.

### Only model-checked

* Liveness: `CommandsEnd` of both modules, `HandlerEnds`, `FsEnds`, `MeasurementsEnd`,
  `ServersReturn`. Fairness and ENABLED are out of the prover's reach.
* `DumpExact`, which needs an invariant that relates the stack of a dump and the
  counters to what it has printed so far.
* `RetrySucceeds` with two readers in different subtrees (`DbQueryIsolated`).
* `NoFault` while threads exit or with both readers. The code does fault in both
  cases, with constants other than those of the instances: a thread that exits
  between its enumeration and the reading of its name has no name any more, and
  a GET for a field of an interface, between the shell's reading of the type of
  such a field and the assertion in the getter, moves `_field_id` on, so that the
  assertion fails. Nor without `CountKept`: with three neighbours the walk of the
  list then follows NULL.
* `NamesFound` and `TreeComplete` of `DcaFs`, and of `FileSound` for tree that the
  paths it builds are proper, and that none of its reads fails. All three are about
  what `readdir` names, after the lookups of the entry before have moved the
  counters, and sometimes from what these lookups have left on the stack: they
  need an invariant that ties the path buffer and the open directories to the
  counters, level by level, as `DumpExact` does for the stack of a dump.

## 6. Not modelled

* `fs.c`: lseek and fstat, which nobody calls, and the operations that do nothing
  or only return an error. The interruption of `tree` and `cat` by the handler.
* `examples/`: `mock_saul`, and the `main` functions but for what they start. The
  queue size of the main thread is `QueueSize`.
* `udp_throughput.c`: clock values and the quotient itself. The failure of
  `sock_udp_create` in the server, which ends a thread that was never running.
* `coap.c`: the encoding of links and values and the lengths of its buffers.
* The static getters and the initialisation: no state of their own.
* A path that goes on below a leaf, and a thread whose name begins with
  another's, are in the code of the model but not in the instances.
* A failed `malloc`.

## 7. Plan

Done: `DbNode`, `DbQuery` with preemption inside its calls, `DcaFs`, `LinkedList`,
`Latency`, `NeighborTable`, `NeighborList`, `Throughput`; all safety properties of
`Latency`, `NeighborList` and `Throughput` as theorems, and of `DbQuery` the type
invariant, `StaticAnswered`, `CountersInTables`, `LookupSound`, `HandlerSound`,
`NumWithinList`, `NoFault`, `NetifFieldsFound` and `RetrySucceeds`, and of `DcaFs`
`FsTypeOK`, `CatWhole` and, for cat, `FileSound`. Next, in this order:

1. `DbQuery` for one reader: `DumpExact`.
2. `DcaFs`: `NamesFound`, and `FileSound` for tree.
3. `OthersKept` with the condition on the queue replaced by one on the constants,
   by counting the replies under way.
