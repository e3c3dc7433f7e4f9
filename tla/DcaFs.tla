-------------------------------- MODULE DcaFs --------------------------------
(***************************************************************************)
(* The database as a file system: the operations of dcafs (fs.c) and the   *)
(* two commands of the vfs example that use them, tree and cat             *)
(* (examples/vfs/main.c).                                                  *)
(*                                                                         *)
(* stat, open and opendir find their node by its path, with the steps of   *)
(* DbQuery; an open file or directory is a copy of that node.  tree walks  *)
(* the tree by path: between two calls of readdir for a directory it looks *)
(* up every entry below from the root, and every lookup enumerates with    *)
(* the same global counters as readdir.                                    *)
(*                                                                         *)
(* fs holds the locals of the command.  fs.pc is the call of the file      *)
(* system in progress; task[Shell] executes it.                            *)
(***************************************************************************)
EXTENDS DbQuery

CONSTANTS
    FsRequests,    \* the command lines tree, tree -p and cat
    Builds,        \* whether newlib is there: cat has a version for each case
    Size           \* bound: a value is cut into this many pieces by cat

ASSUME FsAssumption ==
    /\ \A q \in FsRequests : /\ DOMAIN q = {"cmd", "print", "path"}
                             /\ q.cmd \in {"tree", "cat"}
                             /\ q.print \in BOOLEAN
    /\ Builds \subseteq BOOLEAN
    /\ Size \in Nat \ {0}

VARIABLE fs

fsVars == <<vars, fs>>

\* path is tree_path_buf without the mount point; a frame is a call of
\* _tree_r: the path before its own name and the directory it has open; stale
\* is the node the last call has left on the stack; pos is that of the file.
FsIdle == [pc |-> "idle", cmd |-> "tree", print |-> FALSE, newlib |-> FALSE,
           target |-> <<>>, path |-> <<>>, frames |-> <<>>, file |-> NullNode,
           pos |-> 0, stale |-> Uninitialised, start |-> 0, out |-> <<>>,
           res |-> "none"]

FsInit == Init /\ fs = FsIdle

-----------------------------------------------------------------------------
(* Calls of the file system.                                               *)

\* stat, open and opendir: db_find_node_by_path on its way.
FindNode(path) ==
    LET r == [Idle EXCEPT !.cmd = "vfs", !.path = path, !.todo = path]
    IN  Update(Shell, IF path = <<>> THEN FoundNode(r, Root)
                      ELSE [r EXCEPT !.pc = "lookup",
                                     !.stack = <<Root, Uninitialised>>])

\* dcafs_read switches on the type of the file's node as value_to_str does.
ReadFile(node, path) ==
    Update(Shell, [Idle EXCEPT !.cmd = "vfs", !.path = path, !.pc = "print",
                               !.stack = <<node>>])

\* dcafs_readdir: the next child of the directory, in a node of its own.
ReadDir(dir) ==
    Update(Shell, [Idle EXCEPT !.cmd = "vfs", !.pc = "readdir",
                               !.stack = <<dir, Uninitialised>>])

NoCall == Update(Shell, Idle)

In(pc) == CanRun(Shell) /\ fs.pc = pc

Found   == task[Shell].pc = "found"
Missing == task[Shell].pc = "idle"
Node1   == Last(task[Shell].stack)

KeepFs == UNCHANGED <<db, env, hist, count, halted>>

\* The command returns.
FsReturns(f, res) ==
    fs' = [FsIdle EXCEPT !.cmd = f.cmd, !.print = f.print, !.target = f.target,
                         !.newlib = f.newlib, !.start = f.start,
                         !.path = f.path, !.out = f.out, !.res = res]

FsRequest ==
    /\ In("idle") /\ task[Shell].pc = "idle" /\ ins[Shell].step = "none"
    /\ \E q \in FsRequests, newlib \in Builds :
         /\ fs' = [FsIdle EXCEPT !.pc = IF q.cmd = "tree" THEN "root" ELSE "open",
                        !.cmd = q.cmd, !.print = q.print, !.target = q.path,
                        !.newlib = newlib, !.start = cursor.ps]
         /\ FindNode(q.path)
    /\ KeepFs

-----------------------------------------------------------------------------
(* tree.                                                                   *)

\* _tree_r is called for an entry: its name is appended to the path.
Enter(f, names) ==
    /\ fs' = [f EXCEPT !.pc = "stat", !.path = @ \o names,
                       !.frames = Append(@, [base |-> f.path, dir |-> NullNode])]
    /\ FindNode(f.path \o names)

\* _tree_r returns 0 or more: the caller reads its directory on.
GoOn(f) ==
    LET rest == Front(f.frames)
    IN  IF rest = <<>> THEN FsReturns(f, "done") /\ NoCall
        ELSE /\ fs' = [f EXCEPT !.pc = "readdir", !.frames = rest]
             /\ ReadDir(Last(rest).dir)

\* Before it returns 0 it removes its name from the path.  Mutant: it does not.
LeaveKeepsPath(f) == GoOn(f)
LeaveEntry(f) == GoOn([f EXCEPT !.path = Last(f.frames).base])

\* The command tree has asked for its argument.
TreeRoot ==
    /\ In("root")
    /\ \/ Found /\ GetType(Node1) = "inner" /\ Enter(fs, fs.target)
       \/ /\ (Found /\ GetType(Node1) # "inner") \/ Missing
          /\ FsReturns(fs, "refused") /\ NoCall
    /\ KeepFs

\* stat: a file's contents are printed with -p, a directory is opened, and a
\* path that is not there ends the whole command.
TreeStat ==
    /\ In("stat")
    /\ \/ /\ Found /\ GetType(Node1) = "inner"
          /\ fs' = [fs EXCEPT !.pc = "opendir", !.stale = Node1]
          /\ FindNode(fs.path)
       \/ /\ Found /\ GetType(Node1) # "inner" /\ fs.print
          /\ fs' = [fs EXCEPT !.pc = "open", !.stale = Node1]
          /\ FindNode(fs.path)
       \/ /\ Found /\ GetType(Node1) # "inner" /\ ~fs.print
          /\ LeaveEntry([fs EXCEPT !.stale = Node1])
       \/ Missing /\ FsReturns(fs, "failed") /\ NoCall
    /\ KeepFs

\* open: a file that is not there any more leaves its name on the path.
TreeOpen ==
    /\ In("open") /\ fs.cmd = "tree"
    /\ \/ /\ Found
          /\ fs' = [fs EXCEPT !.pc = "read", !.stale = Node1, !.file = Node1]
          /\ ReadFile(Node1, fs.path)
       \/ Missing /\ GoOn(fs)
    /\ KeepFs

\* What read() has copied of the value: its piece at the position of the file.
Piece(f) == [path |-> f.path, pos |-> f.pos, datum |-> Last(task[Shell].res)]

TreeRead ==
    /\ In("read") /\ fs.cmd = "tree" /\ task[Shell].pc = "idle"
    /\ LeaveEntry([fs EXCEPT !.out = Append(@, Piece(fs)), !.file = NullNode])
    /\ KeepFs

TreeOpendir ==
    /\ In("opendir")
    /\ \/ /\ Found
          /\ fs' = [fs EXCEPT !.pc = "readdir", !.stale = Node1,
                              !.frames[Len(fs.frames)].dir = Node1]
          /\ ReadDir(Node1)
       \/ Missing /\ FsReturns(fs, "failed") /\ NoCall
    /\ KeepFs

\* readdir: the child, or the end of the directory.  A child that the node
\* does not write is whatever the stack holds there: what the last call has
\* left, or something that is no node at all.
TreeReaddir ==
    /\ In("readdir") /\ task[Shell].pc = "readdir"
    /\ \E s \in Outcomes(Shell) :
        LET f == [fs EXCEPT !.frames[Len(fs.frames)].dir = s.node]
            child == IF s.child = Uninitialised THEN fs.stale ELSE s.child
        IN  /\ cursor' = s.cursor
            /\ IF child = NullNode THEN LeaveEntry(f)
               ELSE /\ fs' = [f EXCEPT !.stale = child]
                    /\ Update(Shell, [task[Shell] EXCEPT
                            !.pc = "dirname", !.stack = <<child>>, !.seen = <<>>])
    /\ UNCHANGED <<list, ins, env, hist, count, halted>>

TreeName ==
    /\ In("readdir") /\ task[Shell].pc = "dirname"
    /\ ~NameFaults(Node1)
    /\ Enter(fs, <<GetName(Node1, "junk")>>)
    /\ KeepFs

FsFault ==
    /\ In("readdir")
    /\ \/ task[Shell].pc = "dirname" /\ NameFaults(Node1)
       \/ /\ task[Shell].pc = "readdir"
          /\ \E s \in Outcomes(Shell) : s.child = Uninitialised
    /\ Halt /\ UNCHANGED fs

-----------------------------------------------------------------------------
(* cat: one byte after the other, each with a read of its own.             *)

CatOpen ==
    /\ In("open") /\ fs.cmd = "cat"
    /\ \/ /\ Found
          /\ fs' = [fs EXCEPT !.pc = "read", !.file = Node1, !.path = fs.target]
          /\ ReadFile(Node1, fs.target)
       \/ Missing /\ FsReturns(fs, "refused") /\ NoCall
    /\ KeepFs

\* At the end of the value read returns 0.  Mutant: one piece too early.
AtEndEarly(f) == f.pos >= Size - 1
AtEnd(f) == f.pos >= Size

\* The loop goes on until read returns 0: an error does not end it, but
\* fread() of newlib turns an error into 0.  Mutant: it does not.
ReadStopsAtEnd(f, err) == ~err /\ AtEnd(f)
ReadStops(f, err) == IF err THEN f.newlib ELSE AtEnd(f)

CatRead ==
    /\ In("read") /\ fs.cmd = "cat" /\ task[Shell].pc = "idle"
    /\ LET err == task[Shell].res[1] = "error"
       IN  IF ReadStops(fs, err) THEN FsReturns(fs, "done") /\ NoCall
           ELSE /\ fs' = IF err THEN fs
                         ELSE [fs EXCEPT !.out = Append(@, Piece(fs)),
                                         !.pos = @ + 1]
                /\ ReadFile(fs.file, fs.path)
    /\ KeepFs

-----------------------------------------------------------------------------
FsStep ==
    \/ TreeRoot \/ TreeStat \/ TreeOpen \/ TreeRead \/ TreeOpendir
    \/ TreeReaddir \/ TreeName \/ FsFault
    \/ CatOpen \/ CatRead

FsNext ==
    \/ FsRequest \/ FsStep
    \/ \E t \in Tasks : /\ t = Shell => fs.pc = "idle"
                        /\ Request(t) /\ UNCHANGED fs
    \/ \E t \in Tasks : Call(t) /\ UNCHANGED fs
    \/ fs.pc = "idle" /\ Measure /\ UNCHANGED fs

FsSpec     == FsInit /\ [][FsNext]_fsVars
FsFairSpec == FsSpec /\ WF_fsVars(FsStep)
                     /\ \A t \in Tasks : WF_fsVars(Call(t) /\ UNCHANGED fs)

-----------------------------------------------------------------------------
(* Properties.                                                             *)

\* Type invariant.
FsTypeOK ==
    /\ fs.pc \in {"idle", "root", "stat", "open", "read", "opendir", "readdir"}
    /\ fs.res \in {"none", "done", "failed", "refused"}
    /\ fs.pos \in 0 .. Size
    /\ {fs.file, fs.stale} \subseteq NodeSet
    /\ \A i \in DOMAIN fs.frames : fs.frames[i].dir \in NodeSet
    /\ TypeOK

\* Below a path only the value of that path is printed: although a file is
\* looked up twice, from the root, between two calls of readdir, the global
\* counters are back at the entry readdir has named whenever it is read
\* (fs.c:103-292 with ps.c and netif.c).
FileSound ==
    \A i \in DOMAIN fs.out : MatchesPath(fs.out[i].path, fs.out[i].datum)

\* tree follows the folders of the database and nothing else. It never breaks off
\* because stat or opendir does not find what readdir has just named (main.c:102-108
\* and 134-140), and never nests deeper than a neighbour's QoS field does, seven
\* calls of _tree_r with the one for "/", although it calls itself for whatever a
\* lookup says is a folder, and the type of a node of netif.c is in the counters
\* that all lookups move.
NamesFound == fs.res # "failed" /\ Len(fs.frames) <= 7

CleanTree == fs.cmd = "tree" /\ fs.print /\ fs.res = "done" /\ fs.start = 0

\* A tree -p that ends, with the counter of ps.c at 0 when it started, has
\* printed every datum below its argument exactly once, although the lookups
\* of its entries move, and reset, the counters its readdirs go by.
TreeComplete ==
    CleanTree =>
        LET keys == {k \in Keys : IsPrefix(fs.target, k)}
        IN  /\ {fs.out[i].datum : i \in DOMAIN fs.out} = keys
            /\ Len(fs.out) = Cardinality(keys)

\* cat prints every piece of one value, in order and none twice: each byte is
\* read with a getter of its own, and all of them get the same datum
\* (main.c:77-79, fs.c:207-251).
CatWhole ==
    fs.cmd = "cat" /\ fs.res = "done" /\ fs.out # <<>> =>
        /\ [i \in DOMAIN fs.out |-> fs.out[i].pos] = [i \in 1 .. Size |-> i - 1]
        /\ \A i \in DOMAIN fs.out : fs.out[i].datum = fs.out[1].datum

\* Every command ends, or stops the board; but for cat of a directory without
\* newlib, which takes the error of every read for a byte (main.c:77).
FsEnds ==
    fs.pc # "idle" ~> \/ fs.pc = "idle" \/ halted
                      \/ /\ fs.cmd = "cat" /\ ~fs.newlib
                         /\ task[Shell].res[1] = "error"
=============================================================================
