------------------------------ MODULE FsProofs ------------------------------
(***************************************************************************)
(* Theorems about DcaFs, for every board and every set of commands, where  *)
(* the handler does not interrupt them: what tree and cat keep about the   *)
(* nodes that stand for their open files and directories, that cat prints  *)
(* one value, whole, and that what they print is the value of its path.    *)
(***************************************************************************)
EXTENDS DcaFs, LookupProofs

-----------------------------------------------------------------------------
(* The shape of the locals of a command of the file system, and of the     *)
(* task that executes its calls.                                           *)

FsFields == {"pc", "cmd", "print", "newlib", "target", "path", "frames", "file",
             "pos", "stale", "start", "out", "res"}

\* The task at a call of the file system.
Calls(r) ==
    /\ DOMAIN r = TaskFields /\ r.cmd = "vfs" /\ r.seen = <<>>
    /\ \/ r.pc = "idle" /\ r.stack = <<>>
       \/ /\ r.pc \in {"lookup", "match"}
          /\ \E n \in WrittenNodes, c \in WrittenNodes \cup {Uninitialised} :
                r.stack = <<n, c>>
       \/ r.pc \in {"found"} \cup Reading /\ \E n \in WrittenNodes : r.stack = <<n>>
       \/ r.pc = "readdir" /\ \E n \in WrittenNodes : r.stack = <<n, Uninitialised>>
       \/ /\ r.pc = "dirname"
          /\ \E n \in WrittenNodes \cup {Uninitialised} : r.stack = <<n>>

\* The directories that calls of _tree_r have open: that of the last one is not
\* open before opendir.
Frames(f) ==
    LET n == Len(f.frames)
    IN  /\ f.frames \in Seq(ToSet(f.frames))
        /\ \A i \in 1 .. n : DOMAIN f.frames[i] = {"base", "dir"}
        /\ \A i \in 1 .. n - 1 : f.frames[i].dir \in WrittenNodes
        /\ n > 0 => f.frames[n].dir \in WrittenNodes \cup {NullNode}
        /\ f.pc = "readdir" => f.frames[n].dir \in WrittenNodes
        /\ f.pc = "root" => n = 0
        /\ f.cmd = "tree" /\ f.pc \in {"stat", "open", "read", "opendir", "readdir"}
              => n > 0

Locals(f) ==
    /\ DOMAIN f = FsFields
    /\ f.pc \in {"idle", "root", "stat", "open", "read", "opendir", "readdir"}
    /\ f.cmd \in {"tree", "cat"}
    /\ f.cmd = "cat" => f.pc \in {"idle", "open", "read"}
    /\ f.res \in {"none", "done", "failed", "refused"}
    /\ f.pc # "idle" => f.res = "none"
    /\ f.pos \in 0 .. Size
    /\ f.stale \in WrittenNodes \cup {Uninitialised}
    /\ f.file \in WrittenNodes \cup {NullNode}
    /\ Frames(f)

\* No handler runs; while a command of the file system does, the shell has no
\* other.
FsInv ==
    /\ cursor \in CursorSet
    /\ threads \subseteq 1 .. PidLast
    /\ nib \in NibStates
    /\ halted \in BOOLEAN
    /\ DOMAIN task = Tasks
    /\ task[Coap] = Idle
    /\ fs.pc = "idle" => Shape(task[Shell])
    /\ fs.pc # "idle" => Calls(task[Shell])
    /\ Locals(fs)
    /\ fs.pc = "read" => fs.file \in WrittenNodes

\* No insertion goes on while a command of the file system runs, but that of a
\* neighbour it counts.
InsertInv ==
    /\ Settled /\ ins[Coap].step = "none"
    /\ fs.pc # "idle" /\ ins[Shell].step # "none" => task[Shell].pc = "add"

-----------------------------------------------------------------------------
(* The calls.                                                              *)

\* The locals before the first command.
LEMMA FsIdleLocals ==
    Locals(FsIdle)
  <1>1. <<>> \in Seq(ToSet(<<>>)) /\ Len(<<>>) = 0
    OBVIOUS
  <1>2. 0 \in 0 .. Size
    BY FsAssumption
  <1>3. QED  BY <1>1, <1>2 DEF Locals, Frames, FsIdle, FsFields

\* The root, where every lookup starts.
LEMMA RootWritten ==
    Root \in WrittenNodes
  BY Constructed, Index DEF Root

\* A step of the shell is a step of its record.
LEMMA ShellUpdated ==
    ASSUME DOMAIN task = Tasks, NEW r, Update(Shell, r)
    PROVE  DOMAIN task' = Tasks /\ task'[Shell] = r /\ task'[Coap] = task[Coap]
  BY QueryAssumption DEF Update, Tasks

\* stat, open and opendir.
LEMMA FindNodeCalls ==
    ASSUME DOMAIN task = Tasks, NEW path, FindNode(path)
    PROVE  /\ DOMAIN task' = Tasks /\ task'[Coap] = task[Coap]
           /\ Calls(task'[Shell]) /\ task'[Shell].pc \in {"lookup", "found"}
  <1>1. PICK r : r = [Idle EXCEPT !.cmd = "vfs", !.path = path, !.todo = path]
    OBVIOUS
  <1>2. DOMAIN r = TaskFields /\ r.cmd = "vfs" /\ r.seen = <<>>
    BY <1>1 DEF Idle, TaskFields
  <1>3. PICK q : /\ Update(Shell, q)
                 /\ q = IF path = <<>> THEN FoundNode(r, Root)
                        ELSE [r EXCEPT !.pc = "lookup",
                                       !.stack = <<Root, Uninitialised>>]
    BY <1>1 DEF FindNode
  <1>4. CASE path = <<>>
    <2>1. /\ DOMAIN q = TaskFields /\ q.cmd = "vfs" /\ q.seen = <<>>
          /\ q.pc = "found" /\ q.stack = <<Root>>
      BY <1>2, <1>3, <1>4 DEF FoundNode, TaskFields
    <2>2. Calls(q)
      BY <2>1, RootWritten DEF Calls
    <2>3. QED  BY <1>3, <2>1, <2>2, ShellUpdated
  <1>5. CASE path # <<>>
    <2>1. /\ DOMAIN q = TaskFields /\ q.cmd = "vfs" /\ q.seen = <<>>
          /\ q.pc = "lookup" /\ q.stack = <<Root, Uninitialised>>
      BY <1>2, <1>3, <1>5 DEF TaskFields
    <2>2. Calls(q)
      BY <2>1, RootWritten DEF Calls
    <2>3. QED  BY <1>3, <2>1, <2>2, ShellUpdated
  <1>6. QED  BY <1>4, <1>5

\* read.
LEMMA ReadFileCalls ==
    ASSUME DOMAIN task = Tasks, NEW n \in WrittenNodes, NEW path, ReadFile(n, path)
    PROVE  /\ DOMAIN task' = Tasks /\ task'[Coap] = task[Coap]
           /\ Calls(task'[Shell])
           /\ task'[Shell].pc = "print" /\ task'[Shell].stack = <<n>>
  <1>1. PICK q : /\ Update(Shell, q)
                 /\ q = [Idle EXCEPT !.cmd = "vfs", !.path = path, !.pc = "print",
                                     !.stack = <<n>>]
    BY DEF ReadFile
  <1>2. /\ DOMAIN q = TaskFields /\ q.cmd = "vfs" /\ q.seen = <<>>
        /\ q.pc = "print" /\ q.stack = <<n>>
    BY <1>1 DEF Idle, TaskFields
  <1>3. Calls(q)
    BY <1>2 DEF Calls, Reading
  <1>4. QED  BY <1>1, <1>2, <1>3, ShellUpdated

\* readdir.
LEMMA ReadDirCalls ==
    ASSUME DOMAIN task = Tasks, NEW n \in WrittenNodes, ReadDir(n)
    PROVE  /\ DOMAIN task' = Tasks /\ task'[Coap] = task[Coap]
           /\ Calls(task'[Shell])
  <1>1. PICK q : /\ Update(Shell, q)
                 /\ q = [Idle EXCEPT !.cmd = "vfs", !.pc = "readdir",
                                     !.stack = <<n, Uninitialised>>]
    BY DEF ReadDir
  <1>2. /\ DOMAIN q = TaskFields /\ q.cmd = "vfs" /\ q.seen = <<>>
        /\ q.pc = "readdir" /\ q.stack = <<n, Uninitialised>>
    BY <1>1 DEF Idle, TaskFields
  <1>3. Calls(q)
    BY <1>2 DEF Calls
  <1>4. QED  BY <1>1, <1>3, ShellUpdated

\* What the locals become.
LEMMA SameLocals ==
    ASSUME NEW f, Locals(f), NEW g, DOMAIN g = FsFields,
           g.pc = f.pc, g.cmd = f.cmd, g.res = f.res, g.frames = f.frames,
           g.pos \in 0 .. Size, g.stale \in WrittenNodes \cup {Uninitialised},
           g.file \in WrittenNodes \cup {NullNode}
    PROVE  Locals(g)
  <1>1. Frames(g)
    BY DEF Locals, Frames
  <1>2. QED  BY <1>1 DEF Locals

\* The command has returned.
LEMMA ReturnsLocals ==
    ASSUME NEW f, Locals(f), NEW res \in {"done", "failed", "refused"},
           FsReturns(f, res)
    PROVE  Locals(fs') /\ fs'.pc = "idle"
  <1>1. PICK g : g = fs'
    OBVIOUS
  <1>2. /\ DOMAIN g = FsFields /\ g.pc = "idle" /\ g.cmd = f.cmd /\ g.res = res
        /\ g.frames = <<>> /\ g.pos = 0 /\ g.stale = Uninitialised
        /\ g.file = NullNode
    BY <1>1 DEF FsReturns, FsIdle, FsFields
  <1>3. <<>> \in Seq(ToSet(<<>>)) /\ Len(<<>>) = 0
    OBVIOUS
  <1>4. Frames(g)
    BY <1>2, <1>3 DEF Frames
  <1>5. 0 \in 0 .. Size
    BY FsAssumption
  <1>6. QED  BY <1>1, <1>2, <1>4, <1>5 DEF Locals

\* A sequence is one of its elements.
LEMMA OfItsElements ==
    ASSUME NEW S, NEW s \in Seq(S)
    PROVE  s \in Seq(ToSet(s))
  <1>1. \A i \in 1 .. Len(s) : s[i] \in ToSet(s)
    BY DEF ToSet
  <1>2. QED  BY <1>1

\* _tree_r is called for a name: its directory is not open yet.
LEMMA EnterLocals ==
    ASSUME NEW f, Locals(f), f.cmd = "tree", f.pc \in {"root", "readdir"},
           DOMAIN task = Tasks, NEW names, Enter(f, names)
    PROVE  /\ DOMAIN task' = Tasks /\ task'[Coap] = task[Coap]
           /\ Calls(task'[Shell]) /\ Locals(fs') /\ fs'.pc = "stat"
  <1>1. PICK g, x : /\ g = fs' /\ x = [base |-> f.path, dir |-> NullNode]
    OBVIOUS
  <1>2. PICK st : st = f.frames
    OBVIOUS
  <1>3. st \in Seq(ToSet(st))
    BY <1>2 DEF Locals, Frames
  <1>4. PICK n \in Nat : n = Len(st)
    BY <1>3
  <1>5. DOMAIN f = FsFields
    BY DEF Locals
  <1>6. /\ DOMAIN g = FsFields /\ g.pc = "stat" /\ g.cmd = f.cmd /\ g.res = f.res
        /\ g.frames = Append(st, x) /\ g.pos = f.pos /\ g.stale = f.stale
        /\ g.file = f.file
    BY <1>1, <1>2, <1>3, <1>4, <1>5 DEF Enter, FsFields
  <1>7. Append(st, x) \in Seq(ToSet(st) \cup {x})
    BY <1>2, <1>3, <1>4
  <1>8. g.frames \in Seq(ToSet(g.frames))
    BY <1>6, <1>7, OfItsElements
  <1>9. /\ Len(g.frames) = n + 1 /\ g.frames[n + 1] = x
        /\ \A i \in 1 .. n : g.frames[i] = st[i]
    BY <1>2, <1>3, <1>4, <1>6
  <1>10. /\ \A i \in 1 .. n : DOMAIN st[i] = {"base", "dir"}
        /\ \A i \in 1 .. n : st[i].dir \in WrittenNodes
    <2>1. /\ \A i \in 1 .. n : DOMAIN st[i] = {"base", "dir"}
          /\ \A i \in 1 .. n - 1 : st[i].dir \in WrittenNodes
      BY <1>2, <1>3, <1>4 DEF Locals, Frames
    <2>2. n = 0 \/ st[n].dir \in WrittenNodes
      BY <1>2, <1>3, <1>4 DEF Locals, Frames
    <2>3. QED  BY <2>1, <2>2
  <1>11. DOMAIN x = {"base", "dir"} /\ x.dir = NullNode
    BY <1>1
  <1>12. Frames(g)
    BY <1>6, <1>8, <1>9, <1>10, <1>11 DEF Frames
  <1>13. Locals(g)
    BY <1>6, <1>12 DEF Locals
  <1>14. FindNode(f.path \o names)
    BY DEF Enter
  <1>15. QED  BY <1>1, <1>6, <1>13, <1>14, FindNodeCalls

\* _tree_r has returned.
LEMMA GoOnLocals ==
    ASSUME NEW f, Locals(f), f.cmd = "tree", Len(f.frames) > 0, f.pc # "idle",
           DOMAIN task = Tasks, GoOn(f)
    PROVE  /\ DOMAIN task' = Tasks /\ task'[Coap] = task[Coap]
           /\ Locals(fs') /\ fs'.pc \in {"idle", "readdir"}
           /\ fs'.pc = "idle" => Shape(task'[Shell])
           /\ fs'.pc # "idle" => Calls(task'[Shell])
  <1>1. PICK rest : rest = Front(f.frames)
    OBVIOUS
  <1>2. PICK st : st = f.frames
    OBVIOUS
  <1>3. st \in Seq(ToSet(st)) /\ Len(st) > 0
    BY <1>2 DEF Locals, Frames
  <1>4. PICK n \in Nat : n = Len(st)
    BY <1>3
  <1>5. /\ rest \in Seq(ToSet(st)) /\ Len(rest) = n - 1
        /\ \A i \in 1 .. n - 1 : rest[i] = st[i]
    BY <1>1, <1>2, <1>3, <1>4 DEF Front
  <1>6. CASE rest = <<>>
    <2>1. FsReturns(f, "done") /\ NoCall
      BY <1>1, <1>6 DEF GoOn
    <2>2. Shape(task'[Shell]) /\ DOMAIN task' = Tasks /\ task'[Coap] = task[Coap]
      BY <2>1, IdleShape, ShellUpdated DEF NoCall
    <2>3. QED  BY <2>1, <2>2, ReturnsLocals
  <1>7. CASE rest # <<>>
    <2>1. /\ fs' = [f EXCEPT !.pc = "readdir", !.frames = rest]
          /\ ReadDir(Last(rest).dir)
      BY <1>1, <1>7 DEF GoOn
    <2>2. n - 1 > 0
      BY <1>2, <1>3, <1>4, <1>5, <1>7
    <2>3. Last(rest) = st[n - 1]
      BY <1>5, <2>2 DEF Last
    <2>4. st[n - 1].dir \in WrittenNodes
      BY <1>2, <1>3, <1>4, <2>2 DEF Locals, Frames
    <2>5. /\ Calls(task'[Shell]) /\ DOMAIN task' = Tasks
          /\ task'[Coap] = task[Coap]
      BY <2>1, <2>3, <2>4, ReadDirCalls
    <2>6. PICK g : g = fs'
      OBVIOUS
    <2>7. DOMAIN f = FsFields
      BY DEF Locals
    <2>8. /\ DOMAIN g = FsFields /\ g.pc = "readdir" /\ g.cmd = f.cmd
          /\ g.res = f.res /\ g.frames = rest /\ g.pos = f.pos
          /\ g.stale = f.stale /\ g.file = f.file
      BY <2>1, <2>6, <2>7 DEF FsFields
    <2>9. rest \in Seq(ToSet(rest))
      BY <1>5, OfItsElements
    <2>10. /\ \A i \in 1 .. n - 1 : DOMAIN st[i] = {"base", "dir"}
           /\ \A i \in 1 .. n - 1 : st[i].dir \in WrittenNodes
      BY <1>2, <1>3, <1>4 DEF Locals, Frames
    <2>11. Frames(g)
      BY <1>5, <2>2, <2>8, <2>9, <2>10 DEF Frames
    <2>12. Locals(g)
      BY <2>8, <2>11 DEF Locals
    <2>13. QED  BY <2>5, <2>6, <2>8, <2>12
  <1>8. QED  BY <1>6, <1>7

\* _tree_r has removed its name from the path and returned.
LEMMA LeaveEntryLocals ==
    ASSUME NEW f, Locals(f), f.cmd = "tree", Len(f.frames) > 0, f.pc # "idle",
           DOMAIN task = Tasks, LeaveEntry(f)
    PROVE  /\ DOMAIN task' = Tasks /\ task'[Coap] = task[Coap]
           /\ Locals(fs') /\ fs'.pc \in {"idle", "readdir"}
           /\ fs'.pc = "idle" => Shape(task'[Shell])
           /\ fs'.pc # "idle" => Calls(task'[Shell])
  <1>1. PICK g : g = [f EXCEPT !.path = Last(f.frames).base]
    OBVIOUS
  <1>2. /\ DOMAIN g = FsFields /\ g.pc = f.pc /\ g.cmd = f.cmd /\ g.res = f.res
        /\ g.frames = f.frames /\ g.pos = f.pos /\ g.stale = f.stale
        /\ g.file = f.file
    BY <1>1 DEF Locals, FsFields
  <1>3. Locals(g)
    BY <1>2, SameLocals DEF Locals
  <1>4. GoOn(g)
    BY <1>1 DEF LeaveEntry
  <1>5. QED  BY <1>2, <1>3, <1>4, GoOnLocals

\* A node is found, an open file is read.
LEMMA PlaceLocals ==
    ASSUME NEW f, Locals(f), NEW g, DOMAIN g = FsFields,
           g.pc \in {"stat", "open", "read", "opendir"},
           g.cmd = f.cmd, g.frames = f.frames, f.pc # "idle", g.res = f.res,
           g.cmd = "cat" => g.pc \in {"open", "read"},
           g.cmd = "tree" => Len(g.frames) > 0,
           g.pos \in 0 .. Size, g.stale \in WrittenNodes \cup {Uninitialised},
           g.file \in WrittenNodes \cup {NullNode}
    PROVE  Locals(g)
  <1>1. Frames(g)
    BY DEF Locals, Frames
  <1>2. QED  BY <1>1 DEF Locals

\* The directory of the last call of _tree_r is open.
LEMMA DirLocals ==
    ASSUME NEW f, Locals(f), f.cmd = "tree", f.pc # "idle", Len(f.frames) > 0,
           NEW n \in WrittenNodes, NEW g, DOMAIN g = FsFields,
           g.frames = [f.frames EXCEPT ![Len(f.frames)].dir = n],
           g.pc \in {"opendir", "readdir"}, g.cmd = f.cmd, g.res = f.res,
           g.pos \in 0 .. Size, g.stale \in WrittenNodes \cup {Uninitialised},
           g.file \in WrittenNodes \cup {NullNode}
    PROVE  Locals(g) /\ Len(g.frames) > 0
  <1>1. PICK st : st = f.frames
    OBVIOUS
  <1>2. st \in Seq(ToSet(st))
    BY <1>1 DEF Locals, Frames
  <1>3. PICK k \in Nat : k = Len(st) /\ k > 0
    BY <1>1, <1>2
  <1>4. /\ \A i \in 1 .. k : DOMAIN st[i] = {"base", "dir"}
        /\ \A i \in 1 .. k - 1 : st[i].dir \in WrittenNodes
    BY <1>1, <1>3 DEF Locals, Frames
  <1>5. PICK x : x = [st[k] EXCEPT !.dir = n]
    OBVIOUS
  <1>6. DOMAIN x = {"base", "dir"} /\ x.dir = n
    BY <1>3, <1>4, <1>5
  <1>7. PICK sq : sq = [st EXCEPT ![k] = x]
    OBVIOUS
  <1>8. /\ sq \in Seq(ToSet(st) \cup {x}) /\ Len(sq) = k /\ sq[k] = x
        /\ \A i \in 1 .. k - 1 : sq[i] = st[i]
    BY <1>2, <1>3, <1>7
  <1>9. g.frames = sq
    BY <1>1, <1>3, <1>5, <1>7
  <1>10. sq \in Seq(ToSet(sq))
    BY <1>8, OfItsElements
  <1>11. Frames(g)
    <2>1. \A i \in 1 .. k : DOMAIN sq[i] = {"base", "dir"} /\ sq[i].dir \in WrittenNodes
      <3>1. \A i \in 1 .. k : i = k \/ i \in 1 .. k - 1
        BY <1>3
      <3>2. \A i \in 1 .. k - 1 : i \in 1 .. k
        BY <1>3
      <3>3. QED  BY <1>4, <1>6, <1>8, <3>1, <3>2
    <2>2. k \in 1 .. k /\ \A i \in 1 .. k - 1 : i \in 1 .. k
      BY <1>3
    <2>3. g.pc # "root"
      OBVIOUS
    <2>4. QED  BY <1>3, <1>8, <1>9, <1>10, <2>1, <2>2, <2>3 DEF Frames
  <1>12. QED  BY <1>3, <1>8, <1>9, <1>11 DEF Locals

-----------------------------------------------------------------------------
(* The shape is invariant.                                                 *)

\* Before the first command.
LEMMA FsInitInv ==
    ASSUME FsInit
    PROVE  FsInv /\ InsertInv
  <1>1. ShapeInv /\ fs = FsIdle /\ task[Coap] = Idle
    BY ShapeInit DEF FsInit, Init, Tasks
  <1>2. fs.pc = "idle"
    BY <1>1 DEF FsIdle
  <1>3. FsInv
    BY <1>1, <1>2, FsIdleLocals DEF FsInv, ShapeInv, Tasks
  <1>4. InsertInv
    BY <1>1, <1>2 DEF InsertInv, ShapeInv, FsInit, Init, NoInsertion, Tasks
  <1>5. QED  BY <1>3, <1>4

\* What a step has to keep: the handler's task, the threads and the caches
\* stay as they are.
LEMMA FsInvFrom ==
    ASSUME FsInv, cursor' \in CursorSet, UNCHANGED <<threads, nib>>,
           halted' \in BOOLEAN, DOMAIN task' = Tasks, task'[Coap] = task[Coap],
           Locals(fs'), fs'.pc = "idle" => Shape(task'[Shell]),
           fs'.pc # "idle" => Calls(task'[Shell]),
           fs'.pc = "read" => fs'.file \in WrittenNodes
    PROVE  FsInv'
  BY DEF FsInv

\* The node that has been found.
LEMMA NodeFound ==
    ASSUME Calls(task[Shell]), Found
    PROVE  Node1 \in WrittenNodes /\ task[Shell].stack = <<Node1>>
  <1>1. PICK n \in WrittenNodes : task[Shell].stack = <<n>>
    BY DEF Calls, Found, Reading
  <1>2. QED  BY <1>1 DEF Node1, Last

\* The command returns.
LEMMA ReturnsInv ==
    ASSUME FsInv, NEW res \in {"done", "failed", "refused"}, FsReturns(fs, res),
           NoCall, KeepFs
    PROVE  FsInv'
  <1>1. Locals(fs') /\ fs'.pc = "idle"
    BY ReturnsLocals DEF FsInv
  <1>2. DOMAIN task' = Tasks /\ task'[Shell] = Idle /\ task'[Coap] = task[Coap]
    BY ShellUpdated DEF FsInv, NoCall
  <1>3. cursor' = cursor /\ UNCHANGED <<threads, nib, halted>>
    BY DEF KeepFs, db, env
  <1>4. QED  BY <1>1, <1>2, <1>3, IdleShape, FsInvFrom DEF FsInv

\* It goes on to another call of its own level.
LEMMA PlaceInv ==
    ASSUME FsInv, Locals(fs'), fs'.pc # "idle", KeepFs,
           DOMAIN task' = Tasks, task'[Coap] = task[Coap], Calls(task'[Shell]),
           fs'.pc = "read" => fs'.file \in WrittenNodes
    PROVE  FsInv'
  <1>1. cursor' = cursor /\ UNCHANGED <<threads, nib, halted>>
    BY DEF KeepFs, db, env
  <1>2. QED  BY <1>1, FsInvFrom DEF FsInv

\* It goes on in the directory above.
LEMMA WentOnInv ==
    ASSUME FsInv, NEW f, Locals(f), f.cmd = "tree", Len(f.frames) > 0, f.pc # "idle",
           GoOn(f), KeepFs
    PROVE  FsInv'
  <1>1. cursor' = cursor /\ UNCHANGED <<threads, nib, halted>> /\ DOMAIN task = Tasks
    BY DEF KeepFs, db, env, FsInv
  <1>2. QED  BY <1>1, GoOnLocals, FsInvFrom DEF FsInv

\* It leaves the entry for the directory above.
LEMMA LeftInv ==
    ASSUME FsInv, NEW f, Locals(f), f.cmd = "tree", Len(f.frames) > 0, f.pc # "idle",
           LeaveEntry(f), KeepFs
    PROVE  FsInv'
  <1>1. cursor' = cursor /\ UNCHANGED <<threads, nib, halted>> /\ DOMAIN task = Tasks
    BY DEF KeepFs, db, env, FsInv
  <1>2. QED  BY <1>1, LeaveEntryLocals, FsInvFrom DEF FsInv

\* tree: the argument is a directory, or the command ends.
LEMMA TreeRootInv ==
    ASSUME FsInv, TreeRoot
    PROVE  FsInv'
  <1>1. fs.pc = "root" /\ Locals(fs) /\ fs.cmd = "tree" /\ DOMAIN task = Tasks
    BY DEF TreeRoot, In, FsInv, Locals
  <1>2. KeepFs
    BY DEF TreeRoot
  <1>3. CASE Enter(fs, fs.target)
    BY <1>1, <1>2, <1>3, EnterLocals, PlaceInv
  <1>4. CASE FsReturns(fs, "refused") /\ NoCall
    BY <1>2, <1>4, ReturnsInv
  <1>5. QED  BY <1>3, <1>4 DEF TreeRoot

\* stat: the node found is opened as a directory or as a file, or left.
LEMMA TreeStatInv ==
    ASSUME FsInv, TreeStat
    PROVE  FsInv'
  <1>1. /\ fs.pc = "stat" /\ Locals(fs) /\ fs.cmd = "tree" /\ DOMAIN task = Tasks
        /\ DOMAIN fs = FsFields /\ Calls(task[Shell]) /\ KeepFs
        /\ fs.pos \in 0 .. Size /\ fs.file \in WrittenNodes \cup {NullNode}
    BY DEF TreeStat, In, FsInv, Locals
  <1>2. Len(fs.frames) > 0
    BY <1>1 DEF Locals, Frames
  <1>3. CASE Missing
    BY <1>1, <1>3, ReturnsInv DEF TreeStat, Found, Missing
  <1>4. CASE Found
    <2>1. Node1 \in WrittenNodes
      BY <1>1, <1>4, NodeFound
    <2>2. ASSUME NEW pc \in {"opendir", "open"}, FindNode(fs.path),
                 fs' = [fs EXCEPT !.pc = pc, !.stale = Node1]
          PROVE  FsInv'
      <3>1. PICK g : g = fs'
        OBVIOUS
      <3>2. /\ DOMAIN g = FsFields /\ g.pc = pc /\ g.cmd = fs.cmd
            /\ g.frames = fs.frames /\ g.res = fs.res /\ g.pos = fs.pos
            /\ g.file = fs.file /\ g.stale = Node1
        BY <1>1, <2>2, <3>1 DEF FsFields
      <3>3. Locals(g)
        BY <1>1, <1>2, <2>1, <2>2, <3>2, PlaceLocals
      <3>4. QED  BY <1>1, <2>2, <3>1, <3>2, <3>3, FindNodeCalls, PlaceInv
    <2>3. ASSUME LeaveEntry([fs EXCEPT !.stale = Node1])
          PROVE  FsInv'
      <3>1. PICK f : f = [fs EXCEPT !.stale = Node1]
        OBVIOUS
      <3>2. /\ DOMAIN f = FsFields /\ f.pc = fs.pc /\ f.cmd = fs.cmd
            /\ f.frames = fs.frames /\ f.res = fs.res /\ f.pos = fs.pos
            /\ f.file = fs.file /\ f.stale = Node1
        BY <1>1, <3>1 DEF FsFields
      <3>3. Locals(f)
        BY <1>1, <2>1, <3>2, SameLocals
      <3>4. LeaveEntry(f)
        BY <2>3, <3>1
      <3>5. QED  BY <1>1, <1>2, <3>2, <3>3, <3>4, LeftInv
    <2>4. QED  BY <1>4, <2>2, <2>3 DEF TreeStat, Found, Missing
  <1>5. QED  BY <1>3, <1>4 DEF TreeStat

\* open: the file is read, or the directory above goes on without it.
LEMMA TreeOpenInv ==
    ASSUME FsInv, TreeOpen
    PROVE  FsInv'
  <1>1. /\ fs.pc = "open" /\ Locals(fs) /\ fs.cmd = "tree" /\ DOMAIN task = Tasks
        /\ DOMAIN fs = FsFields /\ Calls(task[Shell]) /\ KeepFs
        /\ fs.pos \in 0 .. Size
    BY DEF TreeOpen, In, FsInv, Locals
  <1>2. Len(fs.frames) > 0
    BY <1>1 DEF Locals, Frames
  <1>3. CASE Missing
    <2>1. GoOn(fs)
      BY <1>3 DEF TreeOpen, Found, Missing
    <2>2. QED  BY <1>1, <1>2, <2>1, WentOnInv
  <1>4. CASE Found
    <2>1. Node1 \in WrittenNodes
      BY <1>1, <1>4, NodeFound
    <2>2. /\ fs' = [fs EXCEPT !.pc = "read", !.stale = Node1, !.file = Node1]
          /\ ReadFile(Node1, fs.path)
      BY <1>4 DEF TreeOpen, Found, Missing
    <2>3. PICK g : g = fs'
      OBVIOUS
    <2>4. /\ DOMAIN g = FsFields /\ g.pc = "read" /\ g.cmd = fs.cmd
          /\ g.frames = fs.frames /\ g.res = fs.res /\ g.pos = fs.pos
          /\ g.file = Node1 /\ g.stale = Node1
      BY <1>1, <2>2, <2>3 DEF FsFields
    <2>5. Locals(g)
      BY <1>1, <1>2, <2>1, <2>4, PlaceLocals
    <2>6. QED  BY <1>1, <2>1, <2>2, <2>3, <2>4, <2>5, ReadFileCalls, PlaceInv
  <1>5. QED  BY <1>3, <1>4 DEF TreeOpen

\* read: the value is printed.
LEMMA TreeReadInv ==
    ASSUME FsInv, TreeRead
    PROVE  FsInv'
  <1>1. /\ fs.pc = "read" /\ Locals(fs) /\ fs.cmd = "tree" /\ DOMAIN task = Tasks
        /\ DOMAIN fs = FsFields /\ KeepFs /\ fs.pos \in 0 .. Size
        /\ fs.stale \in WrittenNodes \cup {Uninitialised}
    BY DEF TreeRead, In, FsInv, Locals
  <1>2. Len(fs.frames) > 0
    BY <1>1 DEF Locals, Frames
  <1>3. PICK f : /\ LeaveEntry(f)
                 /\ f = [fs EXCEPT !.out = Append(@, Piece(fs)), !.file = NullNode]
    BY DEF TreeRead
  <1>4. /\ DOMAIN f = FsFields /\ f.pc = fs.pc /\ f.cmd = fs.cmd
        /\ f.frames = fs.frames /\ f.res = fs.res /\ f.pos = fs.pos
        /\ f.file = NullNode /\ f.stale = fs.stale
    BY <1>1, <1>3 DEF FsFields
  <1>5. Locals(f)
    BY <1>1, <1>4, SameLocals
  <1>6. QED  BY <1>1, <1>2, <1>3, <1>4, <1>5, LeftInv

\* opendir: the node found becomes the directory of the last call of _tree_r.
LEMMA TreeOpendirInv ==
    ASSUME FsInv, TreeOpendir
    PROVE  FsInv'
  <1>1. /\ fs.pc = "opendir" /\ Locals(fs) /\ fs.cmd = "tree" /\ DOMAIN task = Tasks
        /\ DOMAIN fs = FsFields /\ Calls(task[Shell]) /\ KeepFs
        /\ fs.pos \in 0 .. Size /\ fs.file \in WrittenNodes \cup {NullNode}
    BY DEF TreeOpendir, In, FsInv, Locals
  <1>2. Len(fs.frames) > 0
    BY <1>1 DEF Locals, Frames
  <1>3. CASE Missing
    BY <1>1, <1>3, ReturnsInv DEF TreeOpendir, Found, Missing
  <1>4. CASE Found
    <2>1. Node1 \in WrittenNodes
      BY <1>1, <1>4, NodeFound
    <2>2. /\ fs' = [fs EXCEPT !.pc = "readdir", !.stale = Node1,
                              !.frames[Len(fs.frames)].dir = Node1]
          /\ ReadDir(Node1)
      BY <1>4 DEF TreeOpendir, Found, Missing
    <2>3. PICK g : g = fs'
      OBVIOUS
    <2>4. /\ DOMAIN g = FsFields /\ g.pc = "readdir" /\ g.cmd = fs.cmd
          /\ g.frames = [fs.frames EXCEPT ![Len(fs.frames)].dir = Node1]
          /\ g.res = fs.res /\ g.pos = fs.pos
          /\ g.file = fs.file /\ g.stale = Node1
      BY <1>1, <2>2, <2>3 DEF FsFields
    <2>5. Locals(g)
      BY <1>1, <1>2, <2>1, <2>4, DirLocals
    <2>6. QED  BY <1>1, <2>1, <2>2, <2>3, <2>4, <2>5, ReadDirCalls, PlaceInv
  <1>5. QED  BY <1>3, <1>4 DEF TreeOpendir

\* readdir returns a child, or the end of the directory.
LEMMA TreeReaddirInv ==
    ASSUME FsInv, TreeReaddir
    PROVE  FsInv'
  <1>1. /\ fs.pc = "readdir" /\ Locals(fs) /\ fs.cmd = "tree" /\ DOMAIN task = Tasks
        /\ DOMAIN fs = FsFields /\ Calls(task[Shell])
        /\ fs.pos \in 0 .. Size /\ fs.file \in WrittenNodes \cup {NullNode}
        /\ fs.stale \in WrittenNodes \cup {Uninitialised}
        /\ task[Shell].pc = "readdir"
        /\ UNCHANGED <<threads, nib, halted>> /\ halted \in BOOLEAN
    BY DEF TreeReaddir, In, FsInv, Locals, env
  <1>2. Len(fs.frames) > 0
    BY <1>1 DEF Locals, Frames
  <1>3. PICK r : r = task[Shell]
    OBVIOUS
  <1>4. PICK n \in WrittenNodes : r.stack = <<n, Uninitialised>>
    BY <1>1, <1>3 DEF Calls, Reading
  <1>5. Node(Shell) = n /\ Child(Shell) = Uninitialised /\ r.seen = <<>>
        /\ DOMAIN r = TaskFields /\ r.cmd = "vfs"
    BY <1>1, <1>3, <1>4 DEF Node, Child, Last, Calls
  <1>6. PICK s, child, f :
          /\ s \in Outcomes(Shell)
          /\ f = [fs EXCEPT !.frames[Len(fs.frames)].dir = s.node]
          /\ child = IF s.child = Uninitialised THEN fs.stale ELSE s.child
          /\ cursor' = s.cursor
          /\ IF child = NullNode THEN LeaveEntry(f)
             ELSE /\ fs' = [f EXCEPT !.stale = child]
                  /\ Update(Shell, [r EXCEPT
                          !.pc = "dirname", !.stack = <<child>>, !.seen = <<>>])
    BY <1>3 DEF TreeReaddir
  <1>7. s = NextChild(n, Uninitialised, cursor, cursor)
    BY <1>3, <1>5, <1>6 DEF Outcomes
  <1>8. Returns(s, n, Uninitialised)
    BY <1>7, NextChildReturns DEF FsInv
  <1>9. /\ s.node \in WrittenNodes /\ cursor' \in CursorSet
        /\ child \in WrittenNodes \cup {NullNode, Uninitialised}
    BY <1>1, <1>6, <1>8 DEF Returns
  <1>10. /\ DOMAIN f = FsFields /\ f.pc = fs.pc /\ f.cmd = fs.cmd
         /\ f.frames = [fs.frames EXCEPT ![Len(fs.frames)].dir = s.node]
         /\ f.res = fs.res /\ f.pos = fs.pos /\ f.file = fs.file
         /\ f.stale = fs.stale
    BY <1>1, <1>6 DEF FsFields
  <1>11. CASE child = NullNode
    <2>1. LeaveEntry(f)
      BY <1>6, <1>11
    <2>2. Locals(f) /\ Len(f.frames) > 0
      BY <1>1, <1>2, <1>9, <1>10, DirLocals
    <2>3. QED  BY <1>1, <1>9, <1>10, <2>1, <2>2, LeaveEntryLocals, FsInvFrom DEF FsInv
  <1>12. CASE child # NullNode
    <2>1. PICK g : g = fs'
      OBVIOUS
    <2>2. /\ DOMAIN g = FsFields /\ g.pc = fs.pc /\ g.cmd = fs.cmd
          /\ g.frames = f.frames
          /\ g.res = fs.res /\ g.pos = fs.pos /\ g.file = fs.file
          /\ g.stale = child
      BY <1>6, <1>10, <1>12, <2>1 DEF FsFields
    <2>3. Locals(g)
      BY <1>1, <1>2, <1>9, <1>10, <1>12, <2>2, DirLocals
    <2>4. PICK q : /\ q = [r EXCEPT !.pc = "dirname", !.stack = <<child>>,
                                    !.seen = <<>>]
                   /\ Update(Shell, q)
      BY <1>6, <1>12
    <2>5. /\ DOMAIN q = TaskFields /\ q.cmd = "vfs" /\ q.seen = <<>>
          /\ q.pc = "dirname" /\ q.stack = <<child>>
      BY <1>5, <2>4 DEF TaskFields
    <2>6. Calls(q)
      BY <1>9, <1>12, <2>5 DEF Calls
    <2>7. DOMAIN task' = Tasks /\ task'[Shell] = q /\ task'[Coap] = task[Coap]
      BY <1>1, <2>4, ShellUpdated
    <2>8. QED  BY <1>1, <1>9, <2>1, <2>2, <2>3, <2>6, <2>7, FsInvFrom
  <1>13. QED  BY <1>11, <1>12

\* The child has a name: _tree_r is called for it.
LEMMA TreeNameInv ==
    ASSUME FsInv, TreeName
    PROVE  FsInv'
  <1>1. /\ fs.pc = "readdir" /\ Locals(fs) /\ fs.cmd = "tree" /\ DOMAIN task = Tasks
        /\ KeepFs /\ Enter(fs, <<GetName(Node1, "junk")>>)
    BY DEF TreeName, In, FsInv, Locals
  <1>2. QED  BY <1>1, EnterLocals, PlaceInv

\* cat: the file is opened.
LEMMA CatOpenInv ==
    ASSUME FsInv, CatOpen
    PROVE  FsInv'
  <1>1. /\ fs.pc = "open" /\ Locals(fs) /\ fs.cmd = "cat" /\ DOMAIN task = Tasks
        /\ DOMAIN fs = FsFields /\ Calls(task[Shell]) /\ KeepFs
        /\ fs.pos \in 0 .. Size /\ fs.stale \in WrittenNodes \cup {Uninitialised}
    BY DEF CatOpen, In, FsInv, Locals
  <1>2. CASE Missing
    BY <1>1, <1>2, ReturnsInv DEF CatOpen, Found, Missing
  <1>3. CASE Found
    <2>1. Node1 \in WrittenNodes
      BY <1>1, <1>3, NodeFound
    <2>2. /\ fs' = [fs EXCEPT !.pc = "read", !.file = Node1, !.path = fs.target]
          /\ ReadFile(Node1, fs.target)
      BY <1>3 DEF CatOpen, Found, Missing
    <2>3. PICK g : g = fs'
      OBVIOUS
    <2>4. /\ DOMAIN g = FsFields /\ g.pc = "read" /\ g.cmd = fs.cmd
          /\ g.frames = fs.frames /\ g.res = fs.res /\ g.pos = fs.pos
          /\ g.file = Node1 /\ g.stale = fs.stale
      BY <1>1, <2>2, <2>3 DEF FsFields
    <2>5. Locals(g)
      BY <1>1, <2>1, <2>4, PlaceLocals
    <2>6. QED  BY <1>1, <2>1, <2>2, <2>3, <2>4, <2>5, ReadFileCalls, PlaceInv
  <1>4. QED  BY <1>2, <1>3 DEF CatOpen

\* cat: a piece is printed and the next one read, or the command ends.
LEMMA CatReadInv ==
    ASSUME FsInv, CatRead
    PROVE  FsInv'
  <1>1. /\ fs.pc = "read" /\ Locals(fs) /\ fs.cmd = "cat" /\ DOMAIN task = Tasks
        /\ DOMAIN fs = FsFields /\ KeepFs
        /\ fs.pos \in 0 .. Size /\ fs.stale \in WrittenNodes \cup {Uninitialised}
        /\ fs.file \in WrittenNodes
    BY DEF CatRead, In, FsInv, Locals
  <1>2. PICK err : /\ err = (task[Shell].res[1] = "error")
                   /\ IF ReadStops(fs, err) THEN FsReturns(fs, "done") /\ NoCall
                      ELSE /\ fs' = IF err THEN fs
                                    ELSE [fs EXCEPT !.out = Append(@, Piece(fs)),
                                                    !.pos = @ + 1]
                           /\ ReadFile(fs.file, fs.path)
    BY DEF CatRead
  <1>3. CASE ReadStops(fs, err)
    BY <1>1, <1>2, <1>3, ReturnsInv
  <1>4. CASE ~ReadStops(fs, err) /\ err
    <2>1. fs' = fs /\ ReadFile(fs.file, fs.path)
      BY <1>2, <1>4
    <2>2. /\ DOMAIN task' = Tasks /\ task'[Coap] = task[Coap]
          /\ Calls(task'[Shell])
      BY <1>1, <2>1, ReadFileCalls
    <2>3. QED  BY <1>1, <2>1, <2>2, PlaceInv
  <1>5. CASE ~ReadStops(fs, err) /\ ~err
    <2>1. /\ fs' = [fs EXCEPT !.out = Append(@, Piece(fs)), !.pos = @ + 1]
          /\ ReadFile(fs.file, fs.path)
      BY <1>2, <1>5
    <2>2. fs.pos + 1 \in 0 .. Size
      <3>1. ~(fs.pos >= Size)
        BY <1>5 DEF ReadStops, AtEnd
      <3>2. QED  BY <1>1, <3>1, FsAssumption
    <2>3. PICK g : g = fs'
      OBVIOUS
    <2>4. /\ DOMAIN g = FsFields /\ g.pc = "read" /\ g.cmd = fs.cmd
          /\ g.frames = fs.frames /\ g.res = fs.res /\ g.pos = fs.pos + 1
          /\ g.file = fs.file /\ g.stale = fs.stale
      BY <1>1, <2>1, <2>3 DEF FsFields
    <2>5. Locals(g)
      BY <1>1, <2>2, <2>4, SameLocals
    <2>6. QED  BY <1>1, <2>1, <2>3, <2>4, <2>5, ReadFileCalls, PlaceInv
  <1>6. QED  BY <1>3, <1>4, <1>5

\* A step of the task in a call of the file system: db_find_node_by_path, or
\* the reading of a value.
LEMMA VfsLookupCalls ==
    ASSUME FsInv, Calls(task[Shell]), Lookup(Shell)
    PROVE  cursor' \in CursorSet /\ \E q : Calls(q) /\ Update(Shell, q)
  <1>1. PICK r : /\ r = task[Shell] /\ DOMAIN r = TaskFields /\ r.cmd = "vfs"
                 /\ r.seen = <<>> /\ r.pc = "lookup"
    BY DEF Calls, Lookup, At
  <1>2. PICK n \in WrittenNodes, c \in WrittenNodes \cup {Uninitialised} :
          r.stack = <<n, c>>
    BY <1>1 DEF Calls, Reading
  <1>3. Node(Shell) = n /\ Child(Shell) = c
    BY <1>1, <1>2 DEF Node, Child, Last
  <1>4. PICK s \in Outcomes(Shell) :
          /\ cursor' = s.cursor
          /\ Update(Shell, IF s.child = NullNode THEN Finished(r, <<"enoent">>)
                           ELSE [Enumerated(Shell, s) EXCEPT !.pc = "match"])
    BY <1>1 DEF Lookup
  <1>5. s = NextChild(n, c, cursor, cursor)
    BY <1>1, <1>3, <1>4 DEF Outcomes
  <1>6. Returns(s, n, c)
    BY <1>5, NextChildReturns DEF FsInv
  <1>7. cursor' \in CursorSet /\ s.node \in WrittenNodes
        /\ s.child \in WrittenNodes \cup {NullNode, Uninitialised}
    BY <1>4, <1>6 DEF Returns
  <1>8. Calls(Finished(r, <<"enoent">>))
    BY <1>1 DEF Calls, Finished, Idle, TaskFields
  <1>9. ASSUME s.child # NullNode
        PROVE  Calls([Enumerated(Shell, s) EXCEPT !.pc = "match"])
    <2>1. PICK e : e = Enumerated(Shell, s)
      OBVIOUS
    <2>2. e = [r EXCEPT !.stack = <<s.node, s.child>>, !.seen = <<>>]
      <3>1. [<<n, c>> EXCEPT ![2 - 1] = s.node, ![2] = s.child] = <<s.node, s.child>>
        OBVIOUS
      <3>2. QED  BY <1>1, <1>2, <2>1, <3>1 DEF Enumerated
    <2>3. PICK q : q = [e EXCEPT !.pc = "match"]
      OBVIOUS
    <2>4. /\ DOMAIN q = TaskFields /\ q.cmd = "vfs" /\ q.seen = <<>>
          /\ q.pc = "match" /\ q.stack = <<s.node, s.child>>
      BY <1>1, <2>2, <2>3 DEF TaskFields
    <2>5. Calls(q)
      BY <1>7, <1>9, <2>4 DEF Calls
    <2>6. QED  BY <2>1, <2>3, <2>5
  <1>10. QED  BY <1>4, <1>7, <1>8, <1>9

\* The name of a child that has been written is compared with the token.
LEMMA VfsMatchCalls ==
    ASSUME Calls(task[Shell]), Match(Shell)
    PROVE  \E q : Calls(q) /\ Update(Shell, q)
  <1>1. PICK r : /\ r = task[Shell] /\ DOMAIN r = TaskFields /\ r.cmd = "vfs"
                 /\ r.seen = <<>> /\ r.pc = "match"
    BY DEF Calls, Match, At
  <1>2. PICK n \in WrittenNodes, c \in WrittenNodes \cup {Uninitialised} :
          r.stack = <<n, c>>
    BY <1>1 DEF Calls, Reading
  <1>3. Child(Shell) = c
    BY <1>1, <1>2 DEF Child, Last
  <1>4. c \in WrittenNodes
    BY <1>2, <1>3 DEF Match, NameFaults, Uninitialised
  <1>5. PICK name, rest, q :
          /\ Update(Shell, q)
          /\ \/ q = [r EXCEPT !.pc = "lookup", !.name = name]
             \/ q = [r EXCEPT !.pc = "lookup", !.todo = rest, !.name = name,
                              !.stack = <<c, c>>]
             \/ q = FoundNode(r, c)
    BY <1>1, <1>3 DEF Match
  <1>6. DOMAIN q = TaskFields /\ q.cmd = "vfs" /\ q.seen = <<>>
    BY <1>1, <1>5 DEF FoundNode, TaskFields
  <1>7. \/ q.pc = "lookup" /\ q.stack = <<n, c>>
        \/ q.pc = "lookup" /\ q.stack = <<c, c>>
        \/ q.pc = "found" /\ q.stack = <<c>>
    BY <1>1, <1>2, <1>5 DEF FoundNode, TaskFields
  <1>8. Calls(q)
    BY <1>2, <1>4, <1>6, <1>7 DEF Calls
  <1>9. QED  BY <1>5, <1>8

\* The reading ends, or stays with its node.
LEMMA VfsReadingCalls ==
    ASSUME FsInv, Calls(task[Shell]),
           \/ ValueToStr(Shell) \/ CheckType(Shell) \/ GetValue(Shell)
           \/ Count(Shell) \/ Entered(Shell) \/ Counted(Shell)
    PROVE  cursor' \in CursorSet /\ \E q : Calls(q) /\ Update(Shell, q)
  <1>1. PICK r : /\ r = task[Shell] /\ DOMAIN r = TaskFields /\ r.cmd = "vfs"
                 /\ r.seen = <<>> /\ r.pc \in Reading
    BY DEF Calls, ValueToStr, CheckType, GetValue, Count, Entered, Counted, At, Reading
  <1>2. PICK n \in WrittenNodes : r.stack = <<n>>
    BY <1>1 DEF Calls, Reading
  <1>3. ASSUME NEW q, DOMAIN q = TaskFields, q.cmd = "vfs", q.seen = <<>>,
               q.pc \in Reading, q.stack = r.stack
        PROVE  Calls(q)
    BY <1>2, <1>3 DEF Calls
  <1>4. \A res : Calls(Printed(r, res))
    BY <1>1 DEF Printed, Calls, Finished, Idle, TaskFields
  <1>5. cursor' \in CursorSet
    <2>1. \A x \in Uint8 : [cursor EXCEPT !.num = x] \in CursorSet
      BY DEF FsInv, CursorSet
    <2>2. 0 \in Uint8 /\ IncUint8(cursor.num) \in Uint8
      BY Widths, CursorFields DEF FsInv
    <2>3. \/ cursor' = cursor
          \/ cursor' = [cursor EXCEPT !.num = 0]
          \/ cursor' = [cursor EXCEPT !.num = IncUint8(cursor.num)]
      BY DEF ValueToStr, CheckType, GetValue, Count, Entered, Counted, db
    <2>4. QED  BY <2>1, <2>2, <2>3 DEF FsInv
  <1>6. CASE ValueToStr(Shell)
    <2>1. PICK type :
            \/ Update(Shell, Printed(r, <<"error", <<"error">> >>))
            \/ Update(Shell, [r EXCEPT !.pc = "assert", !.type = type])
      BY <1>1, <1>6 DEF ValueToStr
    <2>2. Calls([r EXCEPT !.pc = "assert", !.type = type])
      BY <1>1, <1>3 DEF TaskFields, Reading
    <2>3. QED  BY <1>4, <1>5, <2>1, <2>2
  <1>7. CASE CheckType(Shell)
    <2>1. Update(Shell, [r EXCEPT !.pc = "read"])
      BY <1>1, <1>7 DEF CheckType
    <2>2. Calls([r EXCEPT !.pc = "read"])
      BY <1>1, <1>3 DEF TaskFields, Reading
    <2>3. QED  BY <1>5, <2>1, <2>2
  <1>8. CASE GetValue(Shell)
    <2>1. PICK res : \/ Update(Shell, [r EXCEPT !.pc = "count"])
                     \/ Update(Shell, Printed(r, res))
      BY <1>1, <1>8 DEF GetValue
    <2>2. Calls([r EXCEPT !.pc = "count"])
      BY <1>1, <1>3 DEF TaskFields, Reading
    <2>3. QED  BY <1>4, <1>5, <2>1, <2>2
  <1>9. CASE Count(Shell)
    <2>1. PICK i, a : Update(Shell, [r EXCEPT !.pc = "add", !.slot = i, !.nce = a])
      BY <1>1, <1>9 DEF Count
    <2>2. Calls([r EXCEPT !.pc = "add", !.slot = i, !.nce = a])
      BY <1>1, <1>3 DEF TaskFields, Reading
    <2>3. QED  BY <1>5, <2>1, <2>2
  <1>10. CASE Entered(Shell)
    <2>1. Update(Shell, [r EXCEPT !.pc = "count", !.nce = Free])
      BY <1>1, <1>10 DEF Entered, CountOn
    <2>2. Calls([r EXCEPT !.pc = "count", !.nce = Free])
      BY <1>1, <1>3 DEF TaskFields, Reading
    <2>3. QED  BY <1>5, <2>1, <2>2
  <1>11. CASE Counted(Shell)
    <2>1. PICK res : Update(Shell, Printed(r, res))
      BY <1>1, <1>11 DEF Counted
    <2>2. QED  BY <1>4, <1>5, <2>1
  <1>12. QED  BY <1>6, <1>7, <1>8, <1>9, <1>10, <1>11

\* A command line is given.
LEMMA FsRequestInv ==
    ASSUME FsInv, FsRequest
    PROVE  FsInv'
  <1>1. PICK q \in FsRequests, newlib \in Builds :
          /\ fs' = [FsIdle EXCEPT !.pc = IF q.cmd = "tree" THEN "root" ELSE "open",
                        !.cmd = q.cmd, !.print = q.print, !.target = q.path,
                        !.newlib = newlib, !.start = cursor.ps]
          /\ FindNode(q.path)
    BY DEF FsRequest
  <1>2. q.cmd \in {"tree", "cat"}
    BY <1>1, FsAssumption
  <1>3. PICK g : g = fs'
    OBVIOUS
  <1>4. /\ DOMAIN g = FsFields /\ g.cmd = q.cmd /\ g.res = "none"
        /\ g.pc = IF q.cmd = "tree" THEN "root" ELSE "open"
        /\ g.frames = <<>> /\ g.pos = 0 /\ g.stale = Uninitialised
        /\ g.file = NullNode
    BY <1>1, <1>3 DEF FsIdle, FsFields
  <1>5. <<>> \in Seq(ToSet(<<>>)) /\ Len(<<>>) = 0
    OBVIOUS
  <1>6. Frames(g)
    BY <1>2, <1>4, <1>5 DEF Frames
  <1>7. 0 \in 0 .. Size
    BY FsAssumption
  <1>8. Locals(g)
    BY <1>2, <1>4, <1>6, <1>7 DEF Locals
  <1>9. g.pc # "idle" /\ g.pc # "read"
    BY <1>4
  <1>10. /\ DOMAIN task' = Tasks /\ task'[Coap] = task[Coap]
         /\ Calls(task'[Shell])
    BY <1>1, FindNodeCalls DEF FsInv
  <1>11. KeepFs
    BY DEF FsRequest
  <1>12. QED  BY <1>3, <1>8, <1>9, <1>10, <1>11, PlaceInv

\* Between two commands of the file system the tasks are those of DbQuery.
LEMMA IdleShapes ==
    ASSUME FsInv, InsertInv, fs.pc = "idle"
    PROVE  ShapeInv
  <1>1. \A t \in Tasks : Shape(task[t])
    BY IdleShape DEF FsInv, Tasks
  <1>2. QED  BY <1>1 DEF ShapeInv, FsInv, InsertInv

\* A step of the shell's other commands.
LEMMA OtherCommandInv ==
    ASSUME FsInv, InsertInv, fs.pc = "idle", Request(Shell) \/ Call(Shell), UNCHANGED fs
    PROVE  FsInv'
  <1>1. ShapeInv
    BY IdleShapes
  <1>2. ShapeInv'
    <2>1. Shell \in Tasks
      BY DEF Tasks
    <2>2. Next
      BY <2>1 DEF Next
    <2>3. QED  BY <1>1, <2>2, ShapeStep
  <1>3. task'[Coap] = task[Coap]
    BY <1>1, OthersStay, QueryAssumption DEF Tasks
  <1>4. Shell \in Tasks
    BY DEF Tasks
  <1>5. QED  BY <1>2, <1>3, <1>4 DEF ShapeInv, FsInv, Locals, Frames

\* A fault keeps all but that the board runs.
LEMMA StoppedInv ==
    ASSUME FsInv, Halt, UNCHANGED fs
    PROVE  FsInv'
  BY DEF Halt, db, env, FsInv

\* A step of the task in a call of the file system.
LEMMA VfsCallInv ==
    ASSUME FsInv, Requests[Coap] = {}, fs.pc # "idle", Call(Shell), UNCHANGED fs
    PROVE  FsInv'
  <1>1. Calls(task[Shell])
    BY DEF FsInv
  <1>2. ~(Tests(Shell) \/ Type(Shell) \/ List(Shell) \/ Show(Shell))
    BY <1>1 DEF Calls, Reading, Tests, Type, List, Show, At
  <1>3. ASSUME cursor' \in CursorSet, UNCHANGED <<threads, nib, halted>>,
               NEW q, Calls(q), Update(Shell, q)
        PROVE  FsInv'
    <2>1. DOMAIN task' = Tasks /\ task'[Shell] = q /\ task'[Coap] = task[Coap]
      BY <1>3, ShellUpdated DEF FsInv
    <2>2. QED  BY <1>3, <2>1, FsInvFrom DEF FsInv
  <1>4. CASE Lookup(Shell)
    <2>1. UNCHANGED <<threads, nib, halted>>
      BY <1>4 DEF Lookup, env
    <2>2. QED  BY <1>1, <1>3, <1>4, <2>1, VfsLookupCalls
  <1>5. CASE Match(Shell)
    <2>1. UNCHANGED <<threads, nib, halted, cursor>>
      BY <1>5 DEF Match, env, db
    <2>2. cursor' \in CursorSet
      BY <2>1 DEF FsInv
    <2>3. QED  BY <1>1, <1>3, <1>5, <2>1, <2>2, VfsMatchCalls
  <1>6. CASE \/ ValueToStr(Shell) \/ CheckType(Shell) \/ GetValue(Shell)
             \/ Count(Shell) \/ Entered(Shell) \/ Counted(Shell)
    <2>1. UNCHANGED <<threads, nib, halted>>
      BY <1>6 DEF ValueToStr, CheckType, GetValue, Count, Entered, Counted, env
    <2>2. QED  BY <1>1, <1>3, <1>6, <2>1, VfsReadingCalls
  <1>7. CASE Fault(Shell)
    BY <1>7, StoppedInv DEF Fault
  <1>8. CASE Add(Shell) \/ Link(Shell) \/ Publish(Shell)
    <2>1. Shell \in Tasks
      BY DEF Tasks
    <2>2. UNCHANGED <<cursor, threads, nib, halted>> /\ (Entered(Shell) \/ UNCHANGED task)
      BY <1>8, <2>1, InsertionIs
    <2>3. UNCHANGED task => FsInv'
      BY <2>2 DEF FsInv
    <2>4. QED  BY <1>6, <2>2, <2>3
  <1>9. QED  BY <1>2, <1>4, <1>5, <1>6, <1>7, <1>8 DEF Call

\* Where it gets no requests, the handler never runs.
LEMMA HandlerRests ==
    ASSUME FsInv, InsertInv, Requests[Coap] = {}
    PROVE  ~Request(Coap) /\ ~Call(Coap)
  <1>1. task[Coap].pc = "idle" /\ ins[Coap].step = "none"
    BY DEF FsInv, InsertInv, Idle
  <1>2. QED  BY <1>1, QueryAssumption
             DEF Request, Call, Tests, Lookup, Match, Type, List, Show,
                 ValueToStr, CheckType, GetValue, Count, Add, Link, Publish, Counted,
                 Fault, At

\* The shape is invariant under the steps of the file system and under those
\* of the shell's other commands.
LEMMA FsInvStep ==
    ASSUME FsInv, InsertInv, Requests[Coap] = {}, [FsNext]_fsVars
    PROVE  FsInv'
  <1>1. CASE FsRequest
    BY <1>1, FsRequestInv
  <1>2. CASE TreeRoot \/ TreeStat \/ TreeOpen \/ TreeRead \/ TreeOpendir
                \/ TreeReaddir \/ TreeName
    BY <1>2, TreeRootInv, TreeStatInv, TreeOpenInv, TreeReadInv, TreeOpendirInv,
       TreeReaddirInv, TreeNameInv
  <1>3. CASE CatOpen \/ CatRead
    BY <1>3, CatOpenInv, CatReadInv
  <1>4. CASE FsFault
    BY <1>4, StoppedInv DEF FsFault
  <1>5. ASSUME NEW t \in Tasks, UNCHANGED fs,
               Call(t) \/ (Request(t) /\ (t = Shell => fs.pc = "idle"))
        PROVE  FsInv'
    <2>1. t = Shell
      BY <1>5, HandlerRests DEF Tasks
    <2>2. CASE fs.pc = "idle"
      BY <1>5, <2>1, <2>2, OtherCommandInv
    <2>3. CASE fs.pc # "idle"
      BY <1>5, <2>1, <2>3, VfsCallInv
    <2>4. QED  BY <2>2, <2>3
  <1>6. CASE UNCHANGED fsVars
    BY <1>6 DEF fsVars, vars, FsInv
  <1>7. CASE Measure /\ UNCHANGED fs
    BY <1>7 DEF Measure, env, FsInv
  <1>8. QED  BY <1>1, <1>2, <1>3, <1>4, <1>5, <1>6, <1>7 DEF FsNext, FsStep

\* So is where the shell inserts.
LEMMA InsertInvStep ==
    ASSUME FsInv, FsInv', InsertInv, Requests[Coap] = {}, [FsNext]_fsVars
    PROVE  InsertInv'
  <1>1. ASSUME UNCHANGED <<fs, task, ins>>
        PROVE  InsertInv'
    BY <1>1 DEF InsertInv, Settled
  <1>2. ASSUME UNCHANGED ins, ins[Shell].step = "none"
        PROVE  InsertInv'
    BY <1>2 DEF InsertInv, Settled, FsInv, Tasks
  <1>3. Shell \in Tasks /\ Coap \in Tasks /\ Shell # Coap
    BY QueryAssumption DEF Tasks
  <1>4. CASE FsRequest
    BY <1>2, <1>4 DEF FsRequest, KeepFs, db
  <1>5. CASE FsStep
    <2>1. CASE FsFault
      BY <1>1, <2>1 DEF FsFault, Halt, db
    <2>2. CASE ~FsFault
      <3>1. UNCHANGED ins
        BY <1>5, <2>2 DEF FsStep, TreeRoot, TreeStat, TreeOpen, TreeRead, TreeOpendir,
                          TreeReaddir, TreeName, CatOpen, CatRead, KeepFs, db
      <3>2. fs.pc # "idle" /\ task[Shell].pc # "add"
        BY <1>5, <2>2 DEF FsStep, TreeRoot, TreeStat, TreeOpen, TreeRead, TreeOpendir,
                          TreeReaddir, TreeName, CatOpen, CatRead, In, Found, Missing
      <3>3. QED  BY <1>2, <3>1, <3>2 DEF InsertInv
    <2>3. QED  BY <2>1, <2>2
  <1>6. ASSUME NEW t \in Tasks, UNCHANGED fs,
               Call(t) \/ (Request(t) /\ (t = Shell => fs.pc = "idle"))
        PROVE  InsertInv'
    <2>1. t = Shell
      BY <1>6, HandlerRests DEF Tasks
    <2>2. Settled'
      BY <1>6, SettledStep DEF InsertInv
    <2>3. CASE Add(Shell) \/ Link(Shell) \/ Publish(Shell)
      <3>1. DOMAIN ins = Tasks /\ DOMAIN ins[Shell] = {"step", "addr", "rest"}
        BY <1>3 DEF InsertInv, Settled
      <3>2. ins'[Coap] = ins[Coap]
        BY <1>3, <2>3, <3>1 DEF Add, Link, Publish
      <3>3. ASSUME fs.pc # "idle", ins'[Shell].step # "none"
            PROVE  task'[Shell].pc = "add"
        <4>1. CASE Add(Shell)
          BY <1>3, <3>1, <3>3, <4>1 DEF Add, At
        <4>2. CASE Link(Shell)
          BY <3>3, <4>2 DEF Link, InsertInv
        <4>3. CASE Publish(Shell)
          BY <1>3, <3>1, <3>3, <4>3 DEF Publish, NoInsertion
        <4>4. QED  BY <2>3, <4>1, <4>2, <4>3
      <3>4. QED  BY <1>6, <2>2, <3>2, <3>3 DEF InsertInv
    <2>4. CASE ~(Add(Shell) \/ Link(Shell) \/ Publish(Shell) \/ Fault(Shell))
      <3>1. UNCHANGED ins
        BY <1>6, <2>1, <2>4
           DEF Request, Call, Tests, Lookup, Match, Type, List, Show, ValueToStr,
               CheckType, GetValue, Count, Counted, db
      <3>2. Request(Shell) => ins[Shell].step = "none"
        BY DEF Request
      <3>3. ~Call(Shell) => fs.pc = "idle"
        BY <1>6, <2>1
      <3>4. Call(Shell) => task[Shell].pc # "add"
        BY <2>4
           DEF Call, Tests, Lookup, Match, Type, List, Show, ValueToStr, CheckType,
               GetValue, Count, Counted, At
      <3>5. QED  BY <1>6, <2>1, <2>2, <3>1, <3>2, <3>3, <3>4 DEF InsertInv
    <2>5. CASE Fault(Shell)
      BY <1>1, <1>6, <2>5 DEF Fault, Halt, db
    <2>6. QED  BY <2>3, <2>4, <2>5
  <1>7. CASE fs.pc = "idle" /\ Measure /\ UNCHANGED fs
    <2>1. Settled'
      BY <1>7, SettledStep DEF InsertInv
    <2>2. ins'[Coap] = ins[Coap]
      BY <1>3, <1>7 DEF Measure, InsertInv, Settled
    <2>3. QED  BY <1>7, <2>1, <2>2 DEF InsertInv
  <1>8. CASE UNCHANGED fsVars
    BY <1>1, <1>8 DEF fsVars, vars
  <1>9. QED  BY <1>4, <1>5, <1>6, <1>7, <1>8 DEF FsNext

\* Both are invariants, where no request interrupts the file system.
LEMMA ShapesInvariant ==
    ASSUME Requests[Coap] = {}
    PROVE  FsSpec => [](FsInv /\ InsertInv)
  <1>1. ASSUME FsInv, InsertInv, [FsNext]_fsVars
        PROVE  FsInv' /\ InsertInv'
    BY <1>1, FsInvStep, InsertInvStep
  <1>2. QED  BY <1>1, FsInitInv, PTL DEF FsSpec

\* The type invariant of the file system, where no request interrupts it:
\* an open file or directory is a node that a lookup has found, and the
\* position in a file stays within the value.
THEOREM FsTypeCorrect ==
    ASSUME Requests[Coap] = {}
    PROVE  FsSpec => []FsTypeOK
  <1>1. ASSUME FsInv, InsertInv
        PROVE  FsTypeOK
    <2>1. /\ fs.pc \in {"idle", "root", "stat", "open", "read", "opendir", "readdir"}
          /\ fs.res \in {"none", "done", "failed", "refused"}
          /\ fs.pos \in 0 .. Size
          /\ {fs.file, fs.stale} \subseteq NodeSet
      BY <1>1 DEF FsInv, Locals, NodeSet
    <2>2. \A i \in DOMAIN fs.frames : fs.frames[i].dir \in NodeSet
      <3>1. PICK st : st = fs.frames /\ st \in Seq(ToSet(st))
        BY <1>1 DEF FsInv, Locals, Frames
      <3>2. PICK n \in Nat : n = Len(st) /\ DOMAIN st = 1 .. n
        BY <3>1
      <3>3. /\ \A i \in 1 .. n - 1 : st[i].dir \in WrittenNodes
            /\ n > 0 => st[n].dir \in WrittenNodes \cup {NullNode}
        BY <1>1, <3>1, <3>2 DEF FsInv, Locals, Frames
      <3>4. \A i \in 1 .. n : n > 0 /\ (i = n \/ i \in 1 .. n - 1)
        BY <3>2
      <3>5. QED  BY <3>1, <3>2, <3>3, <3>4 DEF NodeSet
    <2>3. ASSUME NEW t \in Tasks
          PROVE  /\ task[t].pc \in {"idle", "lookup", "match", "found", "type",
                            "list", "show", "print", "assert", "read", "count",
                            "add", "readdir", "dirname"}
                 /\ ToSet(task[t].stack) \subseteq NodeSet
      <3>1. PICK r : r = task[t]
        OBVIOUS
      <3>2. Shape(r) \/ Calls(r)
        BY <1>1, <2>3, <3>1, IdleShape DEF FsInv, Tasks
      <3>3. CASE Shape(r)
        <4>1. ToSet(r.stack) \subseteq NodeSet
          BY <3>3 DEF Shape, ToSet
        <4>2. QED  BY <3>1, <3>3, <4>1 DEF Shape, Reading
      <3>4. CASE Calls(r)
        <4>1. ToSet(r.stack) \subseteq NodeSet
          <5>1. \A n, c \in NodeSet : ToSet(<<n, c>>) \subseteq NodeSet
            BY DEF ToSet
          <5>2. \A n \in NodeSet : ToSet(<<n>>) \subseteq NodeSet
            BY DEF ToSet
          <5>3. ToSet(<<>>) \subseteq NodeSet
            BY DEF ToSet
          <5>4. WrittenNodes \cup {Uninitialised} \subseteq NodeSet
            BY DEF NodeSet
          <5>5. QED  BY <3>4, <5>1, <5>2, <5>3, <5>4 DEF Calls
        <4>2. QED  BY <3>1, <3>4, <4>1 DEF Calls, Reading
      <3>5. QED  BY <3>2, <3>3, <3>4
    <2>4. TypeOK
      BY <1>1, <2>3 DEF FsInv, InsertInv, Settled, TypeOK
    <2>5. QED  BY <2>1, <2>2, <2>4 DEF FsTypeOK
  <1>2. FsSpec => [](FsInv /\ InsertInv)
    BY ShapesInvariant
  <1>3. QED  BY <1>1, <1>2, PTL

-----------------------------------------------------------------------------
(* cat prints the pieces of one value.                                     *)

\* The datum that every getter called for the file reads: the counters are
\* where the lookup of the file has left them, and only a getter moves one of
\* them, the number of neighbours.
HasCount(n) == CountsNeighbours(n, GetType(n))

FileDatum(n) ==
    IF HasCount(n) THEN IfaceKey(n.iface) \o <<"num_neighbours">>
    ELSE Datum(n, GetType(n))

Answer(n) ==
    IF GetType(n) = "inner" THEN <<"error", <<"error">> >>
    ELSE <<"value", FileDatum(n)>>

\* The call of read in progress.
ReadsFile(r, n) ==
    /\ r.pc \in Reading \cup {"idle"}
    /\ r.pc # "idle" => r.stack = <<n>>
    /\ r.pc \in {"assert", "read", "count", "add"} =>
          r.type = GetType(n) /\ GetType(n) # "inner"
    /\ r.pc \in {"count", "add"} => HasCount(n)
    /\ r.pc = "idle" => r.res = Answer(n)

\* What has been printed so far.
PrintsFile(f) ==
    /\ f.out \in Seq(ToSet(f.out)) /\ Len(f.out) = f.pos
    /\ GetType(f.file) = "inner" => f.pos = 0
    /\ \A i \in 1 .. f.pos : /\ f.out[i].pos = i - 1
                             /\ f.out[i].datum = FileDatum(f.file)

CatInv ==
    /\ CatWhole
    /\ fs.cmd = "cat" /\ fs.pc = "open" => fs.out = <<>> /\ fs.pos = 0
    /\ fs.pc = "read" => ReadsFile(task[Shell], fs.file)
    /\ fs.cmd = "cat" /\ fs.pc = "read" => PrintsFile(fs)

\* Where neither the counters nor the list change, every getter reads the same.
LEMMA SameGetters ==
    ASSUME NEW n, UNCHANGED <<cursor, list>>
    PROVE  /\ GetType(n)' = GetType(n) /\ HasCount(n)' = HasCount(n)
           /\ FileDatum(n)' = FileDatum(n) /\ Answer(n)' = Answer(n)
  <1>1. GetType(n)' = GetType(n)
    BY DEF GetType, FlType, StaticEntry, FlEntry, PsType, SaulType, NetifType
  <1>2. HasCount(n)' = HasCount(n)
    BY <1>1 DEF HasCount, CountsNeighbours
  <1>3. \A type : Datum(n, type)' = Datum(n, type)
    BY DEF Datum, FlDatum, PsDatum, PsReads, SaulDatum, NetifDatum, IfaceKey,
           WalkEnds, Neighbour, FlEntry, StaticEntry
  <1>4. FileDatum(n)' = FileDatum(n)
    BY <1>1, <1>2, <1>3 DEF FileDatum, IfaceKey
  <1>5. Answer(n)' = Answer(n)
    BY <1>1, <1>4 DEF Answer
  <1>6. QED  BY <1>1, <1>2, <1>4, <1>5

\* The number of neighbours is what is read while they are counted.
LEMMA CountingGetters ==
    ASSUME NEW n \in WrittenNodes, HasCount(n), GetType(n) # "inner",
           cursor'.field = cursor.field
    PROVE  /\ GetType(n)' = GetType(n) /\ HasCount(n)' = HasCount(n)
           /\ FileDatum(n)' = FileDatum(n) /\ Answer(n)' = Answer(n)
  <1>1. n.ops = "netif" /\ cursor.field = 3 /\ cursor'.field = 3
    BY DEF HasCount, CountsNeighbours
  <1>2. n.is_root \in 0 .. 4
    BY <1>1, NetifAt, Kinds DEF OfNetif, NetifNode
  <1>3. n.is_root \in 0 .. 2
    BY <1>1, <1>2 DEF GetType, NetifType
  <1>4. GetType(n) = "int" /\ GetType(n)' = "int"
    BY <1>1, <1>3 DEF GetType, NetifType
  <1>5. HasCount(n)'
    BY <1>1, <1>4 DEF HasCount, CountsNeighbours
  <1>6. FileDatum(n)' = FileDatum(n)
    BY <1>5 DEF FileDatum, IfaceKey
  <1>7. QED  BY <1>4, <1>5, <1>6 DEF Answer

\* A step of the task in a call of read, and what it does to the counters.
LEMMA ReadStepInv ==
    ASSUME FsInv, InsertInv, CatInv, fs.pc = "read", Call(Shell), UNCHANGED fs
    PROVE  /\ CatInv'
           /\ \/ UNCHANGED <<cursor, list>>
              \/ /\ HasCount(fs.file) /\ GetType(fs.file) # "inner"
                 /\ cursor'.field = cursor.field
  <1>1. PICK n \in WrittenNodes : n = fs.file /\ n = fs'.file
    BY DEF FsInv
  <1>2. PICK r : /\ r = task[Shell] /\ DOMAIN r = TaskFields /\ r.cmd = "vfs"
                 /\ ReadsFile(r, n)
    BY <1>1 DEF FsInv, CatInv, Calls
  <1>3. r.pc # "idle"
    BY <1>2 DEF Call, Tests, Lookup, Match, Type, List, Show, ValueToStr, CheckType,
                GetValue, Count, Add, Link, Publish, Counted, Fault, At, InsertInv
  <1>4. Child(Shell) = n
    <2>1. task[Shell].stack = <<n>>
      BY <1>2, <1>3 DEF ReadsFile
    <2>2. QED  BY <2>1 DEF Child, Last
  <1>5. ASSUME NEW q, Update(Shell, q), ReadsFile(q, n),
               GetType(n)' = GetType(n), HasCount(n)' = HasCount(n),
               FileDatum(n)' = FileDatum(n), Answer(n)' = Answer(n)
        PROVE  CatInv'
    <2>1. task'[Shell] = q
      BY <1>5, ShellUpdated DEF FsInv
    <2>2. ReadsFile(q, n)'
      BY <1>5 DEF ReadsFile
    <2>3. fs.cmd = "cat" => PrintsFile(fs)'
      BY <1>1, <1>5 DEF CatInv, PrintsFile
    <2>4. QED  BY <1>1, <2>1, <2>2, <2>3 DEF CatInv, CatWhole
  <1>6. \A res : /\ DOMAIN Printed(r, res) = TaskFields
                 /\ Printed(r, res).pc = "idle" /\ Printed(r, res).res = res
    BY <1>2 DEF Printed, Finished, Idle, TaskFields
  <1>7. CASE ValueToStr(Shell)
    <2>1. UNCHANGED <<cursor, list>> /\ r.pc = "print" /\ r.stack = <<n>>
      BY <1>2, <1>7 DEF ValueToStr, db, At, ReadsFile
    <2>2. CASE GetType(n) = "inner"
      <3>1. Update(Shell, Printed(r, <<"error", <<"error">> >>))
        BY <1>2, <1>4, <1>7, <2>2 DEF ValueToStr
      <3>2. ReadsFile(Printed(r, <<"error", <<"error">> >>), n)
        BY <1>6, <2>2 DEF ReadsFile, Answer
      <3>3. QED  BY <1>5, <2>1, <3>1, <3>2, SameGetters
    <2>3. CASE GetType(n) # "inner"
      <3>1. PICK q : /\ q = [r EXCEPT !.pc = "assert", !.type = GetType(n)]
                     /\ Update(Shell, q)
        BY <1>2, <1>4, <1>7, <2>3 DEF ValueToStr
      <3>2. q.pc = "assert" /\ q.type = GetType(n) /\ q.stack = <<n>>
        BY <1>2, <2>1, <3>1 DEF TaskFields
      <3>3. ReadsFile(q, n)
        BY <2>3, <3>2 DEF ReadsFile, Reading
      <3>4. QED  BY <1>5, <2>1, <3>1, <3>3, SameGetters
    <2>4. QED  BY <2>2, <2>3
  <1>8. CASE CheckType(Shell)
    <2>1. /\ UNCHANGED <<cursor, list>> /\ r.stack = <<n>>
          /\ r.type = GetType(n) /\ GetType(n) # "inner"
      BY <1>2, <1>3, <1>8 DEF CheckType, db, At, ReadsFile
    <2>2. PICK q : q = [r EXCEPT !.pc = "read"] /\ Update(Shell, q)
      BY <1>2, <1>8 DEF CheckType
    <2>3. q.pc = "read" /\ q.type = GetType(n) /\ q.stack = <<n>>
      BY <1>2, <2>1, <2>2 DEF TaskFields
    <2>4. ReadsFile(q, n)
      BY <2>1, <2>3 DEF ReadsFile, Reading
    <2>5. QED  BY <1>5, <2>1, <2>2, <2>4, SameGetters
  <1>9. CASE GetValue(Shell)
    <2>1. /\ r.stack = <<n>> /\ r.type = GetType(n) /\ GetType(n) # "inner"
          /\ r.pc = "read" /\ list' = list
      BY <1>2, <1>3, <1>9 DEF GetValue, At, ReadsFile
    <2>2. CASE HasCount(n)
      <3>1. cursor' = [cursor EXCEPT !.num = 0]
        BY <1>2, <1>4, <1>9, <2>1, <2>2 DEF GetValue, HasCount
      <3>2. cursor'.field = cursor.field
        BY <3>1 DEF FsInv, CursorSet
      <3>3. PICK q : q = [r EXCEPT !.pc = "count"] /\ Update(Shell, q)
        BY <1>2, <1>4, <1>9, <2>1, <2>2 DEF GetValue, HasCount
      <3>4. q.pc = "count" /\ q.type = GetType(n) /\ q.stack = <<n>>
        BY <1>2, <2>1, <3>3 DEF TaskFields
      <3>5. ReadsFile(q, n)
        BY <2>1, <2>2, <3>4 DEF ReadsFile, Reading
      <3>6. QED  BY <1>1, <1>5, <2>1, <2>2, <3>2, <3>3, <3>5, CountingGetters
    <2>3. CASE ~HasCount(n)
      <3>1. /\ Update(Shell, Printed(r, <<"value", Datum(n, GetType(n))>>))
            /\ cursor' = cursor
        BY <1>2, <1>4, <1>9, <2>1, <2>3 DEF GetValue, HasCount
      <3>2. ReadsFile(Printed(r, <<"value", Datum(n, GetType(n))>>), n)
        BY <1>6, <2>1, <2>3 DEF ReadsFile, Answer, FileDatum
      <3>3. QED  BY <1>5, <2>1, <3>1, <3>2, SameGetters
    <2>4. QED  BY <2>2, <2>3
  <1>10. CASE Count(Shell) \/ Entered(Shell)
    <2>1. /\ r.stack = <<n>> /\ r.type = GetType(n) /\ GetType(n) # "inner"
          /\ HasCount(n)
      BY <1>2, <1>3, <1>10 DEF Count, Entered, At, ReadsFile
    <2>2. cursor'.field = cursor.field
      BY <1>10 DEF Count, Entered, FsInv, CursorSet
    <2>3. PICK q, i, a : /\ \/ q = [r EXCEPT !.pc = "add", !.slot = i, !.nce = a]
                            \/ q = [r EXCEPT !.pc = "count", !.nce = Free]
                         /\ Update(Shell, q)
      BY <1>2, <1>10 DEF Count, Entered, CountOn
    <2>4. q.pc \in {"count", "add"} /\ q.type = GetType(n) /\ q.stack = <<n>>
      BY <1>2, <2>1, <2>3 DEF TaskFields
    <2>5. ReadsFile(q, n)
      BY <2>1, <2>4 DEF ReadsFile, Reading
    <2>6. QED  BY <1>1, <1>5, <2>1, <2>2, <2>3, <2>5, CountingGetters
  <1>11. CASE Counted(Shell)
    <2>1. GetType(n) # "inner" /\ HasCount(n) /\ UNCHANGED <<cursor, list>>
      BY <1>2, <1>3, <1>11 DEF Counted, At, ReadsFile, db
    <2>2. PICK res : /\ res = <<"value", IfaceKey(n.iface) \o <<"num_neighbours">> >>
                     /\ Update(Shell, Printed(r, res))
      BY <1>2, <1>4, <1>11 DEF Counted
    <2>3. res = Answer(n)
      BY <2>1, <2>2 DEF Answer, FileDatum
    <2>4. ReadsFile(Printed(r, res), n)
      BY <1>6, <2>3 DEF ReadsFile
    <2>5. QED  BY <1>5, <2>1, <2>2, <2>4, SameGetters
  <1>12. CASE Fault(Shell)
    <2>1. UNCHANGED <<task, cursor, list>>
      BY <1>12 DEF Fault, Halt, db
    <2>2. ReadsFile(task[Shell], fs.file)' /\ (fs.cmd = "cat" => PrintsFile(fs)')
      <3>1. /\ GetType(n)' = GetType(n) /\ HasCount(n)' = HasCount(n)
            /\ FileDatum(n)' = FileDatum(n) /\ Answer(n)' = Answer(n)
        BY <2>1, SameGetters
      <3>2. ReadsFile(r, n)'
        BY <1>2, <3>1 DEF ReadsFile
      <3>3. fs.cmd = "cat" => PrintsFile(fs)'
        BY <1>1, <3>1 DEF CatInv, PrintsFile
      <3>4. QED  BY <1>1, <1>2, <2>1, <3>2, <3>3
    <2>3. QED  BY <2>1, <2>2 DEF CatInv, CatWhole
  <1>13. ~(\/ Tests(Shell) \/ Lookup(Shell) \/ Match(Shell) \/ Type(Shell)
           \/ List(Shell) \/ Show(Shell))
    BY <1>2, <1>3 DEF ReadsFile, Reading, Tests, Lookup, Match, Type, List, Show, At
  <1>14. CASE (Add(Shell) \/ Link(Shell) \/ Publish(Shell)) /\ ~Entered(Shell)
    <2>1. UNCHANGED <<task, cursor>>
      BY <1>14, InsertionIs DEF Tasks
    <2>2. r.pc = "add"
      BY <1>2, <1>14 DEF InsertInv, Add, Link, Publish, At
    <2>3. HasCount(n) /\ GetType(n) # "inner"
      BY <1>2, <2>2 DEF ReadsFile
    <2>4. /\ GetType(n)' = GetType(n) /\ HasCount(n)' = HasCount(n)
          /\ FileDatum(n)' = FileDatum(n) /\ Answer(n)' = Answer(n)
      BY <2>1, <2>3, CountingGetters
    <2>5. ReadsFile(r, n)'
      BY <1>2, <2>4 DEF ReadsFile
    <2>6. fs.cmd = "cat" => PrintsFile(fs)'
      BY <1>1, <2>4 DEF CatInv, PrintsFile
    <2>7. CatInv'
      BY <1>1, <1>2, <2>1, <2>5, <2>6 DEF CatInv, CatWhole
    <2>8. QED  BY <1>1, <2>1, <2>3, <2>7
  <1>15. QED
    BY <1>7, <1>8, <1>9, <1>10, <1>11, <1>12, <1>13, <1>14 DEF Call

\* read returns.
LEMMA CatReadPrints ==
    ASSUME FsInv, CatInv, CatRead
    PROVE  CatInv'
  <1>1. /\ fs.pc = "read" /\ fs.cmd = "cat" /\ DOMAIN task = Tasks
        /\ task[Shell].pc = "idle" /\ DOMAIN fs = FsFields /\ fs.pos \in 0 .. Size
        /\ fs.res = "none" /\ UNCHANGED <<cursor, list>> /\ Size \in Nat \ {0}
    BY FsAssumption DEF CatRead, In, FsInv, Locals, KeepFs, db
  <1>2. PICK n \in WrittenNodes : n = fs.file
    BY <1>1 DEF FsInv
  <1>3. task[Shell].res = Answer(n) /\ PrintsFile(fs)
    BY <1>1, <1>2 DEF CatInv, ReadsFile
  <1>4. /\ GetType(n)' = GetType(n) /\ HasCount(n)' = HasCount(n)
        /\ FileDatum(n)' = FileDatum(n) /\ Answer(n)' = Answer(n)
    BY <1>1, SameGetters
  <1>5. PICK out, k :
          /\ k \in Nat /\ out = fs.out /\ k = fs.pos /\ k \in 0 .. Size
          /\ out \in Seq(ToSet(out)) /\ Len(out) = k
          /\ GetType(n) = "inner" => k = 0
          /\ \A i \in 1 .. k : out[i].pos = i - 1 /\ out[i].datum = FileDatum(n)
    <2>1. fs.pos \in Nat
      BY <1>1
    <2>2. /\ fs.out \in Seq(ToSet(fs.out)) /\ Len(fs.out) = fs.pos
          /\ GetType(n) = "inner" => fs.pos = 0
          /\ \A i \in 1 .. fs.pos : /\ fs.out[i].pos = i - 1
                                   /\ fs.out[i].datum = FileDatum(n)
      BY <1>2, <1>3 DEF PrintsFile
    <2>3. QED  BY <1>1, <2>1, <2>2
  <1>6. PICK err : /\ err = (task[Shell].res[1] = "error")
                   /\ IF ReadStops(fs, err) THEN FsReturns(fs, "done") /\ NoCall
                      ELSE /\ fs' = IF err THEN fs
                                    ELSE [fs EXCEPT !.out = Append(@, Piece(fs)),
                                                    !.pos = @ + 1]
                           /\ ReadFile(fs.file, fs.path)
    BY DEF CatRead
  <1>7. err <=> GetType(n) = "inner"
    <2>1. /\ <<"error", <<"error">> >>[1] = "error"
          /\ <<"value", FileDatum(n)>>[1] = "value"
      OBVIOUS
    <2>2. task[Shell].res[1] = IF GetType(n) = "inner" THEN "error" ELSE "value"
      BY <1>3, <2>1 DEF Answer
    <2>3. QED  BY <1>6, <2>2
  <1>8. CASE ReadStops(fs, err)
    <2>1. fs'.pc = "idle" /\ fs'.out = out
      BY <1>5, <1>6, <1>8 DEF FsReturns, FsIdle
    <2>2. ASSUME out # <<>>
          PROVE  /\ [i \in DOMAIN out |-> out[i].pos] = [i \in 1 .. Size |-> i - 1]
                 /\ \A i \in DOMAIN out : out[i].datum = out[1].datum
      <3>1. k > 0 /\ DOMAIN out = 1 .. k
        BY <1>5, <2>2
      <3>2. k >= Size
        BY <1>5, <1>7, <1>8, <3>1 DEF ReadStops, AtEnd
      <3>3. k = Size
        BY <1>1, <1>5, <3>2
      <3>4. 1 \in 1 .. k
        BY <1>5, <3>1
      <3>5. QED  BY <1>5, <3>1, <3>3, <3>4
    <2>3. QED  BY <2>1, <2>2 DEF CatInv, CatWhole
  <1>9. ASSUME ~ReadStops(fs, err)
        PROVE  /\ task'[Shell].pc = "print" /\ task'[Shell].stack = <<n>>
               /\ ReadsFile(task[Shell], n)'
    <2>1. task'[Shell].pc = "print" /\ task'[Shell].stack = <<n>>
      BY <1>1, <1>2, <1>6, <1>9, ReadFileCalls
    <2>2. QED  BY <2>1 DEF ReadsFile, Reading
  <1>10. CASE ~ReadStops(fs, err) /\ err
    <2>1. fs' = fs
      BY <1>6, <1>10
    <2>2. PrintsFile(fs)'
      BY <1>2, <1>3, <1>4, <2>1 DEF PrintsFile
    <2>3. QED  BY <1>1, <1>2, <1>9, <1>10, <2>1, <2>2 DEF CatInv, CatWhole
  <1>11. CASE ~ReadStops(fs, err) /\ ~err
    <2>1. PICK g, x : /\ g = fs' /\ x = Piece(fs)
      OBVIOUS
    <2>2. g = [fs EXCEPT !.out = Append(@, x), !.pos = @ + 1]
      BY <1>6, <1>11, <2>1
    <2>3. /\ g.out = Append(out, x) /\ g.pos = k + 1 /\ g.file = n
          /\ g.pc = "read" /\ g.cmd = "cat" /\ g.res = "none"
      BY <1>1, <1>2, <1>5, <2>2 DEF FsFields
    <2>4. x.pos = k /\ x.datum = FileDatum(n)
      <3>1. task[Shell].res = <<"value", FileDatum(n)>>
        BY <1>3, <1>7, <1>11 DEF Answer
      <3>2. Last(<<"value", FileDatum(n)>>) = FileDatum(n)
        BY DEF Last
      <3>3. QED  BY <1>5, <2>1, <3>1, <3>2 DEF Piece
    <2>5. PICK o : o = Append(out, x)
      OBVIOUS
    <2>6. /\ o \in Seq(ToSet(out) \cup {x}) /\ Len(o) = k + 1 /\ o[k + 1] = x
          /\ \A i \in 1 .. k : o[i] = out[i]
      BY <1>5, <2>5
    <2>7. o \in Seq(ToSet(o))
      BY <2>6, OfItsElements
    <2>8. \A i \in 1 .. k + 1 : o[i].pos = i - 1 /\ o[i].datum = FileDatum(n)
      <3>1. \A i \in 1 .. k + 1 : i = k + 1 \/ i \in 1 .. k
        BY <1>5
      <3>2. (k + 1) - 1 = k
        BY <1>5
      <3>3. QED  BY <1>5, <2>4, <2>6, <3>1, <3>2
    <2>9. PrintsFile(fs)'
      <3>1. fs'.out = o /\ fs'.pos = k + 1 /\ fs'.file = n
        BY <2>1, <2>3, <2>5
      <3>2. GetType(n)' # "inner"
        BY <1>4, <1>7, <1>11
      <3>3. QED  BY <1>4, <2>6, <2>7, <2>8, <3>1, <3>2 DEF PrintsFile
    <2>10. QED  BY <1>9, <1>11, <2>1, <2>3, <2>9 DEF CatInv, CatWhole
  <1>12. QED  BY <1>8, <1>10, <1>11

\* The file is opened, and its first byte read.
LEMMA CatOpenPrints ==
    ASSUME FsInv, CatInv, CatOpen
    PROVE  CatInv'
  <1>1. /\ fs.pc = "open" /\ fs.cmd = "cat" /\ DOMAIN task = Tasks
        /\ DOMAIN fs = FsFields /\ fs.res = "none" /\ fs.out = <<>> /\ fs.pos = 0
        /\ Calls(task[Shell])
    BY DEF CatOpen, In, FsInv, Locals, CatInv
  <1>2. CASE Missing
    <2>1. FsReturns(fs, "refused")
      BY <1>2 DEF CatOpen, Found, Missing
    <2>2. fs'.pc = "idle" /\ fs'.res = "refused"
      BY <2>1 DEF FsReturns, FsIdle
    <2>3. QED  BY <2>2 DEF CatInv, CatWhole
  <1>3. CASE Found
    <2>1. PICK n \in WrittenNodes : n = Node1
      BY <1>1, <1>3, NodeFound
    <2>2. /\ fs' = [fs EXCEPT !.pc = "read", !.file = n, !.path = fs.target]
          /\ ReadFile(n, fs.target)
      BY <1>3, <2>1 DEF CatOpen, Found, Missing
    <2>3. /\ fs'.pc = "read" /\ fs'.file = n /\ fs'.out = <<>> /\ fs'.pos = 0
          /\ fs'.res = "none"
      BY <1>1, <2>2 DEF FsFields
    <2>4. task'[Shell].pc = "print" /\ task'[Shell].stack = <<n>>
      BY <1>1, <2>2, ReadFileCalls
    <2>5. ReadsFile(task[Shell], fs.file)'
      BY <2>3, <2>4 DEF ReadsFile, Reading
    <2>6. PrintsFile(fs)'
      <3>1. <<>> \in Seq(ToSet(<<>>)) /\ Len(<<>>) = 0
        OBVIOUS
      <3>2. \A i \in 1 .. 0 : FALSE
        OBVIOUS
      <3>3. QED  BY <2>3, <3>1, <3>2 DEF PrintsFile
    <2>7. QED  BY <2>3, <2>5, <2>6 DEF CatInv, CatWhole
  <1>4. QED  BY <1>2, <1>3 DEF CatOpen

\* A step of tree that neither opens a file nor reads one; out is printed by then.
Passing(out) ==
    /\ fs'.cmd = "tree" /\ fs'.pc \notin {"open", "read"} /\ fs'.out = out
    /\ \/ \E p : FindNode(p)
       \/ \E q : Update(Shell, q) /\ q.pc \in {"idle", "readdir", "dirname"}

\* So is the reading of a directory.
LEMMA ReadDirMoves ==
    ASSUME NEW n, ReadDir(n)
    PROVE  \E q : Update(Shell, q) /\ q.pc = "readdir"
  <1>1. PICK q : /\ q = [Idle EXCEPT !.cmd = "vfs", !.pc = "readdir",
                                     !.stack = <<n, Uninitialised>>]
                 /\ Update(Shell, q)
    BY DEF ReadDir
  <1>2. q.pc = "readdir"
    BY <1>1 DEF Idle
  <1>3. QED  BY <1>1, <1>2

\* Returning, entering and leaving an entry are such steps.
LEMMA MovesOn ==
    ASSUME NEW f, DOMAIN f = FsFields, f.cmd = "tree"
    PROVE  /\ \A res : FsReturns(f, res) /\ NoCall => Passing(f.out)
           /\ \A names : Enter(f, names) => Passing(f.out)
           /\ GoOn(f) \/ LeaveEntry(f) => Passing(f.out)
  <1>1. ASSUME NEW g, DOMAIN g = FsFields, g.cmd = "tree", NEW res,
               FsReturns(g, res), NoCall
        PROVE  Passing(g.out)
    BY <1>1 DEF FsReturns, FsIdle, NoCall, Idle, Passing
  <1>2. ASSUME NEW names, Enter(f, names)
        PROVE  Passing(f.out)
    BY <1>2 DEF Enter, FsFields, Passing
  <1>3. ASSUME NEW g, DOMAIN g = FsFields, g.cmd = "tree", GoOn(g)
        PROVE  Passing(g.out)
    <2>1. CASE Front(g.frames) = <<>>
      BY <1>1, <1>3, <2>1 DEF GoOn
    <2>2. CASE Front(g.frames) # <<>>
      <3>1. PICK rest : /\ fs' = [g EXCEPT !.pc = "readdir", !.frames = rest]
                        /\ ReadDir(Last(rest).dir)
        BY <1>3, <2>2 DEF GoOn
      <3>2. fs'.cmd = "tree" /\ fs'.pc = "readdir" /\ fs'.out = g.out
        BY <1>3, <3>1 DEF FsFields
      <3>3. \E q : Update(Shell, q) /\ q.pc = "readdir"
        BY <3>1, ReadDirMoves
      <3>4. QED  BY <3>2, <3>3 DEF Passing
    <2>3. QED  BY <2>1, <2>2
  <1>4. ASSUME LeaveEntry(f)
        PROVE  Passing(f.out)
    <2>1. PICK g : g = [f EXCEPT !.path = Last(f.frames).base] /\ GoOn(g)
      BY <1>4 DEF LeaveEntry
    <2>2. DOMAIN g = FsFields /\ g.cmd = "tree" /\ g.out = f.out
      BY <2>1 DEF FsFields
    <2>3. QED  BY <1>3, <2>1, <2>2
  <1>5. QED  BY <1>1, <1>2, <1>3, <1>4

\* tree asks for a file before it opens it, opens it before it reads it, and
\* prints what it has read.
LEMMA TreeSteps ==
    ASSUME FsInv,
           \/ TreeRoot \/ TreeStat \/ TreeOpen \/ TreeRead \/ TreeOpendir
           \/ TreeReaddir \/ TreeName
    PROVE  /\ fs.cmd = "tree" /\ UNCHANGED list
           /\ \/ Passing(fs.out)
              \/ /\ fs.pc = "read" /\ task[Shell].pc = "idle" /\ UNCHANGED cursor
                 /\ Passing(Append(fs.out, Piece(fs)))
              \/ /\ fs'.cmd = "tree" /\ fs'.pc = "open" /\ fs'.out = fs.out
                 /\ FindNode(fs'.path)
              \/ /\ fs.pc = "open" /\ Found /\ UNCHANGED cursor
                 /\ fs'.cmd = "tree" /\ fs'.pc = "read" /\ fs'.out = fs.out
                 /\ fs'.path = fs.path /\ fs'.file = Node1 /\ ReadFile(Node1, fs.path)
  <1>1. fs.cmd = "tree" /\ DOMAIN fs = FsFields /\ UNCHANGED list
    BY DEF FsInv, Locals, TreeRoot, TreeStat, TreeOpen, TreeRead, TreeOpendir,
           TreeReaddir, TreeName, In, KeepFs, db
  <1>2. CASE TreeRoot \/ TreeName
    BY <1>1, <1>2, MovesOn DEF TreeRoot, TreeName
  <1>3. CASE TreeStat
    <2>1. PICK f : f = [fs EXCEPT !.stale = Node1]
      OBVIOUS
    <2>2. DOMAIN f = FsFields /\ f.cmd = "tree" /\ f.out = fs.out
      BY <1>1, <2>1 DEF FsFields
    <2>3. \/ \E pc \in {"opendir", "open"} :
                /\ fs' = [fs EXCEPT !.pc = pc, !.stale = Node1]
                /\ FindNode(fs.path)
          \/ LeaveEntry(f)
          \/ FsReturns(fs, "failed") /\ NoCall
      BY <1>3, <2>1 DEF TreeStat
    <2>4. ASSUME NEW pc \in {"opendir", "open"}, FindNode(fs.path),
                 fs' = [fs EXCEPT !.pc = pc, !.stale = Node1]
          PROVE  \/ Passing(fs.out)
                 \/ /\ fs'.cmd = "tree" /\ fs'.pc = "open" /\ fs'.out = fs.out
                    /\ FindNode(fs'.path)
      <3>1. fs'.cmd = "tree" /\ fs'.pc = pc /\ fs'.out = fs.out /\ fs'.path = fs.path
        BY <1>1, <2>4 DEF FsFields
      <3>2. QED  BY <2>4, <3>1 DEF Passing
    <2>5. QED  BY <1>1, <2>2, <2>3, <2>4, MovesOn
  <1>4. CASE TreeOpen
    <2>1. CASE Missing
      <3>1. GoOn(fs)
        BY <1>4, <2>1 DEF TreeOpen, Found, Missing
      <3>2. QED  BY <1>1, <3>1, MovesOn
    <2>2. CASE Found
      <3>1. /\ fs' = [fs EXCEPT !.pc = "read", !.stale = Node1, !.file = Node1]
            /\ ReadFile(Node1, fs.path) /\ fs.pc = "open" /\ UNCHANGED cursor
        BY <1>4, <2>2 DEF TreeOpen, Found, Missing, In, KeepFs, db
      <3>2. /\ fs'.cmd = "tree" /\ fs'.pc = "read" /\ fs'.out = fs.out
            /\ fs'.path = fs.path /\ fs'.file = Node1
        BY <1>1, <3>1 DEF FsFields
      <3>3. QED  BY <1>1, <2>2, <3>1, <3>2
    <2>3. QED  BY <1>4, <2>1, <2>2 DEF TreeOpen
  <1>5. CASE TreeRead
    <2>1. PICK x, f : /\ x = Piece(fs) /\ LeaveEntry(f)
                      /\ f = [fs EXCEPT !.out = Append(@, x), !.file = NullNode]
      BY <1>5 DEF TreeRead
    <2>2. DOMAIN f = FsFields /\ f.cmd = "tree" /\ f.out = Append(fs.out, x)
      BY <1>1, <2>1 DEF FsFields
    <2>3. fs.pc = "read" /\ task[Shell].pc = "idle" /\ UNCHANGED cursor
      BY <1>5 DEF TreeRead, In, KeepFs, db
    <2>4. QED  BY <1>1, <2>1, <2>2, <2>3, MovesOn
  <1>6. CASE TreeOpendir
    <2>1. \/ /\ fs' = [fs EXCEPT !.pc = "readdir", !.stale = Node1,
                                 !.frames[Len(fs.frames)].dir = Node1]
             /\ ReadDir(Node1)
          \/ FsReturns(fs, "failed") /\ NoCall
      BY <1>6 DEF TreeOpendir
    <2>2. ASSUME fs' = [fs EXCEPT !.pc = "readdir", !.stale = Node1,
                                  !.frames[Len(fs.frames)].dir = Node1],
                 ReadDir(Node1)
          PROVE  Passing(fs.out)
      <3>1. fs'.cmd = "tree" /\ fs'.pc = "readdir" /\ fs'.out = fs.out
        BY <1>1, <2>2 DEF FsFields
      <3>2. \E q : Update(Shell, q) /\ q.pc = "readdir"
        BY <2>2, ReadDirMoves
      <3>3. QED  BY <3>1, <3>2 DEF Passing
    <2>3. QED  BY <1>1, <2>1, <2>2, MovesOn
  <1>7. CASE TreeReaddir
    <2>1. PICK s, child, f :
            /\ f = [fs EXCEPT !.frames[Len(fs.frames)].dir = s.node]
            /\ \/ LeaveEntry(f)
               \/ /\ fs' = [f EXCEPT !.stale = child]
                  /\ Update(Shell, [task[Shell] EXCEPT
                          !.pc = "dirname", !.stack = <<child>>, !.seen = <<>>])
      BY <1>7 DEF TreeReaddir
    <2>2. /\ DOMAIN f = FsFields /\ f.cmd = "tree" /\ f.out = fs.out
          /\ fs.pc = "readdir" /\ f.pc = fs.pc
      BY <1>1, <1>7, <2>1 DEF FsFields, TreeReaddir, In
    <2>3. ASSUME fs' = [f EXCEPT !.stale = child],
                 Update(Shell, [task[Shell] EXCEPT
                         !.pc = "dirname", !.stack = <<child>>, !.seen = <<>>])
          PROVE  Passing(fs.out)
      <3>1. fs'.cmd = "tree" /\ fs'.pc = "readdir" /\ fs'.out = fs.out
        BY <2>2, <2>3 DEF FsFields
      <3>2. DOMAIN task[Shell] = TaskFields
        BY <2>2 DEF FsInv, Calls
      <3>3. PICK q : q = [task[Shell] EXCEPT
                            !.pc = "dirname", !.stack = <<child>>, !.seen = <<>>]
        OBVIOUS
      <3>4. q.pc = "dirname"
        BY <3>2, <3>3 DEF TaskFields
      <3>5. QED  BY <2>3, <3>1, <3>3, <3>4 DEF Passing
    <2>4. QED  BY <1>1, <2>1, <2>2, <2>3, MovesOn
  <1>8. QED  BY <1>2, <1>3, <1>4, <1>5, <1>6, <1>7

\* What cat prints is invariant.
LEMMA CatInvStep ==
    ASSUME FsInv, InsertInv, CatInv, Requests[Coap] = {}, [FsNext]_fsVars
    PROVE  CatInv'
  <1>1. CASE FsRequest
    <2>1. fs'.res = "none" /\ fs'.out = <<>> /\ fs'.pos = 0 /\ fs'.pc # "read"
      BY <1>1 DEF FsRequest, FsIdle
    <2>2. QED  BY <2>1 DEF CatInv, CatWhole
  <1>2. CASE TreeRoot \/ TreeStat \/ TreeOpen \/ TreeRead \/ TreeOpendir
                \/ TreeReaddir \/ TreeName
    <2>1. ASSUME fs.pc = "open", Found, fs'.cmd = "tree", fs'.pc = "read",
                 fs'.file = Node1, ReadFile(Node1, fs.path)
          PROVE  CatInv'
      <3>1. Node1 \in WrittenNodes /\ DOMAIN task = Tasks
        BY <2>1, NodeFound DEF FsInv
      <3>2. task'[Shell].pc = "print" /\ task'[Shell].stack = <<Node1>>
        BY <2>1, <3>1, ReadFileCalls
      <3>3. ReadsFile(task[Shell], fs.file)'
        BY <2>1, <3>2 DEF ReadsFile, Reading
      <3>4. QED  BY <2>1, <3>3 DEF CatInv, CatWhole
    <2>2. ASSUME fs'.cmd = "tree", fs'.pc # "read"
          PROVE  CatInv'
      BY <2>2 DEF CatInv, CatWhole
    <2>3. QED  BY <1>2, <2>1, <2>2, TreeSteps DEF Passing
  <1>3. CASE CatOpen \/ CatRead
    BY <1>3, CatOpenPrints, CatReadPrints
  <1>4. ASSUME UNCHANGED fs, fs.pc # "read"
        PROVE  CatInv'
    BY <1>4 DEF CatInv, CatWhole
  <1>5. CASE FsFault
    <2>1. fs.pc # "read" /\ UNCHANGED fs
      BY <1>5 DEF FsFault, In
    <2>2. QED  BY <1>4, <2>1
  <1>6. ASSUME NEW t \in Tasks, UNCHANGED fs,
               Call(t) \/ (Request(t) /\ (t = Shell => fs.pc = "idle"))
        PROVE  CatInv'
    <2>1. t = Shell
      BY <1>6, HandlerRests DEF Tasks
    <2>2. QED  BY <1>4, <1>6, <2>1, ReadStepInv
  <1>7. CASE UNCHANGED fsVars
    <2>1. UNCHANGED <<fs, task, cursor, list>>
      BY <1>7 DEF fsVars, vars
    <2>2. CASE fs.pc = "read"
      <3>1. PICK n : n = fs.file
        OBVIOUS
      <3>2. /\ GetType(n)' = GetType(n) /\ HasCount(n)' = HasCount(n)
            /\ FileDatum(n)' = FileDatum(n) /\ Answer(n)' = Answer(n)
        BY <2>1, SameGetters
      <3>3. ReadsFile(task[Shell], fs.file)'
        BY <2>1, <2>2, <3>1, <3>2 DEF CatInv, ReadsFile
      <3>4. fs.cmd = "cat" => PrintsFile(fs)'
        BY <2>1, <2>2, <3>1, <3>2 DEF CatInv, PrintsFile
      <3>5. QED  BY <2>1, <3>3, <3>4 DEF CatInv, CatWhole
    <2>3. QED  BY <1>4, <2>1, <2>2
  <1>8. CASE fs.pc = "idle" /\ Measure /\ UNCHANGED fs
    BY <1>4, <1>8
  <1>9. QED  BY <1>1, <1>2, <1>3, <1>5, <1>6, <1>7, <1>8 DEF FsNext, FsStep

\* cat prints every piece of one value, in order and none twice, for every
\* board and wherever earlier commands have left the counters: the getters
\* move no counter they select a value by.
THEOREM CatCorrect ==
    ASSUME Requests[Coap] = {}
    PROVE  FsSpec => []CatWhole
  <1>1. FsInit => CatInv
    BY DEF FsInit, FsIdle, CatInv, CatWhole
  <1>2. FsSpec => [](FsInv /\ InsertInv)
    BY ShapesInvariant
  <1>3. FsSpec => []CatInv
    BY <1>1, <1>2, CatInvStep, PTL DEF FsSpec
  <1>4. CatInv => CatWhole
    BY DEF CatInv
  <1>5. QED  BY <1>3, <1>4, PTL

-----------------------------------------------------------------------------
(* What is printed below a path is the value of that path.                 *)

\* No token of the path can be taken for a name of another level.
IsProper(p) == p \in Seq(STRING) /\ ProperPath(p)

\* The node is the one that the lookup of the path has found.
Names(p, n) == IsProper(p) => Folder(n, cursor) \/ Leaf(p, n, cursor, list)

\* A lookup has gone down along its path, and finds its node.
FindsPath(r) ==
    /\ r.pc \in {"lookup", "match"} /\ IsProper(r.path) => Searches(r, cursor, list)
    /\ r.pc = "found" => Names(r.path, r.stack[1])

\* tree takes a read that fails, as that of a directory does, for one of data.
ValuesSound ==
    \A i \in DOMAIN fs.out :
        IsProper(fs.out[i].path) =>
            \/ MatchesPath(fs.out[i].path, fs.out[i].datum)
            \/ fs.cmd = "tree" /\ fs.out[i].datum = <<"error">>

FilesInv ==
    /\ list \in Seq(Addresses) /\ Counts(task[Shell])
    /\ ValuesSound /\ fs.out \in Seq(ToSet(fs.out))
    /\ fs.cmd = "cat" => \A i \in DOMAIN fs.out : fs.out[i].path = fs.target
    /\ fs.pc # "idle" => FindsPath(task[Shell])
    /\ fs.pc \notin {"idle", "read"} => task[Shell].pc \notin Reading
    /\ fs.pc = "open" =>
          task[Shell].path = IF fs.cmd = "cat" THEN fs.target ELSE fs.path
    /\ fs.pc = "read" => Names(fs.path, fs.file)
    /\ fs.pc = "read" /\ fs.cmd = "cat" => fs.path = fs.target

\* The insertions in progress are of addresses.
HoldsInv == \A t \in Tasks : Holds(ins[t])

\* stat, open and opendir start at the root.
LEMMA FindNodeFinds ==
    ASSUME DOMAIN task = Tasks, NEW path, FindNode(path)
    PROVE  /\ FindsPath(task[Shell])' /\ task'[Shell].path = path
           /\ task'[Shell].pc \in {"lookup", "found"}
  <1>1. PICK r : r = [Idle EXCEPT !.cmd = "vfs", !.path = path, !.todo = path]
    OBVIOUS
  <1>2. DOMAIN r = TaskFields /\ r.path = path /\ r.todo = path /\ r.cmd = "vfs"
    BY <1>1 DEF Idle, TaskFields
  <1>3. PICK q : /\ Update(Shell, q)
                 /\ q = IF path = <<>> THEN FoundNode(r, Root)
                        ELSE [r EXCEPT !.pc = "lookup",
                                       !.stack = <<Root, Uninitialised>>]
    BY <1>1 DEF FindNode
  <1>4. task'[Shell] = q
    BY <1>3, ShellUpdated
  <1>5. CASE path = <<>>
    <2>1. q.pc = "found" /\ q.stack = <<Root>> /\ q.path = path
      BY <1>2, <1>3, <1>5 DEF FoundNode, TaskFields
    <2>2. Folder(q.stack[1], cursor')
      BY <2>1 DEF Folder, Root, RootNode
    <2>3. FindsPath(q)'
      BY <2>1, <2>2 DEF FindsPath, Names
    <2>4. QED  BY <1>4, <2>1, <2>3
  <1>6. CASE path # <<>>
    <2>1. /\ q.pc = "lookup" /\ q.path = path /\ q.todo = path
          /\ q.stack = <<Root, Uninitialised>>
      BY <1>2, <1>3, <1>6 DEF TaskFields
    <2>2. /\ Len(q.stack) = 2 /\ q.stack[1] = Root /\ q.stack[2] = Uninitialised
      BY <2>1
    <2>3. ASSUME IsProper(path)
          PROVE  Searches(q, cursor', list')
      <3>1. /\ 0 \in 0 .. Len(path) - 1
            /\ path = SubSeq(path, 0 + 1, Len(path))
        <4>1. path \in Seq(STRING) /\ Len(path) \in Nat /\ Len(path) # 0
          BY <1>6, <2>3 DEF IsProper
        <4>2. SubSeq(path, 1, Len(path)) = path
          BY <4>1, SubSeqFull
        <4>3. QED  BY <4>1, <4>2
      <3>2. Enters(path, 0, Root, Uninitialised, cursor', list')
        BY DEF Enters, TopEnters
      <3>3. 0 \notin {3, 4}
        OBVIOUS
      <3>4. QED  BY <2>1, <2>2, <3>1, <3>2, <3>3 DEF Searches
    <2>4. FindsPath(q)'
      BY <2>1, <2>3 DEF FindsPath
    <2>5. QED  BY <1>4, <2>1, <2>4
  <1>7. QED  BY <1>5, <1>6

\* The search meets the next folder or leaf on its way.
LEMMA VfsLookupFinds ==
    ASSUME FsInv, Calls(task[Shell]), FindsPath(task[Shell]), Lookup(Shell)
    PROVE  \E q : /\ Update(Shell, q) /\ FindsPath(q)' /\ q.path = task[Shell].path
                  /\ q.pc \in {"match", "idle"}
  <1>1. PICK r : /\ r = task[Shell] /\ DOMAIN r = TaskFields /\ r.cmd = "vfs"
                 /\ r.seen = <<>> /\ r.pc = "lookup"
    BY DEF Calls, Lookup, At
  <1>2. PICK n \in WrittenNodes, c \in WrittenNodes \cup {Uninitialised} :
          r.stack = <<n, c>>
    BY <1>1 DEF Calls, Reading
  <1>3. Node(Shell) = n /\ Child(Shell) = c
    BY <1>1, <1>2 DEF Node, Child, Last
  <1>4. PICK s \in Outcomes(Shell) :
          /\ cursor' = s.cursor /\ list' = list
          /\ Update(Shell, IF s.child = NullNode THEN Finished(r, <<"enoent">>)
                           ELSE [Enumerated(Shell, s) EXCEPT !.pc = "match"])
    BY <1>1 DEF Lookup
  <1>5. s = NextChild(n, c, cursor, cursor)
    BY <1>1, <1>3, <1>4 DEF Outcomes
  <1>6. CASE s.child = NullNode
    <2>1. PICK q : q = Finished(r, <<"enoent">>)
      OBVIOUS
    <2>2. q.pc = "idle" /\ q.path = r.path
      BY <2>1 DEF Finished, Idle
    <2>3. FindsPath(q)'
      BY <2>2 DEF FindsPath
    <2>4. QED  BY <1>1, <1>4, <1>6, <2>1, <2>2, <2>3
  <1>7. CASE s.child # NullNode
    <2>1. PICK e : e = Enumerated(Shell, s)
      OBVIOUS
    <2>2. e = [r EXCEPT !.stack = <<s.node, s.child>>, !.seen = <<>>]
      <3>1. [<<n, c>> EXCEPT ![2 - 1] = s.node, ![2] = s.child] = <<s.node, s.child>>
        OBVIOUS
      <3>2. QED  BY <1>1, <1>2, <2>1, <3>1 DEF Enumerated
    <2>3. PICK q : q = [e EXCEPT !.pc = "match"]
      OBVIOUS
    <2>4. /\ q.pc = "match" /\ q.path = r.path /\ q.todo = r.todo /\ q.name = r.name
          /\ q.stack = <<s.node, s.child>>
      BY <1>1, <2>2, <2>3 DEF TaskFields
    <2>5. /\ Len(q.stack) = 2 /\ q.stack[1] = s.node /\ q.stack[2] = s.child
      BY <2>4
    <2>6. ASSUME IsProper(r.path)
          PROVE  Searches(q, cursor', list')
      <3>1. r.stack[1] = n /\ r.stack[2] = c
        BY <1>2
      <3>2. PICK d \in 0 .. Len(r.path) - 1 :
              /\ r.todo = SubSeq(r.path, d + 1, Len(r.path))
              /\ d \in {3, 4} => ~Matches(r.path[d + 1], r.name)
              /\ \/ Enters(r.path, d, n, c, cursor, list)
                 \/ Passes(r.path, d, n, c, cursor, list)
        BY <1>1, <2>6, <3>1 DEF FindsPath, Searches
      <3>3. Passes(r.path, d, s.node, s.child, s.cursor, list)
        BY <1>5, <1>7, <3>2, NextPasses DEF FsInv
      <3>4. QED  BY <1>4, <2>4, <2>5, <3>2, <3>3 DEF Searches
    <2>7. FindsPath(q)'
      BY <2>4, <2>6 DEF FindsPath
    <2>8. QED  BY <1>1, <1>4, <1>7, <2>1, <2>3, <2>4, <2>7
  <1>8. QED  BY <1>6, <1>7

\* It descends to the child whose name is the token, and ends where none is left.
LEMMA VfsMatchFinds ==
    ASSUME FsInv, list \in Seq(Addresses), Calls(task[Shell]),
           FindsPath(task[Shell]), Match(Shell)
    PROVE  \E q : /\ Update(Shell, q) /\ FindsPath(q)' /\ q.path = task[Shell].path
                  /\ q.pc \in {"lookup", "found"}
  <1>1. PICK r : /\ r = task[Shell] /\ DOMAIN r = TaskFields /\ r.cmd = "vfs"
                 /\ r.pc = "match"
    BY DEF Calls, Match, At
  <1>2. PICK n, c : r.stack = <<n, c>>
    BY <1>1 DEF Calls, Reading
  <1>3. Child(Shell) = c /\ Len(r.stack) = 2 /\ r.stack[1] = n /\ r.stack[2] = c
    BY <1>1, <1>2 DEF Child, Last
  <1>4. cursor' = cursor /\ list' = list
    BY DEF Match, db
  <1>5. PICK name, rest : name = GetName(c, r.name) /\ rest = Tail(r.todo)
    OBVIOUS
  <1>6. ASSUME IsProper(r.path)
        PROVE  \E d \in Nat :
                  /\ d < Len(r.path) /\ Len(r.path) \in Nat
                  /\ d \in {3, 4} => ~Matches(r.path[d + 1], r.name)
                  /\ Passes(r.path, d, n, c, cursor, list)
                  /\ r.todo = SubSeq(r.path, d + 1, Len(r.path))
                  /\ Head(r.todo) = r.path[d + 1]
                  /\ rest # <<>> <=> d + 1 < Len(r.path)
                  /\ rest = SubSeq(r.path, (d + 1) + 1, Len(r.path))
                  /\ Matches(r.path[d + 1], name) => Descends(r.path, d, c, r.name, list)
    <2>1. PICK d \in 0 .. Len(r.path) - 1 :
            /\ r.todo = SubSeq(r.path, d + 1, Len(r.path))
            /\ d \in {3, 4} => ~Matches(r.path[d + 1], r.name)
            /\ Passes(r.path, d, n, c, cursor, list)
      BY <1>1, <1>3, <1>6 DEF FindsPath, Searches
    <2>2. /\ r.path \in Seq(STRING) /\ ProperPath(r.path) /\ Len(r.path) \in Nat
          /\ d \in Nat /\ d < Len(r.path)
      BY <1>6, <2>1 DEF IsProper
    <2>3. /\ Head(r.todo) = r.path[d + 1]
          /\ rest # <<>> <=> d + 1 < Len(r.path)
          /\ rest = SubSeq(r.path, (d + 1) + 1, Len(r.path))
      BY <1>5, <2>1, <2>2, Tokens
    <2>4. Matches(r.path[d + 1], name) => Descends(r.path, d, c, r.name, list)
      BY <1>5, <2>1, <2>2, HitDescends DEF FsInv
    <2>5. QED  BY <2>1, <2>2, <2>3, <2>4
  <1>7. CASE ~Matches(Head(r.todo), name)
    <2>1. PICK q : q = [r EXCEPT !.pc = "lookup", !.name = name]
      OBVIOUS
    <2>2. /\ q.pc = "lookup" /\ q.path = r.path /\ q.todo = r.todo /\ q.name = name
          /\ q.stack = r.stack
      BY <1>1, <2>1 DEF TaskFields
    <2>3. ASSUME IsProper(r.path)
          PROVE  Searches(q, cursor', list')
      <3>1. PICK d \in Nat :
              /\ d < Len(r.path) /\ Len(r.path) \in Nat
              /\ Passes(r.path, d, n, c, cursor, list)
              /\ r.todo = SubSeq(r.path, d + 1, Len(r.path))
              /\ Head(r.todo) = r.path[d + 1]
        BY <1>6, <2>3
      <3>2. d \in 0 .. Len(r.path) - 1
        BY <3>1
      <3>3. QED  BY <1>3, <1>4, <1>7, <2>2, <3>1, <3>2 DEF Searches
    <2>4. FindsPath(q)'
      BY <2>2, <2>3 DEF FindsPath
    <2>5. Update(Shell, q)
      BY <1>1, <1>3, <1>5, <1>7, <2>1 DEF Match
    <2>6. QED  BY <1>1, <2>2, <2>4, <2>5
  <1>8. CASE Matches(Head(r.todo), name) /\ rest # <<>>
    <2>1. PICK q : q = [r EXCEPT !.pc = "lookup", !.todo = rest, !.name = name,
                                 !.stack = <<c, c>>]
      OBVIOUS
    <2>2. /\ q.pc = "lookup" /\ q.path = r.path /\ q.todo = rest /\ q.name = name
          /\ q.stack = <<c, c>>
      BY <1>1, <2>1 DEF TaskFields
    <2>3. Len(q.stack) = 2 /\ q.stack[1] = c /\ q.stack[2] = c
      BY <2>2
    <2>4. ASSUME IsProper(r.path)
          PROVE  Searches(q, cursor', list')
      <3>1. PICK d \in Nat :
              /\ Len(r.path) \in Nat /\ d + 1 < Len(r.path)
              /\ rest = SubSeq(r.path, (d + 1) + 1, Len(r.path))
              /\ Descends(r.path, d, c, r.name, list)
        BY <1>6, <1>8, <2>4
      <3>2. PICK e : e = d + 1 /\ e \in 0 .. Len(r.path) - 1 /\ e + 1 = d + 2
        BY <3>1
      <3>3. /\ Enters(r.path, e, c, c, cursor, list)
            /\ e \in {3, 4} => ~Matches(r.path[e + 1], name)
        BY <1>5, <3>1, <3>2 DEF Descends
      <3>4. QED  BY <1>4, <2>2, <2>3, <3>1, <3>2, <3>3 DEF Searches
    <2>5. FindsPath(q)'
      BY <2>2, <2>4 DEF FindsPath
    <2>6. Update(Shell, q)
      BY <1>1, <1>3, <1>5, <1>8, <2>1 DEF Match
    <2>7. QED  BY <1>1, <2>2, <2>5, <2>6
  <1>9. CASE Matches(Head(r.todo), name) /\ rest = <<>>
    <2>1. PICK q : q = FoundNode(r, c)
      OBVIOUS
    <2>2. q.pc = "found" /\ q.path = r.path /\ q.stack = <<c>>
      BY <1>1, <2>1 DEF FoundNode, TaskFields
    <2>3. ASSUME IsProper(r.path)
          PROVE  Folder(c, cursor) \/ Leaf(r.path, c, cursor, list)
      <3>1. PICK d \in Nat :
              /\ Len(r.path) \in Nat /\ d < Len(r.path) /\ ~(d + 1 < Len(r.path))
              /\ Descends(r.path, d, c, r.name, list)
        BY <1>6, <1>9, <2>3
      <3>2. d + 1 = Len(r.path)
        BY <3>1
      <3>3. QED  BY <3>1, <3>2 DEF Descends
    <2>4. FindsPath(q)'
      <3>1. q.stack[1] = c
        BY <2>2
      <3>2. QED  BY <1>4, <2>2, <2>3, <3>1 DEF FindsPath, Names
    <2>5. Update(Shell, q)
      BY <1>1, <1>3, <1>5, <1>9, <2>1 DEF Match
    <2>6. QED  BY <1>1, <2>2, <2>4, <2>5
  <1>10. QED  BY <1>7, <1>8, <1>9

\* The getters of the file found read the value of its path.
LEMMA FileReads ==
    ASSUME NEW p, IsProper(p), NEW n, Names(p, n), GetType(n) # "inner",
           cursor \in CursorSet
    PROVE  /\ MatchesPath(p, FileDatum(n))
           /\ HasCount(n) => n.ops = "netif" /\ n.is_root = 2 /\ cursor.field = 3
  <1>1. p \in Seq(STRING) /\ Leaf(p, n, cursor, list)
    BY FolderType DEF Names, IsProper
  <1>2. /\ ~HasCount(n) => MatchesPath(p, Datum(n, GetType(n)))
        /\ HasCount(n) => n.ops = "netif" /\ n.is_root = 2 /\ cursor.field = 3
    BY <1>1, LeafRead DEF HasCount
  <1>3. HasCount(n) => MatchesPath(p, IfaceKey(n.iface) \o <<"num_neighbours">>)
    BY <1>1, <1>2, CountedKey
  <1>4. QED  BY <1>2, <1>3 DEF FileDatum

\* While it is read the file stays that of the path.
LEMMA NamesStay ==
    ASSUME NEW p, NEW n, Names(p, n), cursor \in CursorSet,
           \/ UNCHANGED <<cursor, list>>
           \/ /\ HasCount(n) /\ GetType(n) # "inner" /\ cursor'.field = cursor.field
    PROVE  Names(p, n)'
  <1>1. CASE UNCHANGED <<cursor, list>>
    BY <1>1 DEF Names
  <1>2. CASE HasCount(n) /\ GetType(n) # "inner" /\ cursor'.field = cursor.field
    <2>1. SUFFICES ASSUME IsProper(p)
                   PROVE  Leaf(p, n, cursor', list')
      BY DEF Names
    <2>2. n.ops = "netif" /\ n.is_root = 2
      BY <1>2, <2>1, FileReads
    <2>3. Leaf(p, n, cursor, list)
      BY <1>2, <2>1, FolderType DEF Names
    <2>4. QED  BY <1>2, <2>2, <2>3, LeafStays
  <1>3. QED  BY <1>1, <1>2

\* What has been read is the piece of the file that is printed.
LEMMA PieceSound ==
    ASSUME FsInv, CatInv, FilesInv, fs.pc = "read", task[Shell].pc = "idle"
    PROVE  /\ Piece(fs).path = fs.path
           /\ GetType(fs.file) = "inner" => Piece(fs).datum = <<"error">>
           /\ GetType(fs.file) # "inner" /\ IsProper(fs.path) =>
                 MatchesPath(fs.path, Piece(fs).datum)
           /\ task[Shell].res[1] = "error" <=> GetType(fs.file) = "inner"
  <1>1. PICK n : n = fs.file
    OBVIOUS
  <1>2. task[Shell].res = Answer(n) /\ Names(fs.path, n) /\ cursor \in CursorSet
    BY <1>1 DEF CatInv, ReadsFile, FilesInv, FsInv
  <1>3. /\ Piece(fs).path = fs.path /\ Piece(fs).datum = Last(Answer(n))
    BY <1>2 DEF Piece
  <1>4. GetType(n) = "inner" => Answer(n)[1] = "error" /\ Last(Answer(n)) = <<"error">>
    BY DEF Answer, Last
  <1>5. GetType(n) # "inner" => Answer(n)[1] = "value" /\ Last(Answer(n)) = FileDatum(n)
    BY DEF Answer, Last
  <1>6. QED  BY <1>1, <1>2, <1>3, <1>4, <1>5, FileReads

\* A sound piece is added to what has been printed.
LEMMA PieceAdded ==
    ASSUME FilesInv, NEW x, fs'.out = Append(fs.out, x), fs'.cmd = fs.cmd,
           IsProper(x.path) => \/ MatchesPath(x.path, x.datum)
                               \/ fs.cmd = "tree" /\ x.datum = <<"error">>
    PROVE  /\ ValuesSound' /\ fs'.out \in Seq(ToSet(fs'.out))
           /\ \A i \in DOMAIN fs'.out :
                 (i \in DOMAIN fs.out /\ fs'.out[i] = fs.out[i]) \/ fs'.out[i] = x
  <1>1. PICK out, o : out = fs.out /\ o = fs'.out /\ out \in Seq(ToSet(out))
    BY DEF FilesInv
  <1>2. PICK k \in Nat : k = Len(out) /\ DOMAIN out = 1 .. k
    BY <1>1
  <1>3. /\ o \in Seq(ToSet(out) \cup {x}) /\ Len(o) = k + 1 /\ o[k + 1] = x
        /\ DOMAIN o = 1 .. k + 1
        /\ \A i \in 1 .. k : o[i] = out[i]
    BY <1>1, <1>2
  <1>4. o \in Seq(ToSet(o))
    BY <1>3, OfItsElements
  <1>5. \A i \in 1 .. k + 1 : i \in 1 .. k \/ i = k + 1
    BY <1>2
  <1>6. \A i \in DOMAIN o : (i \in DOMAIN out /\ o[i] = out[i]) \/ o[i] = x
    BY <1>2, <1>3, <1>5
  <1>7. ValuesSound'
    BY <1>1, <1>6 DEF ValuesSound, FilesInv
  <1>8. QED  BY <1>1, <1>4, <1>6, <1>7

\* What a step of the commands has to keep, where the counters stay.
LEMMA FilesFrom ==
    ASSUME FilesInv, list' = list, ValuesSound', fs'.out \in Seq(ToSet(fs'.out)),
           fs'.cmd = "cat" => \A i \in DOMAIN fs'.out : fs'.out[i].path = fs'.target,
           task'[Shell].pc \notin {"count", "add"},
           fs'.pc # "idle" => FindsPath(task[Shell])',
           fs'.pc \notin {"idle", "read"} => task'[Shell].pc \notin Reading,
           fs'.pc = "open" =>
               task'[Shell].path = IF fs'.cmd = "cat" THEN fs'.target ELSE fs'.path,
           fs'.pc = "read" => Names(fs.path, fs.file)',
           fs'.pc = "read" /\ fs'.cmd = "cat" => fs'.path = fs'.target
    PROVE  FilesInv'
  BY DEF FilesInv, Counts

\* A call of read starts with the type of the file.
LEMMA ReadFileFinds ==
    ASSUME DOMAIN task = Tasks, NEW n, NEW path, ReadFile(n, path)
    PROVE  FindsPath(task[Shell])' /\ task'[Shell].pc = "print"
  <1>1. PICK q : /\ Update(Shell, q)
                 /\ q = [Idle EXCEPT !.cmd = "vfs", !.path = path, !.pc = "print",
                                     !.stack = <<n>>]
    BY DEF ReadFile
  <1>2. q.pc = "print"
    BY <1>1 DEF Idle
  <1>3. FindsPath(q)'
    BY <1>2 DEF FindsPath
  <1>4. QED  BY <1>1, <1>2, <1>3, ShellUpdated

\* A command line is given.
LEMMA FsRequestFiles ==
    ASSUME FsInv, FilesInv, FsRequest
    PROVE  FilesInv'
  <1>1. PICK q \in FsRequests, newlib \in Builds :
          /\ fs' = [FsIdle EXCEPT !.pc = IF q.cmd = "tree" THEN "root" ELSE "open",
                        !.cmd = q.cmd, !.print = q.print, !.target = q.path,
                        !.newlib = newlib, !.start = cursor.ps]
          /\ FindNode(q.path)
    BY DEF FsRequest
  <1>2. q.cmd \in {"tree", "cat"}
    BY <1>1, FsAssumption
  <1>3. /\ fs'.pc \in {"root", "open"} /\ fs'.out = <<>> /\ fs'.cmd = q.cmd
        /\ fs'.pc = "open" => q.cmd = "cat"
        /\ fs'.target = q.path
    BY <1>1, <1>2 DEF FsIdle
  <1>4. /\ FindsPath(task[Shell])' /\ task'[Shell].path = q.path
        /\ task'[Shell].pc \in {"lookup", "found"}
    BY <1>1, FindNodeFinds DEF FsInv
  <1>5. list' = list
    BY DEF FsRequest, KeepFs, db
  <1>6. <<>> \in Seq(ToSet(<<>>)) /\ DOMAIN <<>> = {}
    OBVIOUS
  <1>7. ValuesSound'
    BY <1>3, <1>6 DEF ValuesSound
  <1>8. QED  BY <1>3, <1>4, <1>5, <1>6, <1>7, FilesFrom DEF Reading

\* The steps of tree.
LEMMA TreeFiles ==
    ASSUME FsInv, CatInv, FilesInv,
           \/ TreeRoot \/ TreeStat \/ TreeOpen \/ TreeRead \/ TreeOpendir
           \/ TreeReaddir \/ TreeName
    PROVE  FilesInv'
  <1>1. /\ fs.cmd = "tree" /\ list' = list /\ DOMAIN task = Tasks
        /\ fs.out \in Seq(ToSet(fs.out))
    BY TreeSteps DEF FsInv, FilesInv
  <1>2. ASSUME fs'.cmd = "tree", fs'.out = fs.out
        PROVE  ValuesSound'
    BY <1>1, <1>2 DEF FilesInv, ValuesSound
  <1>3. ASSUME NEW out, Passing(out), ValuesSound', out \in Seq(ToSet(out))
        PROVE  FilesInv'
    <2>1. fs'.cmd = "tree" /\ fs'.pc \notin {"open", "read"} /\ fs'.out = out
      BY <1>3 DEF Passing
    <2>2. /\ FindsPath(task[Shell])'
          /\ task'[Shell].pc \in {"idle", "lookup", "found", "readdir", "dirname"}
      <3>1. ASSUME NEW q, Update(Shell, q), q.pc \in {"idle", "readdir", "dirname"}
            PROVE  /\ FindsPath(task[Shell])'
                   /\ task'[Shell].pc \in {"idle", "readdir", "dirname"}
        <4>1. FindsPath(q)'
          BY <3>1 DEF FindsPath
        <4>2. QED  BY <1>1, <3>1, <4>1, ShellUpdated
      <3>2. QED  BY <1>1, <1>3, <3>1, FindNodeFinds DEF Passing
    <2>3. QED  BY <1>1, <1>3, <2>1, <2>2, FilesFrom DEF Reading
  <1>4. CASE Passing(fs.out)
    BY <1>1, <1>2, <1>3, <1>4 DEF Passing
  <1>5. ASSUME fs.pc = "read", task[Shell].pc = "idle",
               Passing(Append(fs.out, Piece(fs)))
        PROVE  FilesInv'
    <2>1. PICK x : x = Piece(fs)
      OBVIOUS
    <2>2. fs'.out = Append(fs.out, x) /\ fs'.cmd = fs.cmd
      BY <1>1, <1>5, <2>1 DEF Passing
    <2>3. IsProper(x.path) => \/ MatchesPath(x.path, x.datum)
                              \/ fs.cmd = "tree" /\ x.datum = <<"error">>
      BY <1>1, <1>5, <2>1, PieceSound
    <2>4. ValuesSound' /\ fs'.out \in Seq(ToSet(fs'.out))
      BY <2>2, <2>3, PieceAdded
    <2>5. QED  BY <1>3, <1>5, <2>1, <2>2, <2>4
  <1>6. ASSUME fs'.cmd = "tree", fs'.pc = "open", fs'.out = fs.out,
               FindNode(fs'.path)
        PROVE  FilesInv'
    <2>1. /\ FindsPath(task[Shell])' /\ task'[Shell].path = fs'.path
          /\ task'[Shell].pc \in {"lookup", "found"}
      BY <1>1, <1>6, FindNodeFinds
    <2>2. QED  BY <1>1, <1>2, <1>6, <2>1, FilesFrom DEF Reading
  <1>7. ASSUME fs.pc = "open", Found, UNCHANGED cursor, fs'.cmd = "tree",
               fs'.pc = "read", fs'.out = fs.out, fs'.path = fs.path,
               fs'.file = Node1, ReadFile(Node1, fs.path)
        PROVE  FilesInv'
    <2>1. task[Shell].stack = <<Node1>>
      BY <1>7, NodeFound DEF FsInv
    <2>2. task[Shell].pc = "found" /\ task[Shell].path = fs.path
      BY <1>1, <1>7 DEF Found, FilesInv
    <2>3. Names(fs.path, Node1)
      BY <1>7, <2>1, <2>2 DEF FilesInv, FindsPath
    <2>4. Names(fs.path, fs.file)'
      BY <1>1, <1>7, <2>3 DEF Names
    <2>5. FindsPath(task[Shell])' /\ task'[Shell].pc = "print"
      BY <1>1, <1>7, ReadFileFinds
    <2>6. QED  BY <1>1, <1>2, <1>7, <2>4, <2>5, FilesFrom
  <1>8. QED  BY <1>4, <1>5, <1>6, <1>7, TreeSteps

\* The command returns.
LEMMA ReturnsFiles ==
    ASSUME FsInv, FilesInv, NEW res, FsReturns(fs, res), NoCall, KeepFs
    PROVE  FilesInv'
  <1>1. /\ fs'.pc = "idle" /\ fs'.out = fs.out /\ fs'.cmd = fs.cmd
        /\ fs'.target = fs.target
    BY DEF FsReturns, FsIdle
  <1>2. task'[Shell] = Idle
    BY ShellUpdated DEF FsInv, NoCall
  <1>3. task'[Shell].pc = "idle" /\ list' = list
    BY <1>2 DEF Idle, KeepFs, db
  <1>4. ValuesSound'
    BY <1>1 DEF FilesInv, ValuesSound
  <1>5. /\ fs'.out \in Seq(ToSet(fs'.out))
        /\ fs'.cmd = "cat" => \A i \in DOMAIN fs'.out : fs'.out[i].path = fs'.target
    BY <1>1 DEF FilesInv
  <1>6. QED  BY <1>1, <1>3, <1>4, <1>5, FilesFrom

\* cat opens its file and reads it piece by piece.
LEMMA CatOpenFiles ==
    ASSUME FsInv, CatInv, FilesInv, CatOpen
    PROVE  FilesInv'
  <1>1. /\ fs.pc = "open" /\ fs.cmd = "cat" /\ DOMAIN task = Tasks
        /\ DOMAIN fs = FsFields /\ Calls(task[Shell]) /\ fs.out = <<>> /\ KeepFs
    BY DEF CatOpen, In, FsInv, Locals, CatInv
  <1>2. CASE Missing
    BY <1>1, <1>2, ReturnsFiles DEF CatOpen, Found, Missing
  <1>3. CASE Found
    <2>1. PICK n \in WrittenNodes : n = Node1 /\ task[Shell].stack = <<n>>
      BY <1>1, <1>3, NodeFound
    <2>2. /\ fs' = [fs EXCEPT !.pc = "read", !.file = n, !.path = fs.target]
          /\ ReadFile(n, fs.target)
      BY <1>3, <2>1 DEF CatOpen, Found, Missing
    <2>3. /\ fs'.pc = "read" /\ fs'.file = n /\ fs'.out = <<>> /\ fs'.cmd = "cat"
          /\ fs'.path = fs.target /\ fs'.target = fs.target
      BY <1>1, <2>2 DEF FsFields
    <2>4. task[Shell].pc = "found" /\ task[Shell].path = fs.target
      BY <1>1, <1>3 DEF Found, FilesInv
    <2>5. Names(fs.target, n)
      BY <1>1, <2>1, <2>4 DEF FilesInv, FindsPath
    <2>6. UNCHANGED <<cursor, list>>
      BY <1>1 DEF KeepFs, db
    <2>7. Names(fs.path, fs.file)'
      BY <2>3, <2>5, <2>6 DEF Names
    <2>8. FindsPath(task[Shell])' /\ task'[Shell].pc = "print"
      BY <1>1, <2>2, ReadFileFinds
    <2>9. <<>> \in Seq(ToSet(<<>>)) /\ DOMAIN <<>> = {}
      OBVIOUS
    <2>10. ValuesSound'
      BY <2>3, <2>9 DEF ValuesSound
    <2>11. QED  BY <2>3, <2>6, <2>7, <2>8, <2>9, <2>10, FilesFrom
  <1>4. QED  BY <1>2, <1>3 DEF CatOpen

LEMMA CatReadFiles ==
    ASSUME FsInv, CatInv, FilesInv, CatRead
    PROVE  FilesInv'
  <1>1. /\ fs.pc = "read" /\ fs.cmd = "cat" /\ DOMAIN task = Tasks
        /\ task[Shell].pc = "idle" /\ DOMAIN fs = FsFields /\ KeepFs
        /\ UNCHANGED <<cursor, list>>
    BY DEF CatRead, In, FsInv, Locals, KeepFs, db
  <1>2. PICK err, x :
          /\ err = (task[Shell].res[1] = "error") /\ x = Piece(fs)
          /\ IF ReadStops(fs, err) THEN FsReturns(fs, "done") /\ NoCall
             ELSE /\ fs' = IF err THEN fs
                           ELSE [fs EXCEPT !.out = Append(@, x), !.pos = @ + 1]
                  /\ ReadFile(fs.file, fs.path)
    BY DEF CatRead
  <1>3. CASE ReadStops(fs, err)
    BY <1>1, <1>2, <1>3, ReturnsFiles
  <1>4. ASSUME ReadFile(fs.file, fs.path), ValuesSound',
               fs'.pc = "read", fs'.file = fs.file, fs'.path = fs.path,
               fs'.target = fs.target, fs'.cmd = "cat",
               fs'.out \in Seq(ToSet(fs'.out)),
               \A i \in DOMAIN fs'.out : fs'.out[i].path = fs.target
        PROVE  FilesInv'
    <2>1. FindsPath(task[Shell])' /\ task'[Shell].pc = "print"
      BY <1>1, <1>4, ReadFileFinds
    <2>2. Names(fs.path, fs.file)'
      BY <1>1, <1>4 DEF FilesInv, Names
    <2>3. fs.path = fs.target
      BY <1>1 DEF FilesInv
    <2>4. QED  BY <1>1, <1>4, <2>1, <2>2, <2>3, FilesFrom
  <1>5. CASE ~ReadStops(fs, err) /\ err
    <2>1. fs' = fs /\ ReadFile(fs.file, fs.path)
      BY <1>2, <1>5
    <2>2. ValuesSound'
      BY <2>1 DEF FilesInv, ValuesSound
    <2>3. QED  BY <1>1, <1>4, <2>1, <2>2 DEF FilesInv
  <1>6. CASE ~ReadStops(fs, err) /\ ~err
    <2>1. /\ fs' = [fs EXCEPT !.out = Append(@, x), !.pos = @ + 1]
          /\ ReadFile(fs.file, fs.path)
      BY <1>2, <1>6
    <2>2. /\ fs'.out = Append(fs.out, x) /\ fs'.pc = "read" /\ fs'.file = fs.file
          /\ fs'.path = fs.path /\ fs'.target = fs.target /\ fs'.cmd = "cat"
      BY <1>1, <2>1 DEF FsFields
    <2>3. /\ x.path = fs.path
          /\ IsProper(x.path) => MatchesPath(x.path, x.datum)
      BY <1>1, <1>2, <1>6, PieceSound
    <2>4. /\ ValuesSound' /\ fs'.out \in Seq(ToSet(fs'.out))
          /\ \A i \in DOMAIN fs'.out :
                (i \in DOMAIN fs.out /\ fs'.out[i] = fs.out[i]) \/ fs'.out[i] = x
      BY <1>1, <2>2, <2>3, PieceAdded
    <2>5. \A i \in DOMAIN fs'.out : fs'.out[i].path = fs.target
      BY <1>1, <2>3, <2>4 DEF FilesInv
    <2>6. QED  BY <1>4, <2>1, <2>2, <2>4, <2>5
  <1>7. QED  BY <1>3, <1>5, <1>6

\* The counting of neighbours within a call of read.
LEMMA VfsCounting ==
    ASSUME FsInv, InsertInv, CatInv, FilesInv, HoldsInv,
           fs.pc = "read", Call(Shell), ~Fault(Shell)
    PROVE  /\ Counts(task'[Shell]) /\ list' \in Seq(Addresses)
           /\ task'[Shell].pc \in Reading \cup {"idle"}
  <1>1. PICK r : /\ r = task[Shell] /\ DOMAIN r = TaskFields /\ r.cmd = "vfs"
                 /\ ReadsFile(r, fs.file) /\ fs.file \in WrittenNodes
    BY DEF FsInv, CatInv, Calls
  <1>2. r.pc \in Reading
    BY <1>1 DEF ReadsFile, Call, Tests, Lookup, Match, Type, List, Show, ValueToStr,
                CheckType, GetValue, Count, Add, Link, Publish, Counted, At, InsertInv,
                Reading
  <1>3. Child(Shell) = fs.file /\ Shell \in Tasks
    <2>1. task[Shell].stack = <<fs.file>>
      BY <1>1, <1>2 DEF ReadsFile, Reading
    <2>2. QED  BY <2>1 DEF Child, Last, Tasks
  <1>4. /\ DOMAIN task = Tasks /\ nib \in NibStates /\ list \in Seq(Addresses)
        /\ Counts(task[Shell])
    BY DEF FsInv, FilesInv
  <1>5. \A res : Printed(r, res).pc = "idle"
    BY <1>1 DEF Printed, Finished, Idle
  <1>6. ASSUME GetValue(Shell) \/ Count(Shell) \/ Entered(Shell)
        PROVE  Counts(task'[Shell]) /\ task'[Shell].pc \in Reading \cup {"idle"}
    <2>1. Counts(task'[Shell])
      BY <1>1, <1>3, <1>4, <1>6, CountingStep
    <2>2. ASSUME NEW q, Update(Shell, q), q.pc \in Reading \cup {"idle"}
          PROVE  task'[Shell].pc \in Reading \cup {"idle"}
      BY <1>4, <2>2, ShellUpdated
    <2>3. CASE GetValue(Shell)
      <3>1. PICK res : \/ Update(Shell, [r EXCEPT !.pc = "count"])
                       \/ Update(Shell, Printed(r, res))
        BY <1>1, <2>3 DEF GetValue
      <3>2. [r EXCEPT !.pc = "count"].pc = "count"
        BY <1>1 DEF TaskFields
      <3>3. QED  BY <1>5, <2>1, <2>2, <3>1, <3>2 DEF Reading
    <2>4. CASE Count(Shell)
      <3>1. PICK i, a : Update(Shell, [r EXCEPT !.pc = "add", !.slot = i, !.nce = a])
        BY <1>1, <2>4 DEF Count
      <3>2. [r EXCEPT !.pc = "add", !.slot = i, !.nce = a].pc = "add"
        BY <1>1 DEF TaskFields
      <3>3. QED  BY <2>1, <2>2, <3>1, <3>2 DEF Reading
    <2>5. CASE Entered(Shell)
      <3>1. Update(Shell, [r EXCEPT !.pc = "count", !.nce = Free])
        BY <1>1, <2>5 DEF Entered, CountOn
      <3>2. [r EXCEPT !.pc = "count", !.nce = Free].pc = "count"
        BY <1>1 DEF TaskFields
      <3>3. QED  BY <2>1, <2>2, <3>1, <3>2 DEF Reading
    <2>6. QED  BY <1>6, <2>3, <2>4, <2>5
  <1>7. CASE ValueToStr(Shell) \/ CheckType(Shell) \/ Counted(Shell)
    <2>1. list' = list
      BY <1>7 DEF ValueToStr, CheckType, Counted, db
    <2>2. PICK type, res, q :
            /\ Update(Shell, q)
            /\ \/ q = Printed(r, res)
               \/ q = [r EXCEPT !.pc = "assert", !.type = type]
               \/ q = [r EXCEPT !.pc = "read"]
      BY <1>1, <1>7 DEF ValueToStr, CheckType, Counted
    <2>3. q.pc \in {"idle", "assert", "read"}
      BY <1>1, <1>5, <2>2 DEF TaskFields
    <2>4. task'[Shell] = q
      BY <1>4, <2>2, ShellUpdated
    <2>5. QED  BY <1>4, <2>1, <2>3, <2>4 DEF Counts, Reading
  <1>8. ~(\/ Tests(Shell) \/ Lookup(Shell) \/ Match(Shell) \/ Type(Shell)
          \/ List(Shell) \/ Show(Shell))
    BY <1>1, <1>2 DEF Reading, Tests, Lookup, Match, Type, List, Show, At
  <1>9. CASE GetValue(Shell) \/ Count(Shell)
    BY <1>4, <1>6, <1>9 DEF GetValue, Count
  <1>10. CASE Add(Shell) \/ Link(Shell) \/ Publish(Shell)
    <2>1. list' \in Seq(Addresses)
      BY <1>3, <1>4, <1>10, InsertionStep DEF InsertInv, Settled, HoldsInv
    <2>2. Entered(Shell) \/ UNCHANGED task
      BY <1>3, <1>10, InsertionIs
    <2>3. QED  BY <1>1, <1>2, <1>4, <1>6, <2>1, <2>2
  <1>11. QED  BY <1>7, <1>8, <1>9, <1>10 DEF Call

\* A step of the task in a call of the file system.
LEMMA VfsCallFiles ==
    ASSUME FsInv, InsertInv, CatInv, FilesInv, HoldsInv, Requests[Coap] = {},
           fs.pc # "idle", Call(Shell), UNCHANGED fs
    PROVE  FilesInv'
  <1>1. Calls(task[Shell]) /\ FindsPath(task[Shell]) /\ DOMAIN task = Tasks
    BY DEF FsInv, FilesInv
  <1>2. ValuesSound' /\ fs'.out \in Seq(ToSet(fs'.out))
    BY DEF FilesInv, ValuesSound
  <1>3. ASSUME NEW q, Update(Shell, q), FindsPath(q)', q.path = task[Shell].path,
               q.pc \in {"lookup", "match", "found", "idle"}, list' = list,
               fs.pc # "read"
        PROVE  FilesInv'
    <2>1. task'[Shell] = q
      BY <1>1, <1>3, ShellUpdated
    <2>2. QED  BY <1>2, <1>3, <2>1, FilesFrom DEF FilesInv, Reading
  <1>4. CASE Lookup(Shell) \/ Match(Shell)
    <2>1. fs.pc # "read"
      BY <1>4 DEF CatInv, ReadsFile, Reading, Lookup, Match, At
    <2>2. list' = list /\ list \in Seq(Addresses)
      BY <1>4 DEF Lookup, Match, db, FilesInv
    <2>3. QED  BY <1>1, <1>3, <1>4, <2>1, <2>2, VfsLookupFinds, VfsMatchFinds
  <1>5. CASE Fault(Shell)
    <2>1. UNCHANGED <<task, cursor, list>>
      BY <1>5 DEF Fault, Halt, db
    <2>2. FindsPath(task[Shell])'
      BY <1>1, <2>1 DEF FindsPath, Names
    <2>3. fs.pc = "read" => Names(fs.path, fs.file)'
      BY <2>1 DEF FilesInv, Names
    <2>4. QED  BY <1>2, <2>1, <2>2, <2>3 DEF FilesInv
  <1>6. ASSUME fs.pc = "read", ~Fault(Shell)
        PROVE  FilesInv'
    <2>1. /\ Counts(task'[Shell]) /\ list' \in Seq(Addresses)
          /\ task'[Shell].pc \in Reading \cup {"idle"}
      BY <1>6, VfsCounting
    <2>2. Names(fs.path, fs.file)'
      <3>1. Names(fs.path, fs.file) /\ cursor \in CursorSet
        BY <1>6 DEF FilesInv, FsInv
      <3>2. \/ UNCHANGED <<cursor, list>>
            \/ /\ HasCount(fs.file) /\ GetType(fs.file) # "inner"
               /\ cursor'.field = cursor.field
        BY <1>6, ReadStepInv
      <3>3. PICK p, n : p = fs.path /\ n = fs.file
        OBVIOUS
      <3>4. Names(p, n)'
        BY <3>1, <3>2, <3>3, NamesStay
      <3>5. QED  BY <3>3, <3>4
    <2>3. FindsPath(task[Shell])'
      BY <2>1 DEF FindsPath, Reading
    <2>4. QED  BY <1>2, <1>6, <2>1, <2>2, <2>3 DEF FilesInv
  <1>7. task[Shell].pc \in Reading => fs.pc = "read"
    BY DEF FilesInv
  <1>8. /\ task[Shell].cmd = "vfs"
        /\ task[Shell].pc \in Reading \cup {"idle", "lookup", "match", "found",
                                          "readdir", "dirname"}
    <2>1. Calls(task[Shell])
      BY DEF FsInv
    <2>2. QED  BY <2>1 DEF Calls
  <1>9. ~(Tests(Shell) \/ Type(Shell) \/ List(Shell) \/ Show(Shell))
    BY <1>8 DEF Reading, Tests, Type, List, Show, At
  <1>10. CASE \/ ValueToStr(Shell) \/ CheckType(Shell) \/ GetValue(Shell)
              \/ Count(Shell) \/ Add(Shell) \/ Link(Shell) \/ Publish(Shell)
              \/ Counted(Shell)
    <2>1. task[Shell].pc \in Reading
      BY <1>10 DEF ValueToStr, CheckType, GetValue, Count, Add, Link, Publish, Counted,
                   At, Reading, InsertInv
    <2>2. QED  BY <1>5, <1>6, <1>7, <2>1
  <1>11. QED  BY <1>4, <1>5, <1>9, <1>10 DEF Call

\* A step of the shell's other commands.
LEMMA OtherCommandFiles ==
    ASSUME FsInv, InsertInv, FilesInv, HoldsInv, fs.pc = "idle",
           Request(Shell) \/ Call(Shell), UNCHANGED fs
    PROVE  FilesInv'
  <1>1. AddressInv
    <2>1. Counts(Idle)
      BY DEF Counts, Idle
    <2>2. QED  BY <2>1 DEF AddressInv, FsInv, FilesInv, HoldsInv, Tasks
  <1>2. AddressInv'
    <2>1. Shell \in Tasks
      BY DEF Tasks
    <2>2. Next
      BY <2>1 DEF Next
    <2>3. QED  BY <1>1, <2>2, IdleShapes, AddressStep
  <1>3. ValuesSound'
    BY DEF FilesInv, ValuesSound
  <1>4. Shell \in Tasks
    BY DEF Tasks
  <1>5. QED  BY <1>2, <1>3, <1>4 DEF AddressInv, FilesInv

\* What is printed is invariant.
LEMMA FilesInvStep ==
    ASSUME FsInv, InsertInv, CatInv, FilesInv, HoldsInv, Requests[Coap] = {},
           [FsNext]_fsVars
    PROVE  FilesInv'
  <1>1. CASE FsRequest
    BY <1>1, FsRequestFiles
  <1>2. CASE TreeRoot \/ TreeStat \/ TreeOpen \/ TreeRead \/ TreeOpendir
                \/ TreeReaddir \/ TreeName
    BY <1>2, TreeFiles
  <1>3. CASE CatOpen \/ CatRead
    BY <1>3, CatOpenFiles, CatReadFiles
  <1>4. ASSUME UNCHANGED <<fs, task, cursor, list>>
        PROVE  FilesInv'
    <2>1. fs.pc # "idle" => FindsPath(task[Shell])'
      BY <1>4 DEF FilesInv, FindsPath, Names
    <2>2. fs.pc = "read" => Names(fs.path, fs.file)'
      BY <1>4 DEF FilesInv, Names
    <2>3. ValuesSound'
      BY <1>4 DEF FilesInv, ValuesSound
    <2>4. QED  BY <1>4, <2>1, <2>2, <2>3 DEF FilesInv
  <1>5. CASE FsFault
    BY <1>4, <1>5 DEF FsFault, Halt, db
  <1>6. ASSUME NEW t \in Tasks, UNCHANGED fs,
               Call(t) \/ (Request(t) /\ (t = Shell => fs.pc = "idle"))
        PROVE  FilesInv'
    <2>1. t = Shell
      BY <1>6, HandlerRests DEF Tasks
    <2>2. CASE fs.pc = "idle"
      BY <1>6, <2>1, <2>2, OtherCommandFiles
    <2>3. CASE fs.pc # "idle"
      BY <1>6, <2>1, <2>3, VfsCallFiles
    <2>4. QED  BY <2>2, <2>3
  <1>7. CASE UNCHANGED fsVars
    BY <1>4, <1>7 DEF fsVars, vars
  <1>8. CASE Measure /\ UNCHANGED fs
    BY <1>4, <1>8 DEF Measure
  <1>9. QED  BY <1>1, <1>2, <1>3, <1>5, <1>6, <1>7, <1>8 DEF FsNext, FsStep

\* So are the addresses that are being inserted.
LEMMA HoldsInvStep ==
    ASSUME FsInv, InsertInv, FilesInv, HoldsInv, Requests[Coap] = {}, [FsNext]_fsVars
    PROVE  HoldsInv'
  <1>1. UNCHANGED ins => HoldsInv'
    BY DEF HoldsInv
  <1>2. CASE FsRequest \/ FsStep
    BY <1>1, <1>2
       DEF FsRequest, FsStep, TreeRoot, TreeStat, TreeOpen, TreeRead, TreeOpendir,
           TreeReaddir, TreeName, CatOpen, CatRead, FsFault, Halt, KeepFs, db
  <1>3. ASSUME NEW t \in Tasks, UNCHANGED fs,
               Call(t) \/ (Request(t) /\ (t = Shell => fs.pc = "idle"))
        PROVE  HoldsInv'
    <2>1. t = Shell
      BY <1>3, HandlerRests DEF Tasks
    <2>2. CASE Add(Shell) \/ Link(Shell) \/ Publish(Shell)
      BY <1>3, <2>1, <2>2, InsertionStep DEF InsertInv, Settled, FilesInv, HoldsInv
    <2>3. CASE ~(Add(Shell) \/ Link(Shell) \/ Publish(Shell))
      <3>1. UNCHANGED ins
        BY <1>3, <2>1, <2>3
           DEF Request, Call, Tests, Lookup, Match, Type, List, Show, ValueToStr,
               CheckType, GetValue, Count, Counted, Fault, Halt, db
      <3>2. QED  BY <1>1, <3>1
    <2>4. QED  BY <2>2, <2>3
  <1>4. CASE Measure
    BY <1>4, QueryAssumption DEF Measure, HoldsInv, Holds, InsertInv, Settled
  <1>5. CASE UNCHANGED fsVars
    BY <1>1, <1>5 DEF fsVars, vars
  <1>6. QED  BY <1>2, <1>3, <1>4, <1>5 DEF FsNext

LEMMA FsInitFiles == FsInit => FilesInv /\ HoldsInv
  <1>1. ASSUME FsInit
        PROVE  FilesInv /\ HoldsInv
    <2>1. /\ list = <<>> /\ task[Shell] = Idle /\ fs = FsIdle
      BY <1>1 DEF FsInit, Init, Tasks
    <2>2. Counts(Idle)
      BY DEF Counts, Idle, Reading
    <2>3. ValuesSound
      BY <2>1 DEF ValuesSound, FsIdle
    <2>4. HoldsInv
      BY <1>1 DEF FsInit, Init, HoldsInv, Holds, NoInsertion
    <2>5. QED  BY <2>1, <2>2, <2>3, <2>4 DEF FilesInv, FsIdle
  <1>2. QED  BY <1>1

LEMMA FilesInvariant ==
    ASSUME Requests[Coap] = {}
    PROVE  FsSpec => []FilesInv
  <1>1. FsInit => CatInv
    BY DEF FsInit, FsIdle, CatInv, CatWhole
  <1>2. FsSpec => [](FsInv /\ InsertInv)
    BY ShapesInvariant
  <1>3. FsSpec => []CatInv
    BY <1>1, <1>2, CatInvStep, PTL DEF FsSpec
  <1>4. QED  BY <1>2, <1>3, FsInitFiles, FilesInvStep, HoldsInvStep, PTL DEF FsSpec

\* Whatever tree -p or cat prints below a path whose tokens are all names of
\* one level is the value of that path or, for tree, a failed read: a
\* file is looked up twice, from the root, between two calls of readdir, and
\* the global counters are at the entry of the path whenever it is read
\* (fs.c:103-292, main.c:55-84 and 87-157, with ps.c and netif.c).
THEOREM FilesCorrect ==
    ASSUME Requests[Coap] = {}
    PROVE  FsSpec => []ValuesSound
  <1>1. FilesInv => ValuesSound
    BY DEF FilesInv
  <1>2. QED  BY <1>1, FilesInvariant, PTL

\* cat prints nothing but the value of its path, when that is such a path
\* (main.c:55-84, fs.c:103-251).
THEOREM CatFilesCorrect ==
    ASSUME Requests[Coap] = {}
    PROVE  FsSpec => [](fs.cmd = "cat" /\ IsProper(fs.target) => FileSound)
  <1>1. FilesInv => (fs.cmd = "cat" /\ IsProper(fs.target) => FileSound)
    BY DEF FilesInv, ValuesSound, FileSound
  <1>2. QED  BY <1>1, FilesInvariant, PTL

=============================================================================
