------------------------------- MODULE MCDcaFs -------------------------------
(* An instance of DcaFs: the board of MCDbQuery, whose commands move the    *)
(* global counters to wherever they may be before the file system is used. *)
EXTENDS DcaFs, MCDbQuery

Tree(print, p) == [cmd |-> "tree", print |-> print, path |-> p]
Cat(p) == [cmd |-> "cat", print |-> FALSE, path |-> p]

FsCommands ==
    {Tree(TRUE, <<>>), Tree(FALSE, <<"network">>), Tree(TRUE, <<"saul">>),
     Tree(FALSE, <<"board", "mcu">>), Tree(TRUE, Thread("main", "priority"))}
      \cup {Cat(p) : p \in {<<"board", "mcu">>, Thread("main", "stack used"),
                            If("eth0", "num_neighbours"), <<"runtime">>,
                            <<"nothing">>}}

FsQueries ==
    OnlyShell({Q(p) : p \in {If("eth0", "neighbours") \o <<"B", "latency">>}})
=============================================================================
