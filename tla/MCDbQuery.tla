----------------------------- MODULE MCDbQuery ------------------------------
(* Instances of DbQuery: a board with two threads, with free pids between   *)
(* and after them (or with three threads and none), one SAUL device and one *)
(* network interface that has heard of two neighbours.                     *)
EXTENDS DbQuery

ConfigAll == {"PS", "NETWORK", "SAUL"}
ThreadNames == <<"idle", "unused", "main", "unused">>
ThreadNames3 == <<"idle", "main", "udp_server">>
OneIface == <<"eth0">>
OneDevice == <<"led">>
PrefixPairs == {<<"p", "ps">>, <<"p", "pid">>, <<"p", "priority">>,
                <<"num", "num_sensors">>, <<"num", "num_actuators">>}

NibOne == {<<<<"A", "B">>>>}
NibMoving == {<<<<"A", "B">>>>, <<<<"B", Free>>>>}

Q(p) == [cmd |-> "dcaq", path |-> p]
G(p) == [cmd |-> "get", path |-> p]
Dump == [cmd |-> "dcadump", path |-> <<>>]

If(i, f) == <<"network", "netif", i, f>>
Thread(th, f) == <<"runtime", "ps", th, f>>

ShellPaths ==
    {<<>>, <<"board", "mcu">>, <<"runtime">>, <<"runtime", "ps", "main">>,
     <<"network", "netif", "eth0">>, <<"saul", "devices", "led", "class">>,
     <<"runtime", "p", "idle", "p">>, <<"nothing">>}
      \cup {Thread("idle", f) : f \in {"pid", "state", "stack used"}}
      \cup {Thread("main", "priority")}
      \cup {If("eth0", f) : f \in {"pid", "num_neighbours", "neighbours"}}
      \cup {If("eth0", "neighbours") \o <<"B", "latency">>}

OnlyShell(S) == (Shell :> S) @@ (Coap :> {})

SequentialRequests == OnlyShell({Dump} \cup {Q(p) : p \in ShellPaths})

\* The handler interrupts the shell, each in a branch of its own, while the
\* neighbour cache changes and dcalat or dcatp has results.
NeighbourPaths ==
    {If("eth0", f) : f \in {"num_neighbours", "neighbours"}}
      \cup {If("eth0", "neighbours") \o <<"B", "throughput">>}
IsolatedRequests ==
    (Shell :> {Q(p) : p \in {Thread("main", f) : f \in {"pid", "stack used"}}
                              \cup {<<"runtime", "ps", "idle">>}})
      @@ (Coap :> {G(p) : p \in NeighbourPaths
                                  \cup {<<>>, <<"board", "ram">>}})

\* The handler interrupts the shell anywhere.
PreemptedRequests ==
    (Shell :> {Q(p) : p \in {If("eth0", "num_neighbours"), <<"board", "ram">>,
                             Thread("udp_server", "state")}})
      @@ (Coap :> {G(p) : p \in {If("eth0", "neighbours") \o <<"B", "latency">>,
                                 Thread("idle", "priority")}})

\* The requests of the documentation's claims.
FieldRequests == OnlyShell({Q(Thread("idle", "state")), Q(Thread("idle", "pid"))})
BothPs == (Shell :> {Q(Thread("main", "pid")), Q(Thread("main", "stack used"))})
            @@ (Coap :> {G(Thread("idle", "stack used"))})

\* The theorems about lookups are about paths like these.
ASSUME PathsAreProper == ProperRequests(Shell) /\ ProperRequests(Coap)
=============================================================================
