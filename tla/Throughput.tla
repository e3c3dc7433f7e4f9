----------------------------- MODULE Throughput -----------------------------
(***************************************************************************)
(* The throughput test of udp_throughput.c.  A client (the main thread of  *)
(* a node, in db_measure_network_throughput) tests one neighbour after the *)
(* other: it asks for a test, waits for the acknowledgement, sends its     *)
(* data packets and waits for the result.  A server (the thread of         *)
(* db_start_udp_server on the neighbour) accepts one test at a time, but   *)
(* counts whatever packet reaches it during the test, and answers whoever  *)
(* sent the last one.                                                      *)
(*                                                                         *)
(* The network loses, delays, reorders and duplicates packets: a packet is *)
(* under way until it is received, which may be never.  Times are left     *)
(* out: a timeout may strike whenever its owner waits.  A throughput is    *)
(* represented by the tests whose packets it was computed from; {} is 0.   *)
(***************************************************************************)
EXTENDS Integers, Sequences, FiniteSets, Bags, LinkedList

CONSTANTS
    Clients,      \* the nodes that run tests
    Servers,      \* their neighbours, which run the server
    Neighbors,    \* the neighbour cache of every client, in nib order
    Listed,       \* the neighbours every client has on its list before
    Commands,     \* bound: how often every client runs dcatp
    PacketCount,  \* UDP_PACKET_COUNT
    Copies,       \* how often a packet of each type arrives at most
    Capacity,     \* bound: the packets under way at a time
    Strangers,    \* packets to the servers from nodes that do not run the DCA
    Prompt        \* TRUE: no packet arrives after the pause between two tests

\* A node that runs both has a name for each of the two: their ports differ.
ASSUME ThroughputAssumption ==
    /\ Clients \cap Servers = {}
    /\ Servers # {}
    /\ Neighbors \in [Clients -> Seq(Servers)]
    /\ Listed \in Seq(Servers)
    /\ \A i, j \in DOMAIN Listed : Listed[i] = Listed[j] => i = j
    /\ Commands \in [Clients -> Nat]
    /\ PacketCount \in Nat \ {0}
    /\ Copies \in [{"START", "DATA", "TEST_ACK", "SUCCESS"} -> Nat \ {0}]
    /\ Capacity \in Nat
    /\ \A p \in Strangers :
         p.type = "OTHER" /\ p.to \in Servers /\ p.from \notin Servers
    /\ Prompt \in BOOLEAN

VARIABLES
    client,       \* the locals of db_measure_network_throughput, by client
    server,       \* those of _udp_server_thread and its globals, by server
    net,          \* the bag of packets under way
    list,         \* the list of neighbours of every client, from head on
    results       \* history: what every client has recorded, in order

vars == <<client, server, net, list, results>>

\* The number of a test is not in the code: no packet tells which test it
\* belongs to.
TestOf(c) == <<c, client[c].test>>

Packet(type, from, to, test, throughput) ==
    [type |-> type, from |-> from, to |-> to, test |-> test,
     throughput |-> throughput]

Start(c, s, test) == Packet("START", c, s, test, {})
Data(c)           == Packet("DATA", c, client[c].remote, TestOf(c), {})
Answer(type, s, r) == Packet(type, s, r.remote, r.test, r.throughput)

\* n packets p are sent, of which the network loses what it has no room for;
\* a received packet leaves the network.
Send(b, p, n) ==
    LET kept == {k \in 1 .. n * Copies[p.type] :
                    BagCardinality(b) + k <= Capacity}
    IN  IF kept = {} THEN b ELSE b (+) [q \in {p} |-> Cardinality(kept)]

Taken(p) == net (-) SetToBag({p})

Init ==
    /\ client = [c \in Clients |->
                   [pc |-> "idle", commands |-> 0, next |-> 1, test |-> 0,
                    remote |-> CHOOSE s \in Servers : TRUE,
                    throughput |-> {}]]
    /\ server = [s \in Servers |->
                   [pc |-> "down", server_running |-> FALSE, i |-> 0,
                    remote |-> CHOOSE c \in Clients : TRUE, throughput |-> {},
                    counted |-> {}, test |-> <<>>]]
    /\ net = SetToBag(Strangers)
    /\ list = [c \in Clients |->
                 [i \in DOMAIN Listed |->
                    [addr |-> Listed[i], latency |-> 1, throughput |-> {}]]]
    /\ results = [c \in Clients |-> <<>>]

-----------------------------------------------------------------------------
(* The client.                                                             *)

Goto(c, pc) == client' = [client EXCEPT ![c].pc = pc]

\* dcatp.
Command(c) ==
    /\ client[c].pc = "idle"
    /\ client[c].commands < Commands[c]
    /\ client' = [client EXCEPT ![c].pc = "next", ![c].next = 1,
                                ![c].commands = @ + 1]
    /\ UNCHANGED <<server, net, list, results>>

\* If the network is prompt, what a client has sent and what was sent to it
\* has arrived or is lost when its next test begins, and no server is busy
\* with the test before: a server waits one second for a packet and the client
\* pauses as long after it has waited for the server, or has its result.
Quiet(c) ==
    \A s \in Servers :
        server[s].pc \in {"count", "answer"} => server[s].test[1] # c

UnderWay(c) ==
    IF Prompt
    THEN [p \in {q \in DOMAIN net : q.from # c /\ q.to # c} |-> net[p]]
    ELSE net

\* The next neighbour: its node for the list, the socket and the request for a
\* test, whose sending may fail.
Begin(c) ==
    /\ client[c].pc = "next"
    /\ client[c].next <= Len(Neighbors[c])
    /\ Prompt => Quiet(c)
    /\ LET s    == Neighbors[c][client[c].next]
           test == client[c].test + 1
           r    == [client[c] EXCEPT !.next = @ + 1, !.test = test,
                                     !.remote = s, !.throughput = {}]
       IN  \/ /\ client' = [client EXCEPT ![c] = [r EXCEPT !.pc = "ack"]]
              /\ net' = Send(UnderWay(c), Start(c, s, <<c, test>>), 1)
           \/ /\ client' = [client EXCEPT ![c] = [r EXCEPT !.pc = "finish"]]
              /\ net' = UnderWay(c)
    /\ UNCHANGED <<server, list, results>>

\* No socket: the command ends with the neighbours it has tested.
CreateFails(c) ==
    /\ client[c].pc = "next"
    /\ client[c].next <= Len(Neighbors[c])
    /\ Goto(c, "idle")
    /\ UNCHANGED <<server, net, list, results>>

Return(c) ==
    /\ client[c].pc = "next"
    /\ client[c].next > Len(Neighbors[c])
    /\ Goto(c, "idle")
    /\ UNCHANGED <<server, net, list, results>>

\* The socket is connected: it takes the packets of the neighbour only.
Receives(c, p) == p.to = c /\ p.from = client[c].remote

\* The answer to the request.  An acknowledgement starts the data packets, of
\* which the sending of any may fail; on anything else the test is over.
ReceiveAck(c) ==
    /\ client[c].pc = "ack"
    /\ \E p \in DOMAIN net :
         /\ Receives(c, p)
         /\ \/ /\ p.type = "TEST_ACK"
               /\ Goto(c, "result")
               /\ net' = Send(Taken(p), Data(c), PacketCount)
            \/ /\ p.type = "TEST_ACK"
               /\ Goto(c, "finish")
               /\ \E n \in 0 .. PacketCount - 1 :
                    net' = Send(Taken(p), Data(c), n)
            \/ /\ p.type # "TEST_ACK"
               /\ Goto(c, "finish")
               /\ net' = Taken(p)
    /\ UNCHANGED <<server, list, results>>

\* What a packet that should bring the result gives.
Measured(p) == IF p.type = "SUCCESS" THEN p.throughput ELSE {}

ReceiveResult(c) ==
    /\ client[c].pc = "result"
    /\ \E p \in DOMAIN net :
         /\ Receives(c, p)
         /\ client' = [client EXCEPT ![c].pc = "finish",
                                     ![c].throughput = Measured(p)]
         /\ net' = Taken(p)
    /\ UNCHANGED <<server, list, results>>

\* PACKET_TIMEOUT and THROUGHPUT_TIMEOUT.  Mutant: the second is missing.
TimesOutAck(c) == client[c].pc = "ack"
TimesOut(c) == client[c].pc \in {"ack", "result"}

ClientTimeout(c) ==
    /\ TimesOut(c)
    /\ Goto(c, "finish")
    /\ UNCHANGED <<server, net, list, results>>

\* The result, 0 if the test has failed, goes into the list.
Entry(c) == [addr |-> client[c].remote, latency |-> 0,
             throughput |-> client[c].throughput]

Finish(c) ==
    /\ client[c].pc = "finish"
    /\ list' = [list EXCEPT ![c] = RecordThroughput(@, Entry(c))]
    /\ results' = [results EXCEPT ![c] =
            Append(@, [addr |-> client[c].remote, test |-> client[c].test,
                       throughput |-> client[c].throughput])]
    /\ Goto(c, "next")
    /\ UNCHANGED <<server, net>>

Client(c) ==
    \/ Begin(c)
    \/ CreateFails(c)
    \/ Return(c)
    \/ ReceiveAck(c)
    \/ ReceiveResult(c)
    \/ ClientTimeout(c)
    \/ Finish(c)

-----------------------------------------------------------------------------
(* The server.                                                             *)

\* db_start_udp_server, which does nothing when it thinks the server runs.
\* The thread has a higher priority than its creator: server_running is set
\* before the call returns, unless there is no socket and the thread ends.
StartServer(s) ==
    /\ server[s].pc = "down"
    /\ ~server[s].server_running
    /\ server' = [server EXCEPT ![s].pc = "receive",
                                ![s].server_running = TRUE]
    /\ UNCHANGED <<client, net, list, results>>

\* The buffer of the main loop holds a control packet; sock_udp_recv refuses
\* what is longer.  Mutant: data packets are as short.
FitsAll(p) == TRUE
Fits(p) == p.type # "DATA"

\* A packet in the main loop: too long, a request for a test (acknowledged with
\* whatever throughput the buffer still holds), or one on which the thread
\* returns.
ServerReceive(s) ==
    /\ server[s].pc = "receive"
    /\ \E p \in DOMAIN net :
         /\ p.to = s
         /\ LET r == [server[s] EXCEPT !.pc = "count", !.i = 0, !.counted = {},
                          !.remote = p.from, !.test = p.test]
            IN  \/ /\ ~Fits(p)
                   /\ net' = Taken(p)
                   /\ UNCHANGED server
                \/ /\ Fits(p) /\ p.type = "START"
                   /\ server' = [server EXCEPT ![s] = r]
                   /\ net' = Send(Taken(p), Answer("TEST_ACK", s, r), 1)
                \/ /\ Fits(p) /\ p.type # "START"
                   /\ server' = [server EXCEPT ![s].pc = "down"]
                   /\ net' = Taken(p)
    /\ UNCHANGED <<client, list, results>>

\* Mutant: the loop runs once too often.
LastPacketLate(r) == r.i = PacketCount
LastPacket(r) == r.i + 1 = PacketCount

\* A packet during the test: whatever it is and whoever sent it, it counts,
\* and its sender is the one to answer.
Count(s) ==
    /\ server[s].pc = "count"
    /\ \E p \in DOMAIN net :
         /\ p.to = s
         /\ LET r == [server[s] EXCEPT
                        !.i = @ + 1,
                        !.pc = IF LastPacket(server[s]) THEN "answer"
                                                        ELSE "count",
                        !.counted = @ \cup {p.test},
                        !.remote = p.from]
            IN  server' = [server EXCEPT ![s] = r]
         /\ net' = Taken(p)
    /\ UNCHANGED <<client, list, results>>

\* PACKET_TIMEOUT cuts the test short.  Mutant: the loop waits on for the
\* first packet.
CutsShortLater(s) == server[s].pc = "count" /\ server[s].i > 0
CutsShort(s) == server[s].pc = "count"

ServerTimeout(s) ==
    /\ CutsShort(s)
    /\ server' = [server EXCEPT ![s].pc = "answer"]
    /\ UNCHANGED <<client, net, list, results>>

\* packet_size * i * US_PER_SEC / (end_timer - start_timer) in 32 bits: the
\* time, less the 100 us the client sleeps (and less the timeout when the test
\* was cut short), may be positive or wrap around, which gives 0.
\* Mutant: the result is that of the test before when this was cut short.
QuotientsKept(r) ==
    IF r.i < PacketCount THEN {r.throughput} ELSE {{}, r.counted}

Quotients(r) == {{}, r.counted}

Result(s) ==
    /\ server[s].pc = "answer"
    /\ \E q \in Quotients(server[s]) :
         LET r == [server[s] EXCEPT !.throughput = q, !.pc = "receive"]
         IN  /\ server' = [server EXCEPT ![s] = r]
             /\ net' = Send(net, Answer("SUCCESS", s, r), 1)
    /\ UNCHANGED <<client, list, results>>

\* The time may also be 0.  The division then stops the board, on processors
\* where it does not give 0.
DivisionByZero(s) ==
    /\ server[s].pc = "answer"
    /\ server' = [server EXCEPT ![s].pc = "trapped"]
    /\ UNCHANGED <<client, net, list, results>>

Server(s) == ServerReceive(s) \/ Count(s) \/ ServerTimeout(s) \/ Result(s)
                \/ DivisionByZero(s)

-----------------------------------------------------------------------------
Next ==
    \/ \E c \in Clients : Command(c) \/ Client(c)
    \/ \E s \in Servers : StartServer(s) \/ Server(s)

Spec == Init /\ [][Next]_vars

\* Threads are scheduled and timeouts strike; nothing is assumed of the
\* network, which delivers no packet unless it does.
FairSpec ==
    /\ Spec
    /\ \A c \in Clients : WF_vars(Client(c))
    /\ \A s \in Servers : WF_vars(Server(s))

-----------------------------------------------------------------------------
(* Properties.                                                             *)

Tests(c) == {c} \X (1 .. Commands[c] * Len(Neighbors[c]))
AllTests ==
    (UNION {Tests(c) : c \in Clients}) \cup {p.test : p \in Strangers}

\* Type invariant: a throughput is one of 0 to PacketCount packets.
ClientSet ==
    [pc : {"idle", "next", "ack", "result", "finish"}, commands : Nat,
     next : Nat, test : Nat, remote : Servers, throughput : SUBSET AllTests]
EntrySet  == [addr : Servers, latency : {0, 1}, throughput : SUBSET AllTests]
ResultSet == [addr : Servers, test : Nat, throughput : SUBSET AllTests]

TypeOK ==
    /\ client \in [Clients -> ClientSet]
    /\ \A s \in Servers :
         /\ server[s].pc \in {"down", "receive", "count", "answer", "trapped"}
         /\ server[s].i \in 0 .. PacketCount
         /\ server[s].counted \cup server[s].throughput \subseteq AllTests
         /\ Cardinality(server[s].counted) <= server[s].i
    /\ list \in [Clients -> Seq(EntrySet)]
    /\ results \in [Clients -> Seq(ResultSet)]

\* The server thread returns on a packet that no node running the DCA sends,
\* and on nothing else: neither on data packets that come after their test is
\* over, nor on a request repeated in the middle of another client's test
\* (udp_throughput.c:125-128; db_start_udp_server would not start it again).
ServerRuns ==
    \A s \in Servers :
        server[s].server_running /\ server[s].pc = "down"
            => \E p \in Strangers : p.to = s /\ p \notin DOMAIN net

\* Where one client tests its neighbours at a time and the network is prompt,
\* what it records for a neighbour was computed from packets of that very
\* test, whatever was lost, cut short or tested before: neither a throughput
\* left in the buffer of the server (udp_throughput.c:63, 113) nor packets of
\* another test get into it.
ResultOwn ==
    \A c \in Clients : \A i \in DOMAIN results[c] :
        results[c][i].throughput \subseteq {<<c, results[c][i].test>>}

\* What the last test of a neighbour has given, 0 if there was none.
Latest(S) == CHOOSE i \in S : \A j \in S : j <= i

ResultOf(c, s) ==
    LET of == {i \in DOMAIN results[c] : results[c][i].addr = s}
    IN  IF of = {} THEN {} ELSE results[c][Latest(of)].throughput

\* The list of a client holds every neighbour once, with the result of its
\* last test, a failed one included, and with the latency that was measured
\* before (udp_throughput.c:210-215).
RecordedListed ==
    \A c \in Clients :
        /\ \A i, j \in DOMAIN list[c] :
             list[c][i].addr = list[c][j].addr => i = j
        /\ \A i \in DOMAIN list[c] :
             LET s == list[c][i].addr
             IN  /\ list[c][i].throughput = ResultOf(c, s)
                 /\ list[c][i].latency =
                      IF \E k \in DOMAIN Listed : Listed[k] = s THEN 1 ELSE 0
        /\ \A i \in DOMAIN results[c] : NodeExists(list[c], results[c][i].addr)

\* dcatp ends, whatever the network loses and although a server may have
\* stopped for good, while the clients of one server compete for it.
CommandsEnd ==
    \A c \in Clients : client[c].pc # "idle" ~> client[c].pc = "idle"

\* A server that has accepted a test comes back to its main loop, unless the
\* division stops the board, although any client may have given up.
ServersReturn ==
    \A s \in Servers :
        server[s].pc = "count" ~> server[s].pc \in {"receive", "trapped"}

-----------------------------------------------------------------------------
(* The inductive invariant.                                                *)

\* A client has begun no more tests than its commands have come to, and waits
\* in one of them.
InTests(c, r) ==
    LET n == Len(Neighbors[c])
    IN  /\ r.commands <= Commands[c]
        /\ r.next \in 1 .. n + 1
        /\ r.pc # "idle" => r.commands > 0
        /\ r.test <= IF r.pc = "idle" THEN r.commands * n
                     ELSE (r.commands - 1) * n + (r.next - 1)
        /\ r.pc \in {"ack", "result", "finish"} => r.test > 0

TestInv == \A c \in Clients : InTests(c, client[c])

\* A packet that does not come from a stranger belongs to a test, and tells of
\* tests.
PacketInv ==
    \A p \in DOMAIN net :
        p \in Strangers \/ (p.test \in AllTests /\ p.throughput \subseteq AllTests)

\* A server counts packets of tests, no more than it has received; the test it
\* is in is one.
ServerInv ==
    /\ DOMAIN server = Servers
    /\ \A s \in Servers :
         /\ DOMAIN server[s] = {"pc", "server_running", "i", "remote",
                                "throughput", "counted", "test"}
         /\ IsFiniteSet(server[s].counted)
         /\ server[s].pc = "count" => server[s].i < PacketCount
         /\ server[s].pc \in {"count", "answer"} => server[s].test \in AllTests

\* Besides, the neighbours that were listed before stay on the list.
ListInv ==
    /\ RecordedListed
    /\ \A c \in Clients : \A k \in DOMAIN Listed : NodeExists(list[c], Listed[k])

IInv == TypeOK /\ TestInv /\ PacketInv /\ ServerInv /\ ListInv
=============================================================================
