-------------------------- MODULE ThroughputProofs ---------------------------
(***************************************************************************)
(* Proofs about Throughput, for every number of clients, servers, commands *)
(* and packets, and whatever the network duplicates, loses or delays.      *)
(***************************************************************************)
EXTENDS Throughput, LinkedListProofs

-----------------------------------------------------------------------------
(* The bag of packets under way.                                           *)

\* Sending packets p brings nothing else under way and leaves the copies of
\* every other packet alone.
LEMMA SendOther ==
    ASSUME NEW b, NEW p, NEW n, NEW q, q # p, q \in DOMAIN Send(b, p, n),
           b[q] = 1
    PROVE  q \in DOMAIN b /\ Send(b, p, n)[q] = 1
  <1> DEFINE kept == {k \in 1 .. n * Copies[p.type] :
                         BagCardinality(b) + k <= Capacity}
             more == [r \in {p} |-> Cardinality(kept)]
  <1>1. CASE kept = {}
    BY <1>1 DEF Send
  <1>2. CASE kept # {}
    <2>1. Send(b, p, n) = b (+) more
      BY <1>2 DEF Send
    <2>2. q \notin DOMAIN more
      OBVIOUS
    <2> HIDE DEF kept, more
    <2>3. QED  BY <2>1, <2>2 DEF (+)
  <1>3. QED  BY <1>1, <1>2

LEMMA SendDomain ==
    ASSUME NEW b, NEW p, NEW n
    PROVE  DOMAIN Send(b, p, n) \subseteq DOMAIN b \cup {p}
  <1> DEFINE kept == {k \in 1 .. n * Copies[p.type] :
                         BagCardinality(b) + k <= Capacity}
             more == [r \in {p} |-> Cardinality(kept)]
  <1>1. CASE kept = {}
    BY <1>1 DEF Send
  <1>2. CASE kept # {}
    <2>1. Send(b, p, n) = b (+) more
      BY <1>2 DEF Send
    <2>2. DOMAIN more = {p}
      OBVIOUS
    <2> HIDE DEF kept, more
    <2>3. QED  BY <2>1, <2>2 DEF (+)
  <1>3. QED  BY <1>1, <1>2

\* Receiving a packet brings nothing under way, and takes it away if there was
\* one copy of it.
LEMMA TakenDomain ==
    ASSUME NEW p
    PROVE  /\ DOMAIN Taken(p) \subseteq DOMAIN net
           /\ \A q \in DOMAIN Taken(p) : q # p => Taken(p)[q] = net[q]
           /\ p \in DOMAIN net /\ net[p] = 1 => p \notin DOMAIN Taken(p)
  BY DEF Taken, SetToBag, (-)

-----------------------------------------------------------------------------
(* The server thread returns on a stranger's packet only.                  *)

\* Every server is a record of its locals and globals.
ServerShape ==
    /\ DOMAIN server = Servers
    /\ \A s \in Servers :
         DOMAIN server[s] = {"pc", "server_running", "i", "remote",
                             "throughput", "counted", "test"}

\* What a server may receive is a request, data, or a stranger's packet of
\* which there is one copy; and it comes from no server.
ToServers(n) ==
    \A p \in DOMAIN n :
        /\ p.to \in Servers =>
             /\ p.type \in {"START", "DATA"} \/ p \in Strangers
             /\ p.from \notin Servers
        /\ p \in Strangers => n[p] = 1

\* Hence a busy server answers no server.
AnswersClients ==
    \A s \in Servers : server[s].pc \in {"count", "answer"}
                         => server[s].remote \notin Servers

RunsInv == ServerShape /\ ToServers(net) /\ AnswersClients /\ ServerRuns

\* Sending a packet of the code keeps what servers may receive, and brings no
\* stranger's packet back.
LEMMA SendKeeps ==
    ASSUME NEW b, NEW p, NEW n, ToServers(b), p \notin Strangers,
           p.to \in Servers => p.type \in {"START", "DATA"}
                                /\ p.from \notin Servers
    PROVE  /\ ToServers(Send(b, p, n))
           /\ \A q \in Strangers : q \notin DOMAIN b
                                     => q \notin DOMAIN Send(b, p, n)
  <1>1. DOMAIN Send(b, p, n) \subseteq DOMAIN b \cup {p}
    BY SendDomain
  <1>2. \A q \in Strangers \cap DOMAIN Send(b, p, n) : Send(b, p, n)[q] = 1
    <2> TAKE q \in Strangers \cap DOMAIN Send(b, p, n)
    <2>1. q # p /\ q \in DOMAIN b /\ b[q] = 1
      BY <1>1 DEF ToServers
    <2>2. QED  BY <2>1, SendOther
  <1>3. QED  BY <1>1, <1>2 DEF ToServers

\* So does receiving one, or clearing the network for the next test.
LEMMA TakenKeeps ==
    ASSUME NEW p, ToServers(net)
    PROVE  /\ ToServers(Taken(p))
           /\ \A q \in Strangers : q \notin DOMAIN net
                                     => q \notin DOMAIN Taken(p)
           /\ p \in Strangers /\ p \in DOMAIN net => p \notin DOMAIN Taken(p)
  <1>1. /\ DOMAIN Taken(p) \subseteq DOMAIN net
        /\ \A q \in DOMAIN Taken(p) : q # p => Taken(p)[q] = net[q]
        /\ p \in DOMAIN net /\ net[p] = 1 => p \notin DOMAIN Taken(p)
    BY TakenDomain
  <1>2. QED  BY <1>1 DEF ToServers

LEMMA UnderWayKeeps ==
    ASSUME NEW c, ToServers(net)
    PROVE  /\ ToServers(UnderWay(c))
           /\ \A q \in Strangers : q \notin DOMAIN net
                                     => q \notin DOMAIN UnderWay(c)
  <1>1. \A q \in DOMAIN UnderWay(c) :
           q \in DOMAIN net /\ UnderWay(c)[q] = net[q]
    BY DEF UnderWay
  <1>2. QED  BY <1>1 DEF ToServers

LEMMA RunsInit == Init => RunsInv
  <1> SUFFICES ASSUME Init PROVE RunsInv
    OBVIOUS
  <1>1. ServerShape /\ AnswersClients /\ ServerRuns
    BY DEF Init, ServerShape, AnswersClients, ServerRuns
  <1>2. ToServers(net)
    <2>1. DOMAIN net = Strangers /\ \A p \in Strangers : net[p] = 1
      BY DEF Init, SetToBag
    <2>2. QED  BY <2>1, ThroughputAssumption DEF ToServers
  <1>3. QED  BY <1>1, <1>2 DEF RunsInv

\* A step that leaves the servers alone and brings no stranger's packet back.
LEMMA ClientsRun ==
    ASSUME RunsInv, UNCHANGED server, ToServers(net'),
           \A q \in Strangers : q \notin DOMAIN net => q \notin DOMAIN net'
    PROVE  RunsInv'
  BY DEF RunsInv, ServerShape, AnswersClients, ServerRuns, ToServers

\* A step that changes one server, and ends its thread only on a stranger's
\* packet.
LEMMA ServerRunsStep ==
    ASSUME RunsInv, NEW s \in Servers, NEW r,
           server' = [server EXCEPT ![s] = r],
           DOMAIN r = {"pc", "server_running", "i", "remote",
                       "throughput", "counted", "test"},
           ToServers(net'),
           \A q \in Strangers : q \notin DOMAIN net => q \notin DOMAIN net',
           r.pc \in {"count", "answer"} => r.remote \notin Servers,
           r.server_running /\ r.pc = "down" =>
               \E p \in Strangers : p.to = s /\ p \notin DOMAIN net'
    PROVE  RunsInv'
  <1>1. /\ DOMAIN server' = Servers
        /\ server'[s] = r
        /\ \A t \in Servers : t # s => server'[t] = server[t]
    BY DEF RunsInv, ServerShape
  <1>2. ServerShape'
    BY <1>1 DEF RunsInv, ServerShape
  <1>3. AnswersClients'
    BY <1>1 DEF RunsInv, AnswersClients
  <1>4. ServerRuns'
    BY <1>1 DEF RunsInv, ServerRuns
  <1>5. ToServers(net)'
    BY DEF ToServers
  <1>6. QED  BY <1>2, <1>3, <1>4, <1>5 DEF RunsInv

\* No step of a client touches the servers; what it sends to one is a request
\* or data, from a client.
LEMMA RunsClientStep ==
    ASSUME RunsInv, NEW c \in Clients, Command(c) \/ Client(c)
    PROVE  RunsInv'
  <1> USE DEF RunsInv
  <1>1. c \notin Servers /\ \A p \in Strangers : p.type = "OTHER"
    BY ThroughputAssumption
  <1>2. CASE Command(c) \/ CreateFails(c) \/ Return(c) \/ ClientTimeout(c)
                \/ Finish(c)
    BY <1>2, ClientsRun
       DEF Command, CreateFails, Return, ClientTimeout, Finish, Goto
  <1>3. CASE Begin(c)
    <2> DEFINE p == Start(c, Neighbors[c][client[c].next],
                          <<c, client[c].test + 1>>)
    <2>1. /\ UNCHANGED server
          /\ net' = Send(UnderWay(c), p, 1) \/ net' = UnderWay(c)
      BY <1>3 DEF Begin
    <2>2. /\ ToServers(UnderWay(c))
          /\ \A q \in Strangers : q \notin DOMAIN net
                                  => q \notin DOMAIN UnderWay(c)
      BY UnderWayKeeps
    <2>3. p.type = "START" /\ p.from = c /\ p \notin Strangers
      BY <1>1 DEF Start, Packet
    <2> HIDE DEF p
    <2>4. CASE net' = UnderWay(c)
      BY <2>1, <2>2, <2>4, ClientsRun
    <2>5. CASE net' = Send(UnderWay(c), p, 1)
      <3>1. /\ ToServers(net')
            /\ \A q \in Strangers : q \notin DOMAIN UnderWay(c)
                                    => q \notin DOMAIN net'
        BY <1>1, <2>2, <2>3, <2>5, SendKeeps
      <3>2. QED  BY <2>1, <2>2, <3>1, ClientsRun
    <2>6. QED  BY <2>1, <2>4, <2>5
  <1>4. CASE ReceiveAck(c) \/ ReceiveResult(c)
    <2>1. UNCHANGED server
      BY <1>4 DEF ReceiveAck, ReceiveResult
    <2>2. PICK p \in DOMAIN net :
            net' = Taken(p) \/ \E n : net' = Send(Taken(p), Data(c), n)
      BY <1>4 DEF ReceiveAck, ReceiveResult
    <2>3. /\ ToServers(Taken(p))
          /\ \A q \in Strangers : q \notin DOMAIN net
                                  => q \notin DOMAIN Taken(p)
      BY TakenKeeps
    <2>4. CASE net' = Taken(p)
      BY <2>1, <2>3, <2>4, ClientsRun
    <2>5. CASE \E n : net' = Send(Taken(p), Data(c), n)
      <3>1. PICK n : net' = Send(Taken(p), Data(c), n)
        BY <2>5
      <3>2. /\ Data(c).type = "DATA" /\ Data(c).from = c
            /\ Data(c) \notin Strangers
        BY <1>1 DEF Data, Packet
      <3>3. /\ ToServers(net')
            /\ \A q \in Strangers : q \notin DOMAIN Taken(p)
                                    => q \notin DOMAIN net'
        BY <1>1, <2>3, <3>1, <3>2, SendKeeps
      <3>4. QED  BY <2>1, <2>3, <3>3, ClientsRun
    <2>6. QED  BY <2>2, <2>4, <2>5
  <1>5. QED  BY <1>2, <1>3, <1>4 DEF Client

\* A server answers the sender of a packet, which is no server; and the one
\* packet on which its thread returns is a stranger's.
LEMMA RunsServerStep ==
    ASSUME RunsInv, NEW s \in Servers, StartServer(s) \/ Server(s)
    PROVE  RunsInv'
  <1> USE DEF RunsInv
  <1>1. DOMAIN server = Servers /\ DOMAIN server[s] =
            {"pc", "server_running", "i", "remote",
             "throughput", "counted", "test"}
    BY DEF ServerShape
  <1>2. \A p \in Strangers : p.type = "OTHER"
    BY ThroughputAssumption
  <1>3. ASSUME server[s].pc = "down", server[s].server_running
        PROVE  \E p \in Strangers : p.to = s /\ p \notin DOMAIN net
    BY <1>3 DEF ServerRuns
  <1>4. ASSUME NEW type \in {"TEST_ACK", "SUCCESS"}, NEW r, NEW b,
               r.remote \notin Servers, ToServers(b)
        PROVE  /\ ToServers(Send(b, Answer(type, s, r), 1))
               /\ \A q \in Strangers : q \notin DOMAIN b
                    => q \notin DOMAIN Send(b, Answer(type, s, r), 1)
    <2>1. Answer(type, s, r) \notin Strangers /\ Answer(type, s, r).to \notin Servers
      BY <1>2, <1>4 DEF Answer, Packet
    <2>2. QED  BY <1>4, <2>1, SendKeeps
  <1>5. CASE StartServer(s)
    <2> DEFINE r == [server[s] EXCEPT !.pc = "receive", !.server_running = TRUE]
    <2>1. server' = [server EXCEPT ![s] = r] /\ net' = net
      BY <1>1, <1>5 DEF StartServer
    <2>2. r.pc = "receive" /\ DOMAIN r = DOMAIN server[s]
      BY <1>1
    <2> HIDE DEF r
    <2>3. QED  BY <1>1, <2>1, <2>2, ServerRunsStep
  <1>6. CASE ServerReceive(s)
    <2> DEFINE r(p) == [server[s] EXCEPT !.pc = "count", !.i = 0,
                          !.counted = {}, !.remote = p.from, !.test = p.test]
    <2>1. PICK p \in DOMAIN net :
            /\ p.to = s
            /\ \/ net' = Taken(p) /\ UNCHANGED server
               \/ /\ server' = [server EXCEPT ![s] = r(p)]
                  /\ net' = Send(Taken(p), Answer("TEST_ACK", s, r(p)), 1)
               \/ /\ Fits(p) /\ p.type # "START"
                  /\ server' = [server EXCEPT ![s].pc = "down"]
                  /\ net' = Taken(p)
      BY <1>6 DEF ServerReceive
    <2>2. /\ p.type \in {"START", "DATA"} \/ p \in Strangers
          /\ p.from \notin Servers
      BY <2>1 DEF ToServers
    <2>3. /\ ToServers(Taken(p))
          /\ \A q \in Strangers : q \notin DOMAIN net
                                  => q \notin DOMAIN Taken(p)
          /\ p \in Strangers => p \notin DOMAIN Taken(p)
      BY TakenKeeps
    <2>4. CASE net' = Taken(p) /\ UNCHANGED server
      BY <2>3, <2>4, ClientsRun
    <2>5. CASE /\ server' = [server EXCEPT ![s] = r(p)]
               /\ net' = Send(Taken(p), Answer("TEST_ACK", s, r(p)), 1)
      <3>1. /\ r(p).pc = "count" /\ r(p).remote = p.from
            /\ DOMAIN r(p) = DOMAIN server[s]
        BY <1>1
      <3> HIDE DEF r
      <3>2. /\ ToServers(net')
            /\ \A q \in Strangers : q \notin DOMAIN Taken(p)
                                    => q \notin DOMAIN net'
        BY <1>4, <2>2, <2>3, <2>5, <3>1
      <3>3. QED  BY <1>1, <2>2, <2>3, <2>5, <3>1, <3>2, ServerRunsStep
    <2>6. CASE /\ Fits(p) /\ p.type # "START"
               /\ server' = [server EXCEPT ![s].pc = "down"]
               /\ net' = Taken(p)
      <3> DEFINE d == [server[s] EXCEPT !.pc = "down"]
      <3>1. server' = [server EXCEPT ![s] = d]
        BY <2>6
      <3>2. d.pc = "down" /\ DOMAIN d = DOMAIN server[s]
        BY <1>1
      <3> HIDE DEF d
      <3>3. p \in Strangers /\ p.to = s /\ p \notin DOMAIN net'
        BY <2>1, <2>2, <2>3, <2>6 DEF Fits
      <3>4. ToServers(net')
        BY <2>3, <2>6
      <3>5. \A q \in Strangers : q \notin DOMAIN net => q \notin DOMAIN net'
        BY <2>3, <2>6
      <3>6. QED  BY <1>1, <3>1, <3>2, <3>3, <3>4, <3>5, ServerRunsStep
    <2>7. QED  BY <2>1, <2>4, <2>5, <2>6
  <1>7. CASE Count(s)
    <2> DEFINE r(p) == [server[s] EXCEPT
                          !.i = @ + 1,
                          !.pc = IF LastPacket(server[s]) THEN "answer"
                                                          ELSE "count",
                          !.counted = @ \cup {p.test}, !.remote = p.from]
    <2>1. PICK p \in DOMAIN net :
            p.to = s /\ server' = [server EXCEPT ![s] = r(p)] /\ net' = Taken(p)
      BY <1>7 DEF Count
    <2>2. DOMAIN r(p) = DOMAIN server[s]
      OBVIOUS
    <2>3. r(p).pc \in {"count", "answer"} /\ r(p).remote = p.from
      BY <1>1
    <2> HIDE DEF r
    <2>4. p.from \notin Servers
      BY <2>1 DEF ToServers
    <2>5. /\ ToServers(net')
          /\ \A q \in Strangers : q \notin DOMAIN net => q \notin DOMAIN net'
      BY <2>1, TakenKeeps
    <2>6. QED  BY <1>1, <2>1, <2>2, <2>3, <2>4, <2>5, ServerRunsStep
  <1>8. CASE ServerTimeout(s) \/ DivisionByZero(s)
    <2>1. PICK pc \in {"answer", "trapped"} :
            /\ server[s].pc \in {"count", "answer"}
            /\ server' = [server EXCEPT ![s] = [@ EXCEPT !.pc = pc]]
            /\ net' = net
      BY <1>8 DEF ServerTimeout, CutsShort, DivisionByZero
    <2> DEFINE r == [server[s] EXCEPT !.pc = pc]
    <2>2. server' = [server EXCEPT ![s] = r]
      BY <2>1
    <2>3. /\ r.pc = pc /\ r.remote = server[s].remote
          /\ DOMAIN r = DOMAIN server[s]
      BY <1>1
    <2> HIDE DEF r
    <2>4. server[s].remote \notin Servers
      BY <2>1 DEF AnswersClients
    <2>5. QED  BY <1>1, <2>1, <2>2, <2>3, <2>4, ServerRunsStep
  <1>9. CASE Result(s)
    <2>1. PICK q : LET r == [server[s] EXCEPT !.throughput = q, !.pc = "receive"]
                   IN  /\ server' = [server EXCEPT ![s] = r]
                       /\ net' = Send(net, Answer("SUCCESS", s, r), 1)
      BY <1>9 DEF Result
    <2> DEFINE r == [server[s] EXCEPT !.throughput = q, !.pc = "receive"]
    <2>2. /\ server' = [server EXCEPT ![s] = r]
          /\ net' = Send(net, Answer("SUCCESS", s, r), 1)
      BY <2>1
    <2>3. /\ r.pc = "receive" /\ r.remote = server[s].remote
          /\ DOMAIN r = DOMAIN server[s]
      BY <1>1
    <2> HIDE DEF r
    <2>4. server[s].remote \notin Servers
      BY <1>9 DEF Result, AnswersClients
    <2>5. /\ ToServers(net')
          /\ \A p \in Strangers : p \notin DOMAIN net => p \notin DOMAIN net'
      BY <1>4, <2>2, <2>3, <2>4
    <2>6. QED  BY <1>1, <2>2, <2>3, <2>5, ServerRunsStep
  <1>10. QED  BY <1>5, <1>6, <1>7, <1>8, <1>9 DEF Server

\* Whatever the network does, the server thread returns only on a packet from
\* a node that does not run the DCA.
THEOREM ServerRunsAlways == Spec => []ServerRuns
  <1>1. RunsInv /\ [Next]_vars => RunsInv'
    <2> SUFFICES ASSUME RunsInv, [Next]_vars PROVE RunsInv'
      OBVIOUS
    <2>1. CASE UNCHANGED vars
      BY <2>1, ClientsRun DEF vars, RunsInv
    <2>2. CASE Next
      BY <2>2, RunsClientStep, RunsServerStep DEF Next
    <2>3. QED  BY <2>1, <2>2
  <1>2. RunsInv => ServerRuns
    BY DEF RunsInv
  <1>3. QED  BY <1>1, <1>2, RunsInit, PTL DEF Spec

-----------------------------------------------------------------------------
(* One client on a prompt network records its own tests.                   *)

\* Packets that belong to test t of client c, and results computed from it.
NetOwn(n, c, t) ==
    \A p \in DOMAIN n :
        /\ p.test = t
        /\ p.from = c \/ p.to = c
        /\ p.type = "SUCCESS" => p.throughput \subseteq {t}

\* A busy server is busy with test t, has counted packets of it only, and
\* answers c.
ServersOwn(c, t) ==
    \A s \in Servers : server[s].pc \in {"count", "answer"} =>
        /\ server[s].test = t
        /\ server[s].remote = c
        /\ server[s].counted \subseteq {t}

ClientOwn(c) ==
    /\ DOMAIN client = {c}
    /\ DOMAIN client[c] =
         {"pc", "commands", "next", "test", "remote", "throughput"}
    /\ client[c].next \in Nat \ {0}
    /\ client[c].test \in Nat
    /\ client[c].pc \in {"ack", "result", "finish"} =>
         /\ client[c].remote \in Servers
         /\ client[c].throughput \subseteq {TestOf(c)}

\* What a client has recorded for one of its tests.
Own(c) == {r \in [addr : Servers, test : Nat,
                  throughput : SUBSET ({c} \X Nat)] :
             r.throughput \subseteq {<<c, r.test>>}}

ResultsOwn(c) == DOMAIN results = {c} /\ results[c] \in Seq(Own(c))

OwnInv(c) ==
    /\ ServerShape
    /\ ClientOwn(c)
    /\ ResultsOwn(c)
    /\ NetOwn(net, c, TestOf(c))
    /\ ServersOwn(c, TestOf(c))

LEMMA SendOwn ==
    ASSUME NEW b, NEW p, NEW n, NEW c, NEW t, NetOwn(b, c, t),
           p.test = t, p.from = c \/ p.to = c,
           p.type = "SUCCESS" => p.throughput \subseteq {t}
    PROVE  NetOwn(Send(b, p, n), c, t)
  BY SendDomain DEF NetOwn

LEMMA TakenOwn ==
    ASSUME NEW p, NEW c, NEW t, NetOwn(net, c, t)
    PROVE  NetOwn(Taken(p), c, t)
  BY TakenDomain DEF NetOwn

LEMMA OwnInit ==
    ASSUME NEW c, Clients = {c}, Strangers = {}, Init
    PROVE  OwnInv(c)
  <1>1. ServerShape
    BY DEF Init, ServerShape
  <1>2. ClientOwn(c)
    BY DEF Init, ClientOwn
  <1>3. ResultsOwn(c)
    BY DEF Init, ResultsOwn
  <1>4. DOMAIN net = {}
    BY DEF Init, SetToBag
  <1>5. NetOwn(net, c, TestOf(c))
    BY <1>4 DEF NetOwn
  <1>6. ServersOwn(c, TestOf(c))
    BY DEF Init, ServersOwn
  <1>7. QED  BY <1>1, <1>2, <1>3, <1>5, <1>6 DEF OwnInv

\* When its next test begins nothing is left of the one before.
LEMMA OwnBegin ==
    ASSUME NEW c, c \notin Servers, Clients = {c}, Prompt, OwnInv(c), Begin(c)
    PROVE  OwnInv(c)'
  <1> DEFINE s == Neighbors[c][client[c].next]
             t == <<c, client[c].test + 1>>
  <1> USE DEF OwnInv
  <1>1. s \in Servers
    <2>1. Neighbors[c] \in Seq(Servers)
      BY ThroughputAssumption
    <2>2. client[c].next \in 1 .. Len(Neighbors[c])
      BY <2>1 DEF Begin, ClientOwn
    <2>3. QED  BY <2>1, <2>2
  <1>2. PICK pc \in {"ack", "finish"} :
          client' = [client EXCEPT ![c] =
            [client[c] EXCEPT !.next = @ + 1, !.test = client[c].test + 1,
                              !.remote = s, !.throughput = {}, !.pc = pc]]
    <2> DEFINE r == [client[c] EXCEPT !.next = @ + 1,
                       !.test = client[c].test + 1, !.remote = s,
                       !.throughput = {}]
               f(pc) == [client[c] EXCEPT !.next = @ + 1,
                           !.test = client[c].test + 1, !.remote = s,
                           !.throughput = {}, !.pc = pc]
    <2>1. \/ client' = [client EXCEPT ![c] = [r EXCEPT !.pc = "ack"]]
          \/ client' = [client EXCEPT ![c] = [r EXCEPT !.pc = "finish"]]
      BY DEF Begin
    <2>2. \A pc : [r EXCEPT !.pc = pc] = f(pc)
      BY DEF ClientOwn
    <2> HIDE DEF r, f
    <2>3. \E pc \in {"ack", "finish"} : client' = [client EXCEPT ![c] = f(pc)]
      BY <2>1, <2>2
    <2>4. QED  BY <2>3 DEF f
  <1>3. /\ client'[c].pc = pc
        /\ client'[c].next = client[c].next + 1
        /\ client'[c].test = client[c].test + 1
        /\ client'[c].remote = s
        /\ client'[c].throughput = {}
        /\ DOMAIN client' = {c}
        /\ DOMAIN client'[c] = DOMAIN client[c]
    BY <1>2 DEF ClientOwn
  <1>4. TestOf(c)' = t
    BY <1>3 DEF TestOf
  <1>5. ClientOwn(c)'
    BY <1>1, <1>3 DEF ClientOwn
  <1>6. DOMAIN UnderWay(c) = {}
    BY DEF UnderWay, NetOwn
  <1>7. NetOwn(UnderWay(c), c, t)
    BY <1>6 DEF NetOwn
  <1>8. NetOwn(net', c, t)
    <2>1. \/ net' = UnderWay(c)
          \/ net' = Send(UnderWay(c), Start(c, s, t), 1)
      BY DEF Begin
    <2>2. /\ Start(c, s, t).test = t /\ Start(c, s, t).from = c
          /\ Start(c, s, t).type = "START"
      BY DEF Start, Packet
    <2> HIDE DEF s, t
    <2>3. QED  BY <1>7, <2>1, <2>2, SendOwn
  <1>9. ServersOwn(c, TestOf(c))'
    <2>1. \A x \in Servers : server[x].pc \notin {"count", "answer"}
      <3>1. Quiet(c)
        BY DEF Begin
      <3>2. TestOf(c)[1] = c
        BY DEF TestOf
      <3>3. QED  BY <3>1, <3>2 DEF Quiet, ServersOwn
    <2>2. server' = server
      BY DEF Begin
    <2>3. QED  BY <2>1, <2>2 DEF ServersOwn
  <1>10. ServerShape' /\ ResultsOwn(c)'
    BY DEF Begin, ServerShape, ResultsOwn, Own
  <1>11. NetOwn(net, c, TestOf(c))'
    BY <1>4, <1>8 DEF NetOwn
  <1>12. QED  BY <1>5, <1>9, <1>10, <1>11

\* In the other steps of the client its test is the same one.
LEMMA OwnClient ==
    ASSUME NEW c, Clients = {c}, OwnInv(c), Command(c) \/ Client(c), ~Begin(c)
    PROVE  OwnInv(c)'
  <1> USE DEF OwnInv
  <1>1. ServerShape' /\ server' = server
    BY DEF Client, Command, CreateFails, Return, ReceiveAck, ReceiveResult,
           ClientTimeout, Finish, ServerShape
  <1>2. /\ NetOwn(net', c, TestOf(c))
        /\ TestOf(c)' = TestOf(c)
        /\ ClientOwn(c)'
        /\ ResultsOwn(c)'
    <2>1. ASSUME NEW pc, Goto(c, pc),
                 pc \in {"ack", "result", "finish"} =>
                    client[c].pc \in {"ack", "result", "finish"}
          PROVE  TestOf(c)' = TestOf(c) /\ ClientOwn(c)'
      BY <2>1 DEF Goto, ClientOwn, TestOf
    <2>2. results' = results => ResultsOwn(c)'
      BY DEF ResultsOwn, Own
    <2>3. CASE Command(c)
      BY <2>2, <2>3 DEF Command, ClientOwn, TestOf
    <2>4. CASE CreateFails(c) \/ Return(c) \/ ClientTimeout(c)
      BY <2>1, <2>2, <2>4 DEF CreateFails, Return, ClientTimeout, TimesOut
    <2>5. CASE ReceiveAck(c)
      <3>1. PICK p \in DOMAIN net :
              net' = Taken(p) \/ \E n : net' = Send(Taken(p), Data(c), n)
        BY <2>5 DEF ReceiveAck
      <3>2. NetOwn(Taken(p), c, TestOf(c))
        BY TakenOwn
      <3>3. /\ Data(c).type = "DATA" /\ Data(c).from = c
            /\ Data(c).test = TestOf(c)
        BY DEF Data, Packet
      <3>4. NetOwn(net', c, TestOf(c))
        BY <3>1, <3>2, <3>3, SendOwn
      <3>5. QED  BY <2>1, <2>2, <2>5, <3>4 DEF ReceiveAck
    <2>6. CASE ReceiveResult(c)
      <3>1. PICK p \in DOMAIN net :
              /\ client[c].pc = "result"
              /\ client' = [client EXCEPT ![c].pc = "finish",
                                          ![c].throughput = Measured(p)]
              /\ net' = Taken(p)
              /\ results' = results
        BY <2>6 DEF ReceiveResult
      <3>2. Measured(p) \subseteq {TestOf(c)}
        BY DEF Measured, NetOwn
      <3>3. TestOf(c)' = TestOf(c)
        BY <3>1 DEF ClientOwn, TestOf
      <3>4. ClientOwn(c)'
        BY <3>1, <3>2, <3>3 DEF ClientOwn
      <3>5. QED  BY <2>2, <3>1, <3>3, <3>4, TakenOwn
    <2>7. CASE Finish(c)
      <3> DEFINE r == [addr |-> client[c].remote, test |-> client[c].test,
                       throughput |-> client[c].throughput]
      <3>1. r \in Own(c)
        BY <2>7 DEF Finish, ClientOwn, Own, TestOf
      <3>2. results' = [results EXCEPT ![c] = Append(@, r)]
        BY <2>7 DEF Finish
      <3> HIDE DEF r
      <3>3. ResultsOwn(c)'
        BY <3>1, <3>2 DEF ResultsOwn, Own
      <3>4. QED  BY <2>1, <2>7, <3>3 DEF Finish
    <2>8. QED  BY <2>3, <2>4, <2>5, <2>6, <2>7 DEF Client
  <1>3. ServersOwn(c, TestOf(c))'
    BY <1>1, <1>2 DEF ServersOwn
  <1>4. NetOwn(net, c, TestOf(c))'
    BY <1>2 DEF NetOwn
  <1>5. QED  BY <1>1, <1>2, <1>3, <1>4

\* A step of one server.
LEMMA OwnServerChange ==
    ASSUME NEW c, OwnInv(c), NEW s \in Servers, NEW r,
           UNCHANGED <<client, results>>,
           server' = [server EXCEPT ![s] = r],
           DOMAIN r = DOMAIN server[s],
           NetOwn(net', c, TestOf(c)),
           r.pc \in {"count", "answer"} =>
                r.test = TestOf(c) /\ r.remote = c /\ r.counted \subseteq {TestOf(c)}
    PROVE  OwnInv(c)'
  <1> USE DEF OwnInv
  <1>1. TestOf(c)' = TestOf(c) /\ ClientOwn(c)' /\ ResultsOwn(c)'
    BY DEF TestOf, ClientOwn, ResultsOwn, Own
  <1>2. /\ DOMAIN server' = Servers
        /\ server'[s] = r
        /\ \A t \in Servers : t # s => server'[t] = server[t]
    BY DEF ServerShape
  <1>3. ServerShape'
    BY <1>2 DEF ServerShape
  <1>4. ServersOwn(c, TestOf(c))'
    BY <1>1, <1>2 DEF ServersOwn
  <1>5. NetOwn(net, c, TestOf(c))'
    BY <1>1 DEF NetOwn
  <1>6. QED  BY <1>1, <1>3, <1>4, <1>5

LEMMA OwnServer ==
    ASSUME NEW c, c \notin Servers, OwnInv(c), NEW s \in Servers,
           StartServer(s) \/ Server(s)
    PROVE  OwnInv(c)'
  <1> USE DEF OwnInv
  <1>1. DOMAIN server = Servers /\ DOMAIN server[s] =
            {"pc", "server_running", "i", "remote",
             "throughput", "counted", "test"}
    BY DEF ServerShape
  <1>2. \A p : NetOwn(Taken(p), c, TestOf(c))
    BY TakenOwn
  <1>3. ASSUME NEW p \in DOMAIN net, p.to = s
        PROVE  p.from = c /\ p.test = TestOf(c)
    BY <1>3 DEF NetOwn
  <1>4. ASSUME NEW type, NEW r, NEW b, NetOwn(b, c, TestOf(c)),
               r.remote = c, r.test = TestOf(c),
               type = "SUCCESS" => r.throughput \subseteq {TestOf(c)}
        PROVE  NetOwn(Send(b, Answer(type, s, r), 1), c, TestOf(c))
    <2>1. /\ Answer(type, s, r).to = c /\ Answer(type, s, r).test = TestOf(c)
          /\ Answer(type, s, r).type = type
          /\ Answer(type, s, r).throughput = r.throughput
      BY <1>4 DEF Answer, Packet
    <2>2. QED  BY <1>4, <2>1, SendOwn
  <1>5. CASE StartServer(s)
    <2> DEFINE r == [server[s] EXCEPT !.pc = "receive", !.server_running = TRUE]
    <2>1. /\ server' = [server EXCEPT ![s] = r] /\ net' = net
          /\ UNCHANGED <<client, results>>
      BY <1>1, <1>5 DEF StartServer
    <2>2. r.pc = "receive" /\ DOMAIN r = DOMAIN server[s]
      BY <1>1
    <2> HIDE DEF r
    <2>3. QED  BY <2>1, <2>2, OwnServerChange
  <1>6. CASE ServerReceive(s)
    <2> DEFINE r(p) == [server[s] EXCEPT !.pc = "count", !.i = 0,
                          !.counted = {}, !.remote = p.from, !.test = p.test]
               d == [server[s] EXCEPT !.pc = "down"]
    <2>1. PICK p \in DOMAIN net :
            /\ p.to = s
            /\ \/ net' = Taken(p) /\ UNCHANGED server
               \/ /\ server' = [server EXCEPT ![s] = r(p)]
                  /\ net' = Send(Taken(p), Answer("TEST_ACK", s, r(p)), 1)
               \/ server' = [server EXCEPT ![s] = d] /\ net' = Taken(p)
      BY <1>6 DEF ServerReceive
    <2>2. UNCHANGED <<client, results>>
      BY <1>6 DEF ServerReceive
    <2>3. CASE net' = Taken(p) /\ UNCHANGED server
      BY <1>2, <2>2, <2>3
         DEF ServerShape, ClientOwn, ResultsOwn, Own, NetOwn, ServersOwn, TestOf
    <2>4. CASE /\ server' = [server EXCEPT ![s] = r(p)]
               /\ net' = Send(Taken(p), Answer("TEST_ACK", s, r(p)), 1)
      <3>1. /\ r(p).remote = p.from /\ r(p).test = p.test
            /\ r(p).counted = {} /\ DOMAIN r(p) = DOMAIN server[s]
        BY <1>1
      <3> HIDE DEF r
      <3>2. p.from = c /\ p.test = TestOf(c)
        BY <1>3, <2>1
      <3>3. NetOwn(net', c, TestOf(c))
        BY <1>2, <1>4, <2>4, <3>1, <3>2
      <3>4. QED  BY <2>2, <2>4, <3>1, <3>2, <3>3, OwnServerChange
    <2>5. CASE server' = [server EXCEPT ![s] = d] /\ net' = Taken(p)
      <3>1. d.pc = "down" /\ DOMAIN d = DOMAIN server[s]
        BY <1>1
      <3> HIDE DEF d
      <3>2. QED  BY <1>2, <2>2, <2>5, <3>1, OwnServerChange
    <2>6. QED  BY <2>1, <2>3, <2>4, <2>5
  <1>7. CASE Count(s)
    <2> DEFINE r(p) == [server[s] EXCEPT
                          !.i = @ + 1,
                          !.pc = IF LastPacket(server[s]) THEN "answer"
                                                          ELSE "count",
                          !.counted = @ \cup {p.test}, !.remote = p.from]
    <2>1. PICK p \in DOMAIN net :
            p.to = s /\ server' = [server EXCEPT ![s] = r(p)] /\ net' = Taken(p)
      BY <1>7 DEF Count
    <2>2. DOMAIN r(p) = DOMAIN server[s]
      OBVIOUS
    <2>3. /\ r(p).remote = p.from /\ r(p).test = server[s].test
          /\ r(p).counted = server[s].counted \cup {p.test}
      BY <1>1
    <2> HIDE DEF r
    <2>4. /\ p.from = c /\ p.test = TestOf(c)
          /\ server[s].test = TestOf(c) /\ server[s].counted \subseteq {TestOf(c)}
      BY <1>3, <1>7, <2>1 DEF Count, ServersOwn
    <2>5. r(p).counted \subseteq {TestOf(c)}
      BY <2>3, <2>4
    <2>6. QED  BY <1>2, <1>7, <2>1, <2>2, <2>3, <2>4, <2>5, OwnServerChange DEF Count
  <1>8. CASE ServerTimeout(s) \/ DivisionByZero(s)
    <2>1. PICK pc \in {"answer", "trapped"} :
            /\ server[s].pc \in {"count", "answer"}
            /\ server' = [server EXCEPT ![s] = [@ EXCEPT !.pc = pc]]
            /\ net' = net /\ UNCHANGED <<client, results>>
      BY <1>8 DEF ServerTimeout, CutsShort, DivisionByZero
    <2> DEFINE r == [server[s] EXCEPT !.pc = pc]
    <2>2. server' = [server EXCEPT ![s] = r]
      BY <2>1
    <2>3. /\ r.test = server[s].test /\ r.remote = server[s].remote
          /\ r.counted = server[s].counted /\ DOMAIN r = DOMAIN server[s]
      BY <1>1
    <2> HIDE DEF r
    <2>4. /\ server[s].test = TestOf(c) /\ server[s].remote = c
          /\ server[s].counted \subseteq {TestOf(c)}
      BY <2>1 DEF ServersOwn
    <2>5. /\ r.test = TestOf(c) /\ r.remote = c
          /\ r.counted \subseteq {TestOf(c)} /\ NetOwn(net', c, TestOf(c))
      BY <1>2, <2>1, <2>3, <2>4
    <2>6. r.pc \in {"answer", "trapped"}
      BY <1>1 DEF r
    <2>7. QED  BY <2>1, <2>2, <2>3, <2>5, <2>6, OwnServerChange
  <1>9. CASE Result(s)
    <2> DEFINE r(q) == [server[s] EXCEPT !.throughput = q, !.pc = "receive"]
    <2>1. PICK q \in Quotients(server[s]) :
            /\ server' = [server EXCEPT ![s] = r(q)]
            /\ net' = Send(net, Answer("SUCCESS", s, r(q)), 1)
      BY <1>9 DEF Result
    <2>2. /\ r(q).pc = "receive" /\ r(q).remote = server[s].remote
          /\ r(q).test = server[s].test /\ r(q).throughput = q
          /\ DOMAIN r(q) = DOMAIN server[s]
      BY <1>1
    <2> HIDE DEF r
    <2>3. /\ server[s].test = TestOf(c) /\ server[s].remote = c
          /\ q \subseteq {TestOf(c)} /\ UNCHANGED <<client, results>>
      BY <1>9, <2>1 DEF Result, ServersOwn, Quotients
    <2>4. NetOwn(net', c, TestOf(c))
      BY <1>4, <2>1, <2>2, <2>3
    <2>5. QED  BY <2>1, <2>2, <2>3, <2>4, OwnServerChange
  <1>10. QED  BY <1>5, <1>6, <1>7, <1>8, <1>9 DEF Server

\* One client, on a prompt network without strangers, records for a neighbour
\* what was computed from packets of that very test, however many neighbours,
\* commands and packets there are and whatever is lost, repeated or cut short.
THEOREM OneClientOwn ==
    ASSUME NEW c, Clients = {c}, Strangers = {}, Prompt
    PROVE  Spec => []ResultOwn
  <1>1. c \notin Servers
    BY ThroughputAssumption
  <1>2. Init => OwnInv(c)
    BY OwnInit
  <1>3. OwnInv(c) /\ [Next]_vars => OwnInv(c)'
    <2> SUFFICES ASSUME OwnInv(c), [Next]_vars PROVE OwnInv(c)'
      OBVIOUS
    <2>1. CASE UNCHANGED vars
      BY <2>1 DEF vars, OwnInv, ServerShape, ClientOwn, ResultsOwn, Own, NetOwn,
                  ServersOwn, TestOf
    <2>2. CASE \E d \in Clients : Command(d) \/ Client(d)
      BY <1>1, <2>2, OwnBegin, OwnClient
    <2>3. CASE \E s \in Servers : StartServer(s) \/ Server(s)
      BY <1>1, <2>3, OwnServer
    <2>4. QED  BY <2>1, <2>2, <2>3 DEF Next
  <1>4. OwnInv(c) => ResultOwn
    BY DEF OwnInv, ResultsOwn, ResultOwn, Own
  <1>5. QED  BY <1>2, <1>3, <1>4, PTL DEF Spec

-----------------------------------------------------------------------------
(* The tests, the packets and what is counted.                             *)

\* The parts of the invariant by the part of the system they are about.
ClientsOK == client \in [Clients -> ClientSet] /\ TestInv

PacketsOK(b) ==
    \A p \in DOMAIN b :
        p \in Strangers \/ (p.test \in AllTests /\ p.throughput \subseteq AllTests)

ServerFields == {"pc", "server_running", "i", "remote", "throughput", "counted",
                 "test"}

ServerOK(r) ==
    /\ DOMAIN r = ServerFields
    /\ r.pc \in {"down", "receive", "count", "answer", "trapped"}
    /\ r.i \in 0 .. PacketCount
    /\ r.counted \subseteq AllTests /\ r.throughput \subseteq AllTests
    /\ IsFiniteSet(r.counted) /\ Cardinality(r.counted) <= r.i
    /\ r.pc = "count" => r.i < PacketCount
    /\ r.pc \in {"count", "answer"} => r.test \in AllTests

ServersOK == DOMAIN server = Servers /\ \A s \in Servers : ServerOK(server[s])

ListsOK ==
    /\ list \in [Clients -> Seq(EntrySet)]
    /\ results \in [Clients -> Seq(ResultSet)]
    /\ ListInv

LEMMA InvParts ==
    IInv <=> ClientsOK /\ PacketsOK(net) /\ ServersOK /\ ListsOK
  BY DEF IInv, TypeOK, PacketInv, ServerInv, ClientsOK, PacketsOK, ServersOK,
         ServerOK, ServerFields, ListsOK

\* The number of a test within a command is a number of a test.
LEMMA TestBound ==
    ASSUME NEW k \in Nat, NEW m \in Nat, NEW n \in Nat, NEW x \in 0 .. n,
           k > 0, k <= m
    PROVE  /\ (k - 1) * n + x <= k * n
           /\ k * n <= m * n
           /\ (k - 1) * n \in Nat /\ k * n \in Nat /\ m * n \in Nat
  <1>1. (k - 1) * n + n = k * n
    OBVIOUS
  <1>2. k * n + (m - k) * n = m * n
    OBVIOUS
  <1>3. /\ (m - k) * n \in Nat /\ (k - 1) * n \in Nat
        /\ k * n \in Nat /\ m * n \in Nat
    <2>1. \A a, b \in Nat : a * b \in Nat
      OBVIOUS
    <2>2. m - k \in Nat /\ k - 1 \in Nat
      OBVIOUS
    <2>3. QED  BY <2>1, <2>2
  <1>4. QED  BY <1>1, <1>2, <1>3

LEMMA TestIn ==
    ASSUME NEW c \in Clients, NEW r \in ClientSet, InTests(c, r),
           r.pc \in {"ack", "result", "finish"}
    PROVE  <<c, r.test>> \in AllTests
  <1>1. PICK n \in Nat : n = Len(Neighbors[c])
    BY ThroughputAssumption
  <1>2. PICK m \in Nat : m = Commands[c]
    BY ThroughputAssumption
  <1>3. PICK k \in Nat, x \in Nat : k = r.commands /\ x = r.next
    BY DEF ClientSet
  <1>4. /\ r.test \in Nat /\ k > 0 /\ k <= m /\ x - 1 \in 0 .. n
        /\ r.test > 0 /\ r.test <= (k - 1) * n + (x - 1)
    BY <1>1, <1>2, <1>3 DEF InTests, ClientSet
  <1>5. r.test \in 1 .. m * n
    BY <1>4, TestBound
  <1>6. <<c, r.test>> \in Tests(c)
    BY <1>1, <1>2, <1>5 DEF Tests
  <1>7. QED  BY <1>6 DEF AllTests

\* A client that is changed keeps the others' tests.
LEMMA ClientChange ==
    ASSUME ClientsOK, NEW c \in Clients, NEW r \in ClientSet, InTests(c, r),
           client' = [client EXCEPT ![c] = r]
    PROVE  ClientsOK'
  <1>1. client' \in [Clients -> ClientSet]
    BY DEF ClientsOK
  <1>2. \A d \in Clients : client'[d] = IF d = c THEN r ELSE client[d]
    BY DEF ClientsOK
  <1>3. ASSUME NEW d \in Clients  PROVE InTests(d, client'[d])
    BY <1>2 DEF ClientsOK, TestInv
  <1>4. QED  BY <1>1, <1>3 DEF ClientsOK, TestInv

\* A server that has not been started yet.
LEMMA DownOK ==
    ASSUME NEW r, DOMAIN r = ServerFields, r.pc = "down", r.i = 0,
           r.counted = {}, r.throughput = {}
    PROVE  ServerOK(r)
  <1>1. IsFiniteSet({}) /\ Cardinality({}) = 0
    BY FS_EmptySet
  <1>2. PacketCount \in Nat
    BY ThroughputAssumption
  <1>3. QED  BY <1>1, <1>2 DEF ServerOK

\* What every action of a client makes of its locals.
LEMMA ClientMoves ==
    ASSUME ClientsOK, NEW c \in Clients, NEW pc \in {"result", "finish"},
           client[c].pc \in {"ack", "result"}, NEW t \in SUBSET AllTests,
           \/ client' = [client EXCEPT ![c].pc = pc]
           \/ client' = [client EXCEPT ![c].pc = pc, ![c].throughput = t]
    PROVE  ClientsOK'
  <1>1. client[c] \in ClientSet /\ InTests(c, client[c])
    BY DEF ClientsOK, TestInv
  <1>2. PICK r \in ClientSet : r = client[c]
    BY <1>1
  <1>3. PICK q : /\ q \in {[r EXCEPT !.pc = pc],
                           [r EXCEPT !.pc = pc, !.throughput = t]}
                 /\ client' = [client EXCEPT ![c] = q]
    BY <1>2 DEF ClientsOK
  <1>4. /\ q \in ClientSet /\ q.pc = pc /\ q.commands = r.commands
        /\ q.next = r.next /\ q.test = r.test
    BY <1>3 DEF ClientSet
  <1>5. InTests(c, q)
    BY <1>1, <1>2, <1>4 DEF InTests
  <1>6. QED  BY <1>3, <1>4, <1>5, ClientChange

\* Packets that are sent, received and cleared from the network.
LEMMA SendPackets ==
    ASSUME NEW b, NEW p, NEW n, PacketsOK(b),
           p.test \in AllTests, p.throughput \subseteq AllTests
    PROVE  PacketsOK(Send(b, p, n))
  BY SendDomain DEF PacketsOK

LEMMA TakenPackets ==
    ASSUME NEW p, PacketsOK(net)
    PROVE  PacketsOK(Taken(p))
  BY TakenDomain DEF PacketsOK

LEMMA UnderWayPackets ==
    ASSUME NEW c, PacketsOK(net)
    PROVE  PacketsOK(UnderWay(c))
  <1>1. \A q \in DOMAIN UnderWay(c) : q \in DOMAIN net
    BY DEF UnderWay
  <1>2. QED  BY <1>1 DEF PacketsOK

\* No client changes what a server counts; what it sends belongs to its test.
LEMMA ClientStep ==
    ASSUME IInv, NEW c \in Clients, Command(c) \/ Client(c)
    PROVE  ClientsOK' /\ PacketsOK(net') /\ ServersOK'
  <1>1. ClientsOK /\ PacketsOK(net) /\ ServersOK
    BY InvParts
  <1>2. PICK r \in ClientSet : r = client[c] /\ InTests(c, r)
    BY <1>1 DEF ClientsOK, TestInv
  <1>3. PICK n \in Nat : n = Len(Neighbors[c])
    BY ThroughputAssumption
  <1>4. /\ r.commands \in Nat /\ r.next \in Nat /\ r.test \in Nat
        /\ r.next - 1 \in 0 .. n
    BY <1>2, <1>3 DEF ClientSet, InTests
  <1>5. ServersOK'
    <2>1. server' = server
      BY DEF Command, Client, Begin, CreateFails, Return, ReceiveAck,
             ReceiveResult, ClientTimeout, Finish
    <2>2. QED  BY <1>1, <2>1 DEF ServersOK
  <1>6. CASE Command(c)
    <2> DEFINE q == [r EXCEPT !.pc = "next", !.next = 1,
                              !.commands = r.commands + 1]
    <2>1. client' = [client EXCEPT ![c] = q]
      BY <1>1, <1>2, <1>6 DEF Command, ClientsOK
    <2>2. /\ q \in ClientSet /\ q.pc = "next" /\ q.next = 1
          /\ q.commands = r.commands + 1 /\ q.test = r.test
      <3>1. r.commands + 1 \in Nat
        BY <1>4
      <3>2. q \in ClientSet
        BY <3>1 DEF ClientSet
      <3>3. QED  BY <3>2 DEF ClientSet
    <2> HIDE DEF q
    <2>3. InTests(c, q)
      <3>1. PICK k \in Nat : k = r.commands
        BY <1>4
      <3>2. PICK m \in Nat : m = Commands[c]
        BY ThroughputAssumption
      <3>3. k < m /\ r.test <= k * n
        BY <1>2, <1>3, <1>6, <3>1, <3>2 DEF Command, InTests
      <3>4. (k + 1) - 1 = k /\ 1 - 1 = 0 /\ k + 1 <= m /\ k + 1 > 0
        BY <3>3
      <3>5. k * n \in Nat
        BY TestBound, <3>3, <3>4
      <3>6. r.test <= ((k + 1) - 1) * n + (1 - 1)
        BY <1>4, <3>3, <3>4, <3>5
      <3>7. QED  BY <1>3, <2>2, <3>1, <3>2, <3>4, <3>6 DEF InTests
    <2>4. ClientsOK'
      BY <1>1, <2>1, <2>2, <2>3, ClientChange
    <2>5. QED  BY <1>1, <1>5, <1>6, <2>4 DEF Command
  <1>7. CASE Begin(c)
    <2>1. PICK s : s = Neighbors[c][r.next]
      OBVIOUS
    <2>2. /\ r.pc = "next" /\ r.next <= n
          /\ s \in Servers
      <3>1. r.pc = "next" /\ r.next <= n
        BY <1>2, <1>3, <1>7 DEF Begin
      <3>2. r.next \in 1 .. n
        BY <1>3, <1>4, <3>1
      <3>3. PICK q \in Seq(Servers) : q = Neighbors[c]
        BY ThroughputAssumption
      <3>4. q[r.next] \in Servers
        BY <1>3, <3>2, <3>3
      <3>5. QED  BY <2>1, <3>1, <3>3, <3>4
    <2> DEFINE q(pc) == [r EXCEPT !.next = r.next + 1, !.test = r.test + 1,
                                  !.remote = s, !.throughput = {}, !.pc = pc]
    <2>3. PICK pc \in {"ack", "finish"} :
            /\ client' = [client EXCEPT ![c] = q(pc)]
            /\ \/ net' = UnderWay(c)
               \/ net' = Send(UnderWay(c), Start(c, s, <<c, r.test + 1>>), 1)
      <3>1. [[r EXCEPT !.next = @ + 1, !.test = r.test + 1, !.remote = s,
                       !.throughput = {}] EXCEPT !.pc = "ack"] = q("ack")
        BY <1>2 DEF ClientSet
      <3>2. [[r EXCEPT !.next = @ + 1, !.test = r.test + 1, !.remote = s,
                       !.throughput = {}] EXCEPT !.pc = "finish"] = q("finish")
        BY <1>2 DEF ClientSet
      <3>3. QED  BY <1>2, <1>7, <2>1, <3>1, <3>2 DEF Begin
    <2>4. /\ q(pc) \in ClientSet /\ q(pc).pc = pc
          /\ q(pc).next = r.next + 1 /\ q(pc).test = r.test + 1
          /\ q(pc).commands = r.commands
      <3>1. /\ r.next + 1 \in Nat /\ r.test + 1 \in Nat
            /\ {} \in SUBSET AllTests
        BY <1>4
      <3>2. q(pc) \in ClientSet
        BY <2>2, <3>1 DEF ClientSet
      <3>3. QED  BY <3>2 DEF ClientSet
    <2>5. PICK x \in ClientSet : x = q(pc)
      BY <2>4
    <2> HIDE DEF q
    <2>6. InTests(c, x)
      <3>1. PICK k \in Nat : k = r.commands
        BY <1>4
      <3>2. /\ k > 0 /\ k <= Commands[c]
            /\ r.test <= (k - 1) * n + (r.next - 1)
        BY <1>2, <1>3, <2>2, <3>1 DEF InTests
      <3>3. PICK y \in Nat : y = (k - 1) * n
        <4>1. \A a, b \in Nat : a * b \in Nat  OBVIOUS
        <4>2. k - 1 \in Nat  BY <3>2
        <4>3. QED  BY <4>1, <4>2
      <3>4. r.test + 1 <= y + ((r.next + 1) - 1)
        BY <1>4, <3>2, <3>3
      <3>5. r.next + 1 \in 1 .. n + 1 /\ r.test + 1 > 0
        BY <1>4, <2>2
      <3>6. QED
        BY <1>3, <2>4, <2>5, <3>1, <3>2, <3>3, <3>4, <3>5 DEF InTests
    <2>7. ClientsOK'
      BY <1>1, <2>3, <2>5, <2>6, ClientChange
    <2>8. <<c, r.test + 1>> \in AllTests
      BY <2>4, <2>5, <2>6, TestIn
    <2>9. PacketsOK(UnderWay(c))
      BY <1>1, UnderWayPackets
    <2>10. PacketsOK(net')
      <3>1. /\ Start(c, s, <<c, r.test + 1>>).test \in AllTests
            /\ Start(c, s, <<c, r.test + 1>>).throughput \subseteq AllTests
        BY <2>8 DEF Start, Packet
      <3>2. PacketsOK(Send(UnderWay(c), Start(c, s, <<c, r.test + 1>>), 1))
        BY <2>9, <3>1, SendPackets
      <3>3. QED  BY <2>3, <2>9, <3>2
    <2>11. QED  BY <1>5, <2>7, <2>10
  <1>8. CASE CreateFails(c) \/ Return(c)
    <2> DEFINE q == [r EXCEPT !.pc = "idle"]
    <2>1. client' = [client EXCEPT ![c] = q] /\ r.pc = "next" /\ net' = net
      BY <1>1, <1>2, <1>8 DEF CreateFails, Return, Goto, ClientsOK
    <2>2. /\ q \in ClientSet /\ q.pc = "idle" /\ q.next = r.next
          /\ q.commands = r.commands /\ q.test = r.test
      BY <1>2 DEF ClientSet
    <2> HIDE DEF q
    <2>3. InTests(c, q)
      <3>1. PICK k \in Nat : k = r.commands
        BY <1>4
      <3>2. /\ k > 0 /\ k <= Commands[c] /\ r.next \in 1 .. n + 1
            /\ r.test <= (k - 1) * n + (r.next - 1)
        BY <1>2, <1>3, <2>1, <3>1 DEF InTests
      <3>3. /\ (k - 1) * n + (r.next - 1) <= k * n
            /\ (k - 1) * n \in Nat /\ k * n \in Nat
        BY <1>4, <3>2, TestBound
      <3>4. r.test <= k * n
        <4>1. PICK y \in Nat, z \in Nat : y = (k - 1) * n /\ z = k * n
          BY <3>3
        <4>2. QED  BY <1>4, <3>2, <3>3, <4>1
      <3>5. QED  BY <1>3, <2>2, <3>1, <3>2, <3>4 DEF InTests
    <2>4. ClientsOK'
      BY <1>1, <2>1, <2>2, <2>3, ClientChange
    <2>5. QED  BY <1>1, <1>5, <2>1, <2>4
  <1>9. CASE ReceiveAck(c)
    <2>1. PICK p \in DOMAIN net, pc \in {"result", "finish"}, m \in Nat :
            /\ client' = [client EXCEPT ![c].pc = pc]
            /\ net' = Taken(p) \/ net' = Send(Taken(p), Data(c), m)
      BY <1>9, ThroughputAssumption DEF ReceiveAck, Goto
    <2>2. client[c].pc = "ack"
      BY <1>9 DEF ReceiveAck
    <2>3. ClientsOK'
      BY <1>1, <2>1, <2>2, ClientMoves
    <2>4. Data(c).test \in AllTests /\ Data(c).throughput \subseteq AllTests
      BY <1>2, <2>2, TestIn DEF Data, Packet, TestOf
    <2>5. PacketsOK(Taken(p))
      BY <1>1, TakenPackets
    <2>6. PacketsOK(net')
      BY <2>1, <2>4, <2>5, SendPackets
    <2>7. QED  BY <1>5, <2>3, <2>6
  <1>10. CASE ReceiveResult(c)
    <2>1. PICK p \in DOMAIN net :
            /\ p.to = c
            /\ client' = [client EXCEPT ![c].pc = "finish",
                                        ![c].throughput = Measured(p)]
            /\ net' = Taken(p)
      BY <1>10 DEF ReceiveResult, Receives
    <2>2. p \notin Strangers
      BY <2>1, ThroughputAssumption
    <2>3. Measured(p) \in SUBSET AllTests
      BY <1>1, <2>2 DEF PacketsOK, Measured
    <2>4. client[c].pc = "result"
      BY <1>10 DEF ReceiveResult
    <2>5. ClientsOK'
      BY <1>1, <2>1, <2>3, <2>4, ClientMoves
    <2>6. QED  BY <1>1, <1>5, <2>1, <2>5, TakenPackets
  <1>11. CASE ClientTimeout(c)
    <2>1. /\ client' = [client EXCEPT ![c].pc = "finish"]
          /\ client[c].pc \in {"ack", "result"}
          /\ net' = net
      BY <1>11 DEF ClientTimeout, TimesOut, Goto
    <2>2. ClientsOK'
      BY <1>1, <2>1, ClientMoves
    <2>3. QED  BY <1>1, <1>5, <2>1, <2>2
  <1>12. CASE Finish(c)
    <2> DEFINE q == [r EXCEPT !.pc = "next"]
    <2>1. client' = [client EXCEPT ![c] = q] /\ r.pc = "finish" /\ net' = net
      BY <1>1, <1>2, <1>12 DEF Finish, Goto, ClientsOK
    <2>2. /\ q \in ClientSet /\ q.pc = "next" /\ q.next = r.next
          /\ q.commands = r.commands /\ q.test = r.test
      BY <1>2 DEF ClientSet
    <2> HIDE DEF q
    <2>3. InTests(c, q)
      BY <1>2, <2>1, <2>2 DEF InTests
    <2>4. ClientsOK'
      BY <1>1, <2>1, <2>2, <2>3, ClientChange
    <2>5. QED  BY <1>1, <1>5, <2>1, <2>4
  <1>13. QED
    BY <1>6, <1>7, <1>8, <1>9, <1>10, <1>11, <1>12 DEF Client

\* A server that is changed keeps the others' state.
LEMMA ServerChange ==
    ASSUME ServersOK, NEW s \in Servers, NEW r, ServerOK(r),
           server' = [server EXCEPT ![s] = r]
    PROVE  ServersOK'
  BY DEF ServersOK

\* A server counts one packet at a time, until PacketCount; what it answers
\* with belongs to the test it is in.
LEMMA ServerStep ==
    ASSUME IInv, NEW s \in Servers, StartServer(s) \/ Server(s)
    PROVE  ClientsOK' /\ PacketsOK(net') /\ ServersOK'
  <1>1. ClientsOK /\ PacketsOK(net) /\ ServersOK
    BY InvParts
  <1>2. PICK r : r = server[s] /\ ServerOK(r)
    BY <1>1 DEF ServersOK
  <1>3. PacketCount \in Nat \ {0}
    BY ThroughputAssumption
  <1>4. ClientsOK'
    <2>1. client' = client
      BY DEF StartServer, Server, ServerReceive, Count, ServerTimeout, Result,
             DivisionByZero
    <2>2. QED  BY <1>1, <2>1 DEF ClientsOK, TestInv
  <1>5. \A p \in DOMAIN net : p.test \in AllTests
    <2>1. \A p \in Strangers : p.test \in AllTests
      BY DEF AllTests
    <2>2. QED  BY <1>1, <2>1 DEF PacketsOK
  <1>6. CASE \/ StartServer(s) \/ ServerTimeout(s) \/ DivisionByZero(s)
    <2>1. PICK pc \in {"receive", "answer", "trapped"},
             running \in {TRUE, r.server_running} :
            /\ server' = [server EXCEPT ![s] =
                            [r EXCEPT !.pc = pc, !.server_running = running]]
            /\ pc = "answer" => r.pc \in {"count", "answer"}
            /\ net' = net
      <3>1. CASE StartServer(s)
        BY <1>1, <1>2, <3>1 DEF StartServer, ServersOK
      <3>2. CASE ServerTimeout(s) \/ DivisionByZero(s)
        <4>1. PICK pc \in {"answer", "trapped"} :
                server' = [server EXCEPT ![s].pc = pc]
                /\ r.pc \in {"count", "answer"} /\ net' = net
          BY <1>2, <3>2 DEF ServerTimeout, CutsShort, DivisionByZero
        <4>2. [r EXCEPT !.pc = pc]
                = [r EXCEPT !.pc = pc, !.server_running = r.server_running]
          BY <1>2 DEF ServerOK, ServerFields
        <4>3. QED  BY <1>1, <1>2, <4>1, <4>2 DEF ServersOK
      <3>3. QED  BY <1>6, <3>1, <3>2
    <2>2. ServerOK([r EXCEPT !.pc = pc, !.server_running = running])
      BY <1>2, <2>1 DEF ServerOK, ServerFields
    <2>3. QED  BY <1>1, <1>4, <2>1, <2>2, ServerChange
  <1>7. CASE ServerReceive(s)
    <2> DEFINE q(p) == [r EXCEPT !.pc = "count", !.i = 0, !.counted = {},
                                 !.remote = p.from, !.test = p.test]
    <2>1. PICK p \in DOMAIN net :
            \/ net' = Taken(p) /\ UNCHANGED server
            \/ /\ server' = [server EXCEPT ![s] = q(p)]
               /\ net' = Send(Taken(p), Answer("TEST_ACK", s, q(p)), 1)
            \/ /\ server' = [server EXCEPT ![s].pc = "down"]
               /\ net' = Taken(p)
      BY <1>2, <1>7 DEF ServerReceive
    <2>2. PacketsOK(Taken(p))
      BY <1>1, TakenPackets
    <2>3. CASE net' = Taken(p) /\ UNCHANGED server
      BY <1>1, <1>4, <2>2, <2>3 DEF ServersOK
    <2>4. CASE /\ server' = [server EXCEPT ![s] = q(p)]
               /\ net' = Send(Taken(p), Answer("TEST_ACK", s, q(p)), 1)
      <3>1. ServerOK(q(p)) /\ q(p).test = p.test
            /\ q(p).throughput = r.throughput
        <4>1. /\ q(p).test = p.test /\ q(p).throughput = r.throughput
              /\ q(p).pc = "count" /\ q(p).i = 0 /\ q(p).counted = {}
              /\ DOMAIN q(p) = ServerFields
          BY <1>2 DEF ServerOK, ServerFields
        <4>2. IsFiniteSet({}) /\ Cardinality({}) = 0
          BY FS_EmptySet
        <4> HIDE DEF q
        <4>3. QED  BY <1>2, <1>3, <1>5, <4>1, <4>2 DEF ServerOK
      <3>2. /\ Answer("TEST_ACK", s, q(p)).test \in AllTests
            /\ Answer("TEST_ACK", s, q(p)).throughput \subseteq AllTests
        BY <1>2, <1>5, <3>1 DEF Answer, Packet, ServerOK
      <3>3. PacketsOK(net')
        BY <2>2, <2>4, <3>2, SendPackets
      <3>4. QED  BY <1>1, <1>4, <2>4, <3>1, <3>3, ServerChange
    <2>5. CASE server' = [server EXCEPT ![s].pc = "down"] /\ net' = Taken(p)
      <3>1. server' = [server EXCEPT ![s] = [r EXCEPT !.pc = "down"]]
        BY <1>2, <2>5
      <3>2. ServerOK([r EXCEPT !.pc = "down"])
        BY <1>2 DEF ServerOK, ServerFields
      <3>3. QED  BY <1>1, <1>4, <2>2, <2>5, <3>1, <3>2, ServerChange
    <2>6. QED  BY <2>1, <2>3, <2>4, <2>5
  <1>8. CASE Count(s)
    <2> DEFINE q(p) == [r EXCEPT
                          !.i = r.i + 1,
                          !.pc = IF LastPacket(r) THEN "answer" ELSE "count",
                          !.counted = r.counted \cup {p.test},
                          !.remote = p.from]
    <2>1. PICK p \in DOMAIN net :
            /\ server' = [server EXCEPT ![s] = q(p)]
            /\ net' = Taken(p)
            /\ r.pc = "count"
      BY <1>2, <1>8 DEF Count
    <2>2. /\ q(p).i = r.i + 1
          /\ q(p).pc = IF LastPacket(r) THEN "answer" ELSE "count"
          /\ q(p).counted = r.counted \cup {p.test}
          /\ q(p).throughput = r.throughput /\ q(p).test = r.test
          /\ DOMAIN q(p) = ServerFields
      BY <1>2 DEF ServerOK, ServerFields
    <2> HIDE DEF q
    <2>3. r.i \in 0 .. PacketCount /\ r.i < PacketCount
      BY <1>2, <2>1 DEF ServerOK
    <2>4. /\ r.i + 1 \in 0 .. PacketCount
          /\ q(p).pc = "count" => q(p).i < PacketCount
      BY <1>3, <2>2, <2>3 DEF LastPacket
    <2>5. IsFiniteSet(q(p).counted) /\ Cardinality(q(p).counted) <= q(p).i
      <3>1. /\ IsFiniteSet(r.counted \cup {p.test})
            /\ \/ Cardinality(r.counted \cup {p.test}) = Cardinality(r.counted)
               \/ Cardinality(r.counted \cup {p.test})
                    = Cardinality(r.counted) + 1
        BY <1>2, FS_AddElement DEF ServerOK
      <3>2. Cardinality(r.counted) \in Nat /\ Cardinality(r.counted) <= r.i
        BY <1>2, FS_CardinalityType DEF ServerOK
      <3>3. QED  BY <2>2, <2>3, <3>1, <3>2
    <2>6. ServerOK(q(p))
      BY <1>2, <1>5, <2>1, <2>2, <2>4, <2>5 DEF ServerOK
    <2>7. QED  BY <1>1, <1>4, <2>1, <2>6, ServerChange, TakenPackets
  <1>9. CASE Result(s)
    <2> DEFINE q(t) == [r EXCEPT !.throughput = t, !.pc = "receive"]
    <2>1. PICK t \in Quotients(r) :
            /\ server' = [server EXCEPT ![s] = q(t)]
            /\ net' = Send(net, Answer("SUCCESS", s, q(t)), 1)
            /\ r.pc = "answer"
      BY <1>2, <1>9 DEF Result
    <2>2. t \subseteq AllTests
      BY <1>2, <2>1 DEF Quotients, ServerOK
    <2>3. /\ ServerOK(q(t))
          /\ q(t).test = r.test /\ q(t).throughput = t
      BY <1>2, <2>2 DEF ServerOK, ServerFields
    <2>4. /\ Answer("SUCCESS", s, q(t)).test \in AllTests
          /\ Answer("SUCCESS", s, q(t)).throughput \subseteq AllTests
      BY <1>2, <2>1, <2>2, <2>3 DEF Answer, Packet, ServerOK
    <2>5. PacketsOK(net')
      BY <1>1, <2>1, <2>4, SendPackets
    <2>6. QED  BY <1>1, <1>4, <2>1, <2>3, <2>5, ServerChange
  <1>10. QED  BY <1>6, <1>7, <1>8, <1>9 DEF Server

-----------------------------------------------------------------------------
(* The list of neighbours.                                                 *)

\* What the results R have given of a neighbour last.
Given(R, s) ==
    LET of == {i \in DOMAIN R : R[i].addr = s}
    IN  IF of = {} THEN {} ELSE R[Latest(of)].throughput

\* One more result is the last of its neighbour, and of no other.
LEMMA GivenNext ==
    ASSUME NEW R \in Seq(ResultSet), NEW y \in ResultSet
    PROVE  /\ Given(Append(R, y), y.addr) = y.throughput
           /\ \A s : s # y.addr => Given(Append(R, y), s) = Given(R, s)
  <1>1. PICK n \in Nat : n = Len(R)
    OBVIOUS
  <1>2. PICK Q : Q = Append(R, y)
    OBVIOUS
  <1>3. /\ DOMAIN Q = 1 .. n + 1 /\ DOMAIN R = 1 .. n
        /\ Q[n + 1] = y
        /\ \A i \in 1 .. n : Q[i] = R[i]
    BY <1>1, <1>2
  <1>4. Given(Q, y.addr) = y.throughput
    <2>1. PICK of : of = {i \in DOMAIN Q : Q[i].addr = y.addr}
      OBVIOUS
    <2>2. /\ n + 1 \in of
          /\ \A i \in of : i \in Int /\ i <= n + 1
      BY <1>3, <2>1
    <2>3. /\ Latest(of) \in of
          /\ \A j \in of : j <= Latest(of)
      BY <2>2 DEF Latest
    <2>4. Latest(of) = n + 1
      BY <2>2, <2>3
    <2>5. QED  BY <1>3, <2>1, <2>2, <2>4 DEF Given
  <1>5. ASSUME NEW s, s # y.addr
        PROVE  Given(Q, s) = Given(R, s)
    <2>1. PICK of : of = {i \in DOMAIN R : R[i].addr = s}
      OBVIOUS
    <2>2. \A i \in 1 .. n + 1 : i \in 1 .. n \/ i = n + 1
      OBVIOUS
    <2>3. {i \in DOMAIN Q : Q[i].addr = s} = of
      BY <1>3, <1>5, <2>1, <2>2
    <2>4. of # {} => Latest(of) \in of
      <3>1. of \in SUBSET (1 .. n)
        BY <1>3, <2>1
      <3>2. HAVE of # {}
      <3>3. \E i \in of : \A j \in of : j <= i
        <4>1. PICK A : A = {n - i : i \in of}
          OBVIOUS
        <4>2. A \in SUBSET Nat /\ A # {}
          <5>1. \A i \in 1 .. n : n - i \in Nat
            OBVIOUS
          <5>2. QED  BY <3>1, <3>2, <4>1, <5>1
        <4>3. PICK k \in A : \A j \in A : k <= j
          BY <4>2, Least
        <4>4. PICK i \in of : k = n - i
          BY <4>1, <4>3
        <4>5. ASSUME NEW j \in of  PROVE j <= i
          <5>1. n - j \in A
            BY <4>1
          <5>2. n - i <= n - j
            BY <4>3, <4>4, <5>1
          <5>3. QED  BY <3>1, <5>2
        <4>6. QED  BY <4>5
      <3>4. QED  BY <3>3 DEF Latest
    <2>5. Given(R, s) = IF of = {} THEN {} ELSE R[Latest(of)].throughput
      BY <2>1 DEF Given
    <2>6. Given(Q, s) = IF of = {} THEN {} ELSE Q[Latest(of)].throughput
      BY <2>3 DEF Given
    <2>7. CASE of = {}
      BY <2>5, <2>6, <2>7
    <2>8. CASE of # {}
      <3>1. Latest(of) \in 1 .. n
        BY <1>3, <2>1, <2>4, <2>8
      <3>2. Q[Latest(of)] = R[Latest(of)]
        BY <1>3, <3>1
      <3>3. QED  BY <2>5, <2>6, <2>8, <3>2
    <2>9. QED  BY <2>7, <2>8
  <1>6. QED  BY <1>2, <1>4, <1>5

\* Recording a result makes its neighbour the head or changes one field of its
\* entry.
LEMMA RecordEntered ==
    ASSUME NEW l \in Seq(EntrySet), NEW e \in EntrySet
    PROVE  \E x \in EntrySet :
             /\ x.addr = e.addr /\ x.throughput = e.throughput
             /\ \/ ~NodeExists(l, e.addr) /\ x.latency = e.latency
                \/ \E k \in 1 .. Len(l) :
                     l[k].addr = e.addr /\ x.latency = l[k].latency
             /\ EntryPut(l, x, RecordThroughput(l, e))
             /\ RecordThroughput(l, e) \in Seq(EntrySet)
  <1>1. CASE NodeExists(l, e.addr)
    <2>1. PICK k : k = First(Positions(l, e.addr))
      OBVIOUS
    <2>2. k \in 1 .. Len(l) /\ l[k].addr = e.addr
      BY <1>1, <2>1, FirstFound
    <2>3. PICK y \in EntrySet : y = l[k]
      BY <2>2
    <2>4. PICK x : x = [y EXCEPT !.throughput = e.throughput]
      OBVIOUS
    <2>5. /\ x \in EntrySet
          /\ x.addr = e.addr /\ x.throughput = e.throughput
          /\ x.latency = y.latency
      BY <2>2, <2>3, <2>4 DEF EntrySet
    <2>6. RecordThroughput(l, e) = [l EXCEPT ![k] = x]
      BY <1>1, <2>1, <2>3, <2>4 DEF RecordThroughput, UpdateThroughput
    <2>7. [l EXCEPT ![k] = x] \in Seq(EntrySet)
      <3>1. \A i \in 1 .. Len(l) : l[i] \in EntrySet
        OBVIOUS
      <3>2. [i \in 1 .. Len(l) |-> IF i = k THEN x ELSE l[i]] \in Seq(EntrySet)
        BY <2>5, <3>1
      <3>3. [l EXCEPT ![k] = x]
              = [i \in 1 .. Len(l) |-> IF i = k THEN x ELSE l[i]]
        OBVIOUS
      <3>4. QED  BY <3>2, <3>3
    <2>8. EntryPut(l, x, [l EXCEPT ![k] = x])
      BY <1>1, <2>1, <2>2, <2>5 DEF EntryPut
    <2>9. QED  BY <2>2, <2>3, <2>5, <2>6, <2>7, <2>8
  <1>2. CASE ~NodeExists(l, e.addr)
    BY <1>2, InsertedAt DEF EntryPut, RecordThroughput
  <1>3. QED  BY <1>1, <1>2

\* A list l and results R that go together.
ListOK(l, R) ==
    /\ Once(l)
    /\ \A i \in DOMAIN l :
         /\ l[i].throughput = Given(R, l[i].addr)
         /\ l[i].latency = IF \E k \in DOMAIN Listed : Listed[k] = l[i].addr
                           THEN 1 ELSE 0
    /\ \A i \in DOMAIN R : NodeExists(l, R[i].addr)
    /\ \A k \in DOMAIN Listed : NodeExists(l, Listed[k])

\* Every client's do.
LEMMA ListStep ==
    ASSUME IInv, [Next]_vars
    PROVE  ListsOK'
  <1>1. /\ list \in [Clients -> Seq(EntrySet)]
        /\ results \in [Clients -> Seq(ResultSet)]
        /\ client \in [Clients -> ClientSet]
    BY DEF IInv, TypeOK
  <1>2. \A c \in Clients : ListOK(list[c], results[c])
    <2>1. \A c \in Clients : \A s : ResultOf(c, s) = Given(results[c], s)
      BY DEF ResultOf, Given
    <2>2. QED  BY <2>1 DEF IInv, ListInv, RecordedListed, ListOK, Once
  <1>3. (\A c \in Clients : ListOK(list'[c], results'[c])) => ListInv'
    <2>1. \A c \in Clients : \A s : ResultOf(c, s)' = Given(results'[c], s)
      BY DEF ResultOf, Given
    <2>2. QED  BY <2>1 DEF ListInv, RecordedListed, ListOK, Once
  <1>4. ASSUME NEW c \in Clients, Finish(c)
        PROVE  ListsOK'
    <2>1. PICK r \in ClientSet : r = client[c]
      BY <1>1
    <2>2. PICK l \in Seq(EntrySet), R \in Seq(ResultSet) :
            l = list[c] /\ R = results[c]
      BY <1>1
    <2>3. PICK y : y = [addr |-> r.remote, test |-> r.test,
                        throughput |-> r.throughput]
      OBVIOUS
    <2>4. y \in ResultSet
      BY <2>3 DEF ClientSet, ResultSet
    <2>5. PICK e : e = Entry(c)
      OBVIOUS
    <2>6. /\ e \in EntrySet
          /\ e.addr = y.addr /\ e.throughput = y.throughput /\ e.latency = 0
      BY <2>1, <2>3, <2>5 DEF Entry, EntrySet, ClientSet
    <2>7. PICK m : m = RecordThroughput(l, e)
      OBVIOUS
    <2>8. /\ list' = [list EXCEPT ![c] = m]
          /\ results' = [results EXCEPT ![c] = Append(R, y)]
      BY <1>4, <2>1, <2>2, <2>3, <2>5, <2>7 DEF Finish
    <2>9. PICK x \in EntrySet :
             /\ x.addr = y.addr /\ x.throughput = y.throughput
             /\ \/ ~NodeExists(l, y.addr) /\ x.latency = 0
                \/ \E k \in 1 .. Len(l) :
                     l[k].addr = y.addr /\ x.latency = l[k].latency
             /\ EntryPut(l, x, m)
             /\ m \in Seq(EntrySet)
      <3>1. PICK x \in EntrySet :
              /\ x.addr = e.addr /\ x.throughput = e.throughput
              /\ \/ ~NodeExists(l, e.addr) /\ x.latency = e.latency
                 \/ \E k \in 1 .. Len(l) :
                      l[k].addr = e.addr /\ x.latency = l[k].latency
              /\ EntryPut(l, x, m)
              /\ m \in Seq(EntrySet)
        BY <2>6, <2>7, RecordEntered
      <3>2. QED  BY <2>6, <3>1
    <2>10. /\ list' \in [Clients -> Seq(EntrySet)]
           /\ results' \in [Clients -> Seq(ResultSet)]
           /\ list'[c] = m /\ results'[c] = Append(R, y)
           /\ \A d \in Clients :
                d # c => list'[d] = list[d] /\ results'[d] = results[d]
      BY <1>1, <2>2, <2>4, <2>8, <2>9
    <2>11. ListOK(l, R)
      BY <1>2, <2>2
    <2>12. /\ Once(m)
           /\ \A i \in 1 .. Len(m) :
                 m[i] = x \/ \E j \in 1 .. Len(l) : /\ l[j] = m[i]
                                                    /\ l[j].addr # y.addr
      <3>1. /\ Once(m)
            /\ \A i \in 1 .. Len(m) :
                 m[i] = x \/ \E j \in 1 .. Len(l) : /\ l[j] = m[i]
                                                    /\ l[j].addr # x.addr
        BY <2>9, <2>11, EnteredOnce DEF ListOK
      <3>2. QED  BY <2>9, <3>1
    <2>13. \A a : NodeExists(l, a) \/ a = y.addr => NodeExists(m, a)
      <3>1. \A a : NodeExists(l, a) \/ a = x.addr => NodeExists(m, a)
        BY <2>9, <2>11, EnteredKeeps DEF ListOK
      <3>2. QED  BY <2>9, <3>1
    <2>14. /\ Given(Append(R, y), y.addr) = y.throughput
           /\ \A s : s # y.addr => Given(Append(R, y), s) = Given(R, s)
      BY <2>4, GivenNext
    <2>15. x.latency = IF \E k \in DOMAIN Listed : Listed[k] = y.addr
                       THEN 1 ELSE 0
      BY <2>9, <2>11 DEF ListOK
    <2>16. ASSUME NEW i \in 1 .. Len(m)
           PROVE  /\ m[i].throughput = Given(Append(R, y), m[i].addr)
                  /\ m[i].latency = IF \E k \in DOMAIN Listed :
                                         Listed[k] = m[i].addr THEN 1 ELSE 0
      <3>1. CASE m[i] = x
        BY <2>9, <2>14, <2>15, <3>1
      <3>2. CASE m[i] # x
        <4>1. PICK j \in 1 .. Len(l) : l[j] = m[i] /\ l[j].addr # y.addr
          BY <2>12, <3>2
        <4>2. QED  BY <2>11, <2>14, <4>1 DEF ListOK
      <3>3. QED  BY <3>1, <3>2
    <2>17. \A i \in DOMAIN Append(R, y) : NodeExists(m, Append(R, y)[i].addr)
      <3>1. \A i \in DOMAIN Append(R, y) :
               Append(R, y)[i] = y
               \/ (i \in DOMAIN R /\ Append(R, y)[i] = R[i])
        BY <2>4
      <3>2. QED  BY <2>11, <2>13, <3>1 DEF ListOK
    <2>18. ListOK(m, Append(R, y))
      <3>1. DOMAIN m = 1 .. Len(m)
        BY <2>9
      <3>2. \A k \in DOMAIN Listed : NodeExists(m, Listed[k])
        BY <2>11, <2>13 DEF ListOK
      <3>3. QED  BY <2>12, <2>16, <2>17, <3>1, <3>2 DEF ListOK
    <2>19. ListInv'
      BY <1>2, <1>3, <2>10, <2>18
    <2>20. QED  BY <2>10, <2>19 DEF ListsOK
  <1>5. CASE list' = list /\ results' = results
    BY <1>1, <1>5, <1>2, <1>3 DEF ListsOK
  <1>6. QED
    BY <1>4, <1>5
       DEF Next, Command, Client, Begin, CreateFails, Return, ReceiveAck,
           ReceiveResult, ClientTimeout, StartServer, Server, ServerReceive,
           Count, ServerTimeout, Result, DivisionByZero, vars

-----------------------------------------------------------------------------
(* The theorems.                                                           *)

\* Before the first command nobody has tested anything; a list holds whoever
\* was listed before.
LEMMA InitInv == Init => IInv
  <1> SUFFICES ASSUME Init PROVE IInv
    OBVIOUS
  <1> USE DEF Init
  <1>1. ClientsOK
    <2>1. PICK s : s = CHOOSE t \in Servers : TRUE
      OBVIOUS
    <2>2. s \in Servers
      BY <2>1, ThroughputAssumption
    <2>3. PICK r : r = [pc |-> "idle", commands |-> 0, next |-> 1, test |-> 0,
                        remote |-> s, throughput |-> {}]
      OBVIOUS
    <2>4. r \in ClientSet
      BY <2>2, <2>3 DEF ClientSet
    <2>5. client = [c \in Clients |-> r]
      BY <2>1, <2>3
    <2>6. ASSUME NEW c \in Clients  PROVE InTests(c, r)
      <3>1. PICK n \in Nat : n = Len(Neighbors[c])
        BY ThroughputAssumption
      <3>2. Commands[c] \in Nat
        BY ThroughputAssumption
      <3>3. 0 * n = 0 /\ 1 \in 1 .. n + 1
        OBVIOUS
      <3>4. QED  BY <2>3, <3>1, <3>2, <3>3 DEF InTests
    <2>7. QED  BY <2>4, <2>5, <2>6 DEF ClientsOK, TestInv
  <1>2. PacketsOK(net)
    BY DEF PacketsOK, SetToBag
  <1>3. ServersOK
    <2>1. ASSUME NEW s \in Servers  PROVE ServerOK(server[s])
      <3>1. PICK x : x = CHOOSE c \in Clients : TRUE
        OBVIOUS
      <3>2. server[s] = [pc |-> "down", server_running |-> FALSE, i |-> 0,
                         remote |-> x, throughput |-> {}, counted |-> {},
                         test |-> <<>>]
        BY <3>1
      <3>3. /\ server[s].pc = "down" /\ server[s].i = 0
            /\ server[s].counted = {} /\ server[s].throughput = {}
            /\ DOMAIN server[s] = ServerFields
        BY <3>2 DEF ServerFields
      <3>4. QED  BY <3>3, DownOK
    <2>2. QED  BY <2>1 DEF ServersOK
  <1>4. ListsOK
    <2>1. PICK l : l = [i \in DOMAIN Listed |->
                          [addr |-> Listed[i], latency |-> 1, throughput |-> {}]]
      OBVIOUS
    <2>2. l \in Seq(EntrySet)
      <3>1. Listed \in Seq(Servers)
        BY ThroughputAssumption
      <3> DEFINE entry(i) == [addr |-> Listed[i], latency |-> 1,
                              throughput |-> {}]
      <3>2. \A i \in 1 .. Len(Listed) : entry(i) \in EntrySet
        BY <3>1 DEF EntrySet
      <3>3. l = [i \in 1 .. Len(Listed) |-> entry(i)] /\ Len(Listed) \in Nat
        BY <2>1, <3>1
      <3> HIDE DEF entry
      <3>4. QED  BY <3>2, <3>3
    <2>3. /\ DOMAIN l = DOMAIN Listed
          /\ \A i \in DOMAIN l : /\ l[i].addr = Listed[i]
                                 /\ l[i].latency = 1
                                 /\ l[i].throughput = {}
      BY <2>1
    <2>4. /\ list = [c \in Clients |-> l]
          /\ results = [c \in Clients |-> <<>>]
      BY <2>1
    <2>5. /\ list \in [Clients -> Seq(EntrySet)]
          /\ results \in [Clients -> Seq(ResultSet)]
      <3>1. <<>> \in Seq(ResultSet)
        OBVIOUS
      <3>2. QED  BY <2>2, <2>4, <3>1
    <2>6. \A c \in Clients : \A s : ResultOf(c, s) = {}
      <3>1. \A c \in Clients : \A s :
               {i \in DOMAIN results[c] : results[c][i].addr = s} = {}
        BY <2>4
      <3>2. QED  BY <3>1 DEF ResultOf
    <2>7. RecordedListed
      <3>1. \A i, j \in DOMAIN Listed : Listed[i] = Listed[j] => i = j
        BY ThroughputAssumption
      <3>2. ASSUME NEW c \in Clients
            PROVE  /\ list[c] = l
                   /\ DOMAIN results[c] = {}
        BY <2>4
      <3>3. QED  BY <2>3, <2>6, <3>1, <3>2 DEF RecordedListed
    <2>8. \A k \in DOMAIN Listed : NodeExists(l, Listed[k])
      BY <2>3, ExistsIff
    <2>9. QED  BY <2>4, <2>5, <2>7, <2>8 DEF ListsOK, ListInv
  <1>5. QED  BY <1>1, <1>2, <1>3, <1>4, InvParts

\* Every step of a client and of a server keeps the invariant.
LEMMA StepInv == IInv /\ [Next]_vars => IInv'
  <1> SUFFICES ASSUME IInv, [Next]_vars PROVE IInv'
    OBVIOUS
  <1>1. ClientsOK' /\ PacketsOK(net') /\ ServersOK'
    <2>1. CASE UNCHANGED vars
      <3>1. ClientsOK /\ PacketsOK(net) /\ ServersOK
        BY InvParts
      <3>2. QED  BY <2>1, <3>1 DEF vars, ClientsOK, TestInv, ServersOK
    <2>2. QED  BY <2>1, ClientStep, ServerStep DEF Next
  <1>2. ListsOK'
    BY ListStep
  <1>3. QED
    BY <1>1, <1>2
       DEF IInv, TypeOK, PacketInv, ServerInv, ClientsOK, PacketsOK, ServersOK,
           ServerOK, ServerFields, ListsOK

\* The inductive invariant holds for every number of clients and servers that
\* compete, with or without strangers, on every network.
THEOREM Invariance == Spec => []IInv
  BY InitInv, StepInv, PTL DEF Spec

\* Type correctness: a server never counts more than PacketCount packets, and
\* every throughput it computes is one of tests that were begun.
THEOREM TypeCorrect == Spec => []TypeOK
  <1>1. IInv => TypeOK  BY DEF IInv
  <1>2. QED  BY <1>1, Invariance, PTL

\* The list of every client holds every neighbour once, with the result of its
\* last test and the latency measured before (udp_throughput.c:210-215).
THEOREM RecordedListedCorrect == Spec => []RecordedListed
  <1>1. IInv => RecordedListed  BY DEF IInv, ListInv
  <1>2. QED  BY <1>1, Invariance, PTL
=============================================================================
