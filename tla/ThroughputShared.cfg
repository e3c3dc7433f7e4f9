SPECIFICATION FairSpec
CONSTANTS
    c1 = c1
    c2 = c2
    s1 = s1
    s2 = s2
    Clients = {c1, c2}
    Servers = {s1}
    Neighbors <- TwoClients
    Listed <- ListedFirst
    Commands <- OnceEach
    PacketCount = 2
    Copies <- StartTwice
    Capacity = 3
    Strangers <- Stranger
    Prompt = FALSE
INVARIANTS
    TypeOK
    ServerRuns
PROPERTIES
    ServersReturn
    CommandsEnd
CHECK_DEADLOCK FALSE
