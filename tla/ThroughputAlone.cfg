SPECIFICATION Spec
CONSTANTS
    c1 = c1
    c2 = c2
    s1 = s1
    s2 = s2
    Clients = {c1}
    Servers = {s1, s2}
    Neighbors <- OneClient
    Listed <- ListedFirst
    Commands <- Twice
    PacketCount = 3
    Copies <- NoneTwice
    Capacity = 8
    Strangers = {}
    Prompt = TRUE
INVARIANTS
    ResultOwn
    RecordedListed
CHECK_DEADLOCK FALSE
