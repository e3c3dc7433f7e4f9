SPECIFICATION Spec
CONSTANTS
    Main = main
    Coap = coap
    Addrs = {"A", "B"}
    Values = {0, 1, 2}
    Ops <- Interrupted
    HeapSize = 4
INVARIANTS
    WalksEnd
    RecordedFound
CHECK_DEADLOCK FALSE
