SPECIFICATION Spec
CONSTANTS
    Main = main
    Coap = coap
    Addrs = {"A", "B"}
    Values = {0, 1, 2}
    Ops <- Alone
    HeapSize = 4
INVARIANTS
    TypeOK
    ListedOnce
PROPERTIES
    ImplementsTable
CHECK_DEADLOCK FALSE
