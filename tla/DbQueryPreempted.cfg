SPECIFICATION Spec
CONSTANTS
    Shell = shell
    Coap = coap
    Config <- ConfigAll
    PidLast = 3
    Started = {1, 2, 3}
    ThreadName <- ThreadNames3
    IfaceName <- OneIface
    DeviceName <- OneDevice
    PrefixOf <- PrefixPairs
    Requests <- PreemptedRequests
    NibStates <- NibOne
    Measured = {}
    Mortal = {3}
INVARIANTS
    StaticAnswered
    HandlerSound
CHECK_DEADLOCK FALSE
