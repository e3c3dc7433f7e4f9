SPECIFICATION Spec
CONSTANTS
    Shell = shell
    Coap = coap
    Config <- ConfigAll
    PidLast = 4
    Started = {1, 3}
    ThreadName <- ThreadNames
    IfaceName <- OneIface
    DeviceName <- OneDevice
    PrefixOf <- PrefixPairs
    Requests <- FieldRequests
    NibStates <- NibOne
    Measured = {}
    Mortal = {}
INVARIANTS
    KeyAnswered
