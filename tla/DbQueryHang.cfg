SPECIFICATION FairSpec
CONSTANTS
    Shell = shell
    Coap = coap
    Config <- ConfigAll
    PidLast = 4
    Started = {1, 3}
    ThreadName <- ThreadNames
    IfaceName <- OneIface
    DeviceName <- OneDevice
    PrefixOf <- PrefixPairs
    Requests <- BothPs
    NibStates <- NibOne
    Measured = {}
    Mortal = {}
PROPERTIES
    HandlerEnds
CHECK_DEADLOCK FALSE
