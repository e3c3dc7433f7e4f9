SPECIFICATION Spec
CONSTANTS
    Shell = shell
    Coap = coap
    Config <- ConfigAll
    PidLast = 4
    Started = {1, 3}
    ThreadName <- ThreadNames
    IfaceName <- OneIface
    DeviceName <- OneDevice
    PrefixOf <- PrefixPairs
    Requests <- IsolatedRequests
    NibStates <- NibMoving
    Measured = {"A"}
    Mortal = {}
INVARIANTS
    LookupSound
    NumWithinList
    RetrySucceeds
