SPECIFICATION FairSpec
CONSTANTS
    Shell = shell
    Coap = coap
    Config <- ConfigAll
    PidLast = 4
    Started = {1, 3}
    ThreadName <- ThreadNames
    IfaceName <- OneIface
    DeviceName <- OneDevice
    PrefixOf <- PrefixPairs
    Requests <- SequentialRequests
    NibStates <- NibOne
    Measured = {"A"}
    Mortal = {}
INVARIANTS
    TypeOK
    CountersInTables
    LookupSound
    NoFault
    RetrySucceeds
    NetifFieldsFound
    DumpExact
PROPERTIES
    CommandsEnd
