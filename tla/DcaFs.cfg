SPECIFICATION FsFairSpec
CONSTANTS
    Shell = shell
    Coap = coap
    Config <- ConfigAll
    PidLast = 4
    Started = {1, 3}
    ThreadName <- ThreadNames
    IfaceName <- OneIface
    DeviceName <- OneDevice
    PrefixOf <- PrefixPairs
    Requests <- FsQueries
    NibStates <- NibOne
    Measured = {"A"}
    Mortal = {}
    FsRequests <- FsCommands
    Builds = {TRUE, FALSE}
    Size = 2
INVARIANTS
    FsTypeOK
    FileSound
    NamesFound
    TreeComplete
    CatWhole
PROPERTIES
    FsEnds
CHECK_DEADLOCK FALSE
