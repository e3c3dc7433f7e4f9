SPECIFICATION FairSpec
CONSTANTS
    Runs = 3
    Addresses <- TwoNeighbours
    Address <- FirstTwice
    Listed <- ListedSecond
    Count = 2
    CktabSize = 4
    Copies = 1
    QueueSize = 8
    Others = 1
INVARIANTS
    OthersKept
    LeftOversBounded
    LastResultListed
PROPERTIES
    MeasurementsEnd
