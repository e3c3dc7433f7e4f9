SPECIFICATION Spec
CONSTANTS
    Runs = 2
    Addresses <- TwoNeighbours
    Address <- FirstThenSecond
    Listed <- ListedNone
    Count = 2
    CktabSize = 2
    Copies = 2
    QueueSize = 3
    Others = 1
INVARIANTS
    RecvNeverExceedsSent
    FinishDividesSafely
    LossIsPercentage
    CutShortByEarlierRun
    IInv
CHECK_DEADLOCK FALSE
