SPECIFICATION FairSpec
CONSTANTS
    Row = {1, 2, 3}
    EventTime <- Times
    WindowSize = 4
    Delay = 1
    AllowedLateness = 0
    FinalThrottle = 1
    StateBudget = 1
    CompactInterval = 2
    Query = {"map", "window"}
    MaxFilesPerTrigger = 2
    StopPoints <- SurvivedStops
    StorageFaults <- SurvivedFaults
    MaxTroubles = 2
    MaxIdleBatches = 1
INVARIANTS
    TypeOK
    NoRowIsSeenTwice
PROPERTIES
    ImplementsExactlyOnce
    EveryFileIsProcessed
CHECK_DEADLOCK FALSE
