SPECIFICATION FairSpec
CONSTANTS
    Row = {1, 2, 3}
    EventTime <- Times
    WindowSize = 4
    Delay = 1
    AllowedLateness = 0
    FinalThrottle = 1
    StateBudget = 1
    CompactInterval = 2
    Partition = {1, 2}
    Topic <- TwoPartitions
    Pipeline <- AllPipelines
    MaxBatch = 2
    ChannelCapacity = 1
    MaxEpoch = 2
    PutFaults = {}
    MaxCrashes <- CrashAligned
    EarlyCrash = FALSE
INVARIANTS
    TypeOK
    NoRowIsSeenTwice
    CommittedStateIsKept
PROPERTIES
    ImplementsExactlyOnce
    BarriersAreCommitted
CHECK_DEADLOCK FALSE
