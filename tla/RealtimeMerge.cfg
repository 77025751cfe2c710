SPECIFICATION Spec
CONSTANTS
    Row = {1, 2, 3}
    EventTime <- Times
    WindowSize = 4
    Delay = 1
    AllowedLateness = 0
    FinalThrottle = 1
    StateBudget = 1
    CompactInterval = 2
    Partition = {1, 2}
    Topic <- TwoPartitions
    Pipeline <- Merged
    MaxBatch = 2
    ChannelCapacity = 1
    MaxEpoch = 2
    PutFaults = {}
    MaxCrashes <- CrashAligned
    EarlyCrash = FALSE
INVARIANT
    StateIsConsistentCut
CHECK_DEADLOCK FALSE
