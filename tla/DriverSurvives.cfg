SPECIFICATION FairSpec
CONSTANTS
    Job = {"j1"}
    Graph <- ChainGraph
    Task <- GraphTask
    Stage <- GraphStage
    StageOf <- GraphStageOf
    Consumers <- GraphConsumers
    Region <- GraphRegion
    RegionOf <- GraphRegionOf
    Dependencies <- GraphDependencies
    RegionSets <- GraphRegionSets
    RegionDriver <- GraphRegionDriver
    Key <- GraphKey
    MaxAttempts = 2
    Worker = {1, 2}
    WorkerTaskSlots = 1
    WorkerMaxCount = 1
    WorkerInitialCount = 0
    Trouble = {"worker lost", "call fails", "report resent", "worker idle", "worker late"}
    MaxFaults = 1
PROPERTIES
    IdleWorkersAreNotNeeded
    JobsSurviveFaults
\* The driver is quiescent when its jobs have ended.
CHECK_DEADLOCK FALSE
