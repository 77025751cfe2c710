SPECIFICATION FairSpec
CONSTANTS
    Job = {"j1"}
    Graph <- SingleGraph
    Task <- GraphTask
    Stage <- GraphStage
    StageOf <- GraphStageOf
    Consumers <- GraphConsumers
    Region <- GraphRegion
    RegionOf <- GraphRegionOf
    Dependencies <- GraphDependencies
    RegionSets <- GraphRegionSets
    RegionDriver <- GraphRegionDriver
    Key <- GraphKey
    MaxAttempts = 2
    Worker = {1, 2}
    WorkerTaskSlots = 1
    WorkerMaxCount = 1
    WorkerInitialCount = 0
    Trouble = {"client drops output", "task fails", "launch timeout", "worker idle", "worker late",
               "worker lost", "worker crashes", "call fails", "report resent"}
    MaxFaults = 1
INVARIANTS
    NoSlotLeaks
    RequestedWorkersArePending
PROPERTIES
    AssignedOnce
    JobsFollowScheduler
    EveryJobEnds
\* The driver is quiescent when its jobs have ended.
CHECK_DEADLOCK FALSE
