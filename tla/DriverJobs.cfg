SPECIFICATION Spec
CONSTANTS
    Job = {j1, j2}
    Graph <- SystemGraph
    Task <- GraphTask
    Stage <- GraphStage
    StageOf <- GraphStageOf
    Consumers <- GraphConsumers
    Region <- GraphRegion
    RegionOf <- GraphRegionOf
    Dependencies <- GraphDependencies
    RegionSets <- GraphRegionSets
    RegionDriver <- GraphRegionDriver
    Key <- GraphKey
    MaxAttempts = 1
    Worker = {1, 2}
    WorkerTaskSlots = 1
    WorkerMaxCount = 1
    WorkerInitialCount = 1
    Trouble = {"worker lost"}
    MaxFaults = 1
INVARIANTS
    TypeOK
    SlotsAreSound
    NoSlotLeaks
SYMMETRY JobSymmetry
\* The driver is quiescent when its jobs have ended.
CHECK_DEADLOCK FALSE
