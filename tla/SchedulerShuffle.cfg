SPECIFICATION LifecycleSpec
CONSTANTS
    Task <- ShuffleTask
    Stage <- ShuffleStage
    StageOf <- TaskStage
    Consumers <- ChainConsumers
    Region <- OneRegion
    RegionOf <- AllInOneRegion
    Dependencies <- NoDependencies
    MaxAttempts = 2
INVARIANTS
    DescriptorTypeOK
    RetryInLockstep
    OneLiveRound
    SucceededJobIsComplete
    OutputIsOfFinalAttempts
PROPERTIES
    EndedAttemptsAreFinal
    FinishedWorkIsNotRetried
