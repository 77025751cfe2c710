SPECIFICATION PlannerSpec
CONSTANTS
    MaxStages = 4
    MaxPartitions = 3
INVARIANTS
    GraphTypeOK
    RegionsPartitionTheTasks
    PipelinedTasksRunTogether
    TaskSetsAreSound
CHECK_DEADLOCK FALSE
