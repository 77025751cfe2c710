------------------------------ MODULE MCDriver ------------------------------
(***************************************************************************)
(* Instances of Driver.  A job graph is written as JobTopology has it, and *)
(* the tasks, the regions and their task sets follow from it by the        *)
(* operators of that module.                                               *)
(***************************************************************************)
EXTENDS Driver, SequencesExt

Topology == INSTANCE JobTopology
    WITH MaxStages <- 3, MaxPartitions <- 3, stages <- <<>>, inputs <- <<>>, done <- TRUE

WorkerStage(partitions, inputs) ==
    [partitions |-> partitions, inputs |-> inputs, placement |-> "Worker"]

\* One stage with one partition.
SingleGraph == <<WorkerStage(1, <<>>)>>
\* A stage that reads another one through a shuffle.
ChainGraph == <<WorkerStage(1, <<>>), WorkerStage(1, <<[stage |-> 1, mode |-> "Shuffle"]>>)>>
\* A stage that reads a system table on the driver.
SystemGraph ==
    <<[partitions |-> 1, inputs |-> <<>>, placement |-> "Driver"],
      WorkerStage(1, <<[stage |-> 1, mode |-> "Forward"]>>)>>

CONSTANT Graph

GraphTask == Topology!Tasks(Graph)
GraphStage == Topology!Stages(Graph)
GraphStageOf == [t \in GraphTask |-> t[1]]
GraphConsumers ==
    [u \in GraphStage |-> {s \in GraphStage : Topology!Reads(Graph, s, u, Topology!InputMode)}]

\* The regions in order: a component that is sliced has one for each partition.
RegionTasks == SetToSortSeq(Topology!Regions(Graph),
                    LAMBDA r, q : \E t \in r : \A u \in q : t[2] < u[2])
GraphRegion == DOMAIN RegionTasks
GraphRegionOf == [t \in GraphTask |-> CHOOSE r \in GraphRegion : t \in RegionTasks[r]]
GraphDependencies == [r \in GraphRegion |->
    {d \in GraphRegion : RegionTasks[d] \in Topology!RegionDependencies(Graph, RegionTasks[r])}]
GraphRegionSets == [r \in GraphRegion |-> Topology!TaskSets(Graph, RegionTasks[r], "Worker")]
GraphRegionDriver ==
    [r \in GraphRegion |-> {t \in RegionTasks[r] : Graph[t[1]].placement = "Driver"}]

GraphKey == Job \X GraphTask \X (1 .. MaxAttempts)

\* Nothing orders the jobs.
JobSymmetry == Permutations(Job)
=============================================================================
