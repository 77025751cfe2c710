----------------------------- MODULE JobTopology -----------------------------
(***************************************************************************)
(* How a job graph is put together (job_graph/planner.rs), its topology    *)
(* (driver/job_scheduler/topology.rs) and the task sets of its regions     *)
(* (build_task_region).                                                    *)
(*                                                                         *)
(* The planner walks the physical plan bottom-up.  Where the plan crosses  *)
(* a boundary it pushes a stage to the graph and leaves a StageInputExec   *)
(* placeholder in the plan; the next stage that is pushed on the way up    *)
(* takes the placeholders below it as its inputs (rewrite_inputs).  The    *)
(* placeholders not yet taken are thus a stack.  What a stage computes is  *)
(* left out: only its number of partitions and the modes in which it reads *)
(* its inputs matter here.  Every output is pipelined and every stage is   *)
(* in the slot sharing group "", as the planner writes nothing else.       *)
(***************************************************************************)
EXTENDS Integers, Sequences, FiniteSets

CONSTANTS
    MaxStages,     \* bound on the number of stages
    MaxPartitions  \* bound on the number of partitions of a stage

ASSUME GraphAssumption == MaxStages \in Nat \ {0} /\ MaxPartitions \in Nat \ {0}

VARIABLES
    stages,   \* the stages of the graph
    inputs,   \* the stack of placeholders
    done      \* the final stage has been pushed

plannerVars == <<stages, inputs, done>>

InputMode == {"Forward", "Merge", "Shuffle", "Broadcast"}
TaskPlacement == {"Driver", "Worker"}
StageInput == [stage : Nat, mode : InputMode]
StageRecord == [partitions : Nat \ {0}, inputs : Seq(StageInput), placement : TaskPlacement]
-----------------------------------------------------------------------------
(* The topology of a graph g.                                              *)

Stages(g) == DOMAIN g
Tasks(g) == UNION {{s} \X (0 .. g[s].partitions - 1) : s \in Stages(g)}

\* Stage s reads stage u.
Reads(g, s, u, modes) == \E i \in DOMAIN g[s].inputs :
    g[s].inputs[i].stage = u /\ g[s].inputs[i].mode \in modes

\* The pipelined components: the breadth-first search from a stage reaches the
\* stages that are connected with it.
Component(g, s) ==
    LET reached[n \in Nat] ==
            IF n = 0 THEN {s}
            ELSE LET near == reached[n - 1]
                 IN  {v \in Stages(g) : v \in near \/ \E u \in near :
                        Reads(g, u, v, InputMode) \/ Reads(g, v, u, InputMode)}
    IN  reached[Len(g)]

Components(g) == {Component(g, s) : s \in Stages(g)}

\* Mutant of AllForward: the inputs of a merge are taken for forward inputs.
AllForwardOrMerge(g, component) ==
    \A s, u \in component : ~ Reads(g, s, u, {"Shuffle", "Broadcast"})

AllForward(g, component) ==
    \A s, u \in component : ~ Reads(g, s, u, InputMode \ {"Forward"})

PartitionCounts(g, component) == {g[s].partitions : s \in component}

\* The error "task region with all forward inputs must have the same partition
\* count" of try_new.
IsRejected(g) ==
    \E component \in Components(g) :
        AllForward(g, component) /\ Cardinality(PartitionCounts(g, component)) # 1

\* Mutant of ComponentRegions: the slices are counted from one.
ComponentRegionsFromOne(g, component) ==
    IF AllForward(g, component)
    THEN {component \X {p} : p \in 1 .. (CHOOSE n \in PartitionCounts(g, component) : TRUE) - 1}
    ELSE {{t \in Tasks(g) : t[1] \in component}}

\* The regions of one component, each a set of tasks.
ComponentRegions(g, component) ==
    IF AllForward(g, component)
    THEN {component \X {p} : p \in 0 .. (CHOOSE n \in PartitionCounts(g, component) : TRUE) - 1}
    ELSE {{t \in Tasks(g) : t[1] \in component}}

Regions(g) == UNION {ComponentRegions(g, component) : component \in Components(g)}

\* The regions that a region depends on.
Producers(g, t) ==
    {u \in Tasks(g) : \/ Reads(g, t[1], u[1], {"Forward"}) /\ u[2] = t[2]
                      \/ Reads(g, t[1], u[1], InputMode \ {"Forward"})}

RegionDependencies(g, region) ==
    {d \in Regions(g) \ {region} : \E t \in region : Producers(g, t) \cap d # {}}
-----------------------------------------------------------------------------
(* build_task_region: the stages of a region with the same placement share *)
(* buckets, as many as the stage with the most partitions has, and task p  *)
(* of a stage with n partitions goes to bucket p * |buckets| / n.          *)

\* Mutant of Buckets: as many buckets as the stage with the fewest partitions.
BucketsOfSmallest(g, region, placement) ==
    LET counts == {g[t[1]].partitions : t \in {u \in region : g[u[1]].placement = placement}}
    IN  IF counts = {} THEN 0 ELSE CHOOSE n \in counts : \A m \in counts : n <= m

Buckets(g, region, placement) ==
    LET counts == {g[t[1]].partitions : t \in {u \in region : g[u[1]].placement = placement}}
    IN  IF counts = {} THEN 0 ELSE CHOOSE n \in counts : \A m \in counts : m <= n

Bucket(g, region, t) ==
    (t[2] * Buckets(g, region, g[t[1]].placement)) \div g[t[1]].partitions

TaskSet(g, region, placement, b) ==
    {t \in region : g[t[1]].placement = placement /\ Bucket(g, region, t) = b}

\* The task sets of a region with the given placement, in order.
TaskSets(g, region, placement) ==
    [b \in 1 .. Buckets(g, region, placement) |-> TaskSet(g, region, placement, b - 1)]
-----------------------------------------------------------------------------
(* The planner.                                                            *)

PlannerInit == stages = <<>> /\ inputs = <<>> /\ done = FALSE

\* A new stage takes the n placeholders at the top of the stack.
Push(n, partitions, placement) ==
    stages' = Append(stages,
        [partitions |-> partitions,
         inputs |-> SubSeq(inputs, Len(inputs) - n + 1, Len(inputs)),
         placement |-> placement])

\* Mutant of Placeholder: the index is taken after the stage is pushed.
PlaceholderAfterPush(n, mode) ==
    inputs' = Append(SubSeq(inputs, 1, Len(inputs) - n), [stage |-> Len(stages) + 2, mode |-> mode])

Placeholder(n, mode) ==
    inputs' = Append(SubSeq(inputs, 1, Len(inputs) - n), [stage |-> Len(stages) + 1, mode |-> mode])

\* A system table or a catalog command: one partition and no inputs.
CreateDriverStage ==
    /\ ~ done /\ Len(stages) + 1 < MaxStages
    /\ Push(0, 1, "Driver")
    /\ Placeholder(0, "Forward")
    /\ UNCHANGED done

\* A repartition or a coalesce; a shared build side is broadcast.
CreateShuffle(n, partitions, mode) ==
    /\ ~ done /\ Len(stages) + 1 < MaxStages
    /\ mode \in {"Shuffle", "Broadcast"}
    /\ Push(n, partitions, "Worker")
    /\ Placeholder(n, mode)
    /\ UNCHANGED done

\* The input of a sort-preserving merge.
CreateMergeInput(n, partitions) ==
    /\ ~ done /\ Len(stages) + 1 < MaxStages
    /\ Push(n, partitions, "Worker")
    /\ Placeholder(n, "Merge")
    /\ UNCHANGED done

\* The root of the plan is the final stage.
PushFinalStage(partitions) ==
    /\ ~ done /\ Len(stages) < MaxStages
    /\ Push(Len(inputs), partitions, "Worker")
    /\ inputs' = <<>>
    /\ done' = TRUE

PlannerNext ==
    \/ CreateDriverStage
    \/ \E partitions \in 1 .. MaxPartitions :
        \/ \E n \in 0 .. Len(inputs) :
            \/ \E mode \in {"Shuffle", "Broadcast"} : CreateShuffle(n, partitions, mode)
            \/ CreateMergeInput(n, partitions)
        \/ PushFinalStage(partitions)

PlannerSpec == PlannerInit /\ [][PlannerNext]_plannerVars
-----------------------------------------------------------------------------
(* Properties of every graph that the planner finishes.                    *)

\* A placeholder names a stage of the graph, and a stage reads earlier ones.
GraphTypeOK ==
    /\ stages \in Seq(StageRecord)
    /\ inputs \in Seq([stage : Stages(stages), mode : InputMode])
    /\ \A s \in Stages(stages) : \A i \in DOMAIN stages[s].inputs : stages[s].inputs[i].stage < s
    /\ done \in BOOLEAN

\* A task is in exactly one region, so that JobScheduler retries it with
\* exactly one set of tasks.
RegionsPartitionTheTasks ==
    done /\ ~ IsRejected(stages) =>
        \A t \in Tasks(stages) : Cardinality({r \in Regions(stages) : t \in r}) = 1

\* The outputs are pipelined, so a task and all the tasks whose output it reads
\* must run at the same time: they are in the same region, which is assigned
\* and retried as a whole, and no region waits for another one.
PipelinedTasksRunTogether ==
    done /\ ~ IsRejected(stages) =>
        \A r \in Regions(stages) :
            /\ \A t \in r : Producers(stages, t) \subseteq r
            /\ RegionDependencies(stages, r) = {}

\* The task sets of a region hold each of its tasks once, on the side (driver
\* or workers) where its stage is placed, and two partitions of a stage are
\* never in one set: the bucket formula is injective on each stage.
TaskSetsAreSound ==
    done /\ ~ IsRejected(stages) =>
        \A r \in Regions(stages), t \in Tasks(stages) :
            LET sets(placement) == TaskSets(stages, r, placement)
                holders(placement) == {b \in DOMAIN sets(placement) : t \in sets(placement)[b]}
            IN  /\ t \in r => Cardinality(holders(stages[t[1]].placement)) = 1
                /\ \A placement \in TaskPlacement : \A b \in holders(placement) :
                        /\ stages[t[1]].placement = placement
                        /\ \A u \in sets(placement)[b] : u[1] = t[1] => u = t
=============================================================================
