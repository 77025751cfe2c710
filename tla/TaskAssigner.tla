---------------------------- MODULE TaskAssigner ----------------------------
(***************************************************************************)
(* The task assigner of the driver (driver/task_assigner): the queue of    *)
(* task regions, the task slots of the workers, the streams that keep a    *)
(* worker alive, and the count of requested workers.                       *)
(*                                                                         *)
(* The methods are operators on the record of the assigner, which module   *)
(* Driver calls from the handlers of the actor.                            *)
(***************************************************************************)
EXTENDS Integers, Sequences, FiniteSets, Functions

CONSTANTS
    Key,             \* the keys of task attempts
    Worker,          \* the identifiers of workers, 1 .. n (WorkersSuffice of DriverActor)
    WorkerTaskSlots, \* worker_task_slots
    WorkerMaxCount   \* worker_max_count; 0 is no limit

ASSUME AssignerAssumption ==
    /\ WorkerTaskSlots \in Nat \ {0} /\ WorkerMaxCount \in Nat
    /\ IsFiniteSet(Worker) /\ Worker = 1 .. Cardinality(Worker)

Slot == Worker \X (1 .. WorkerTaskSlots)

\* A region is the sequence of the task sets that are placed on workers and
\* the set of the tasks that are placed on the driver.
TaskRegion == [sets : Seq(SUBSET Key), driver : SUBSET Key]

\* resource[w] is "Absent" before worker w registers; slots and streams are
\* those of the Active workers.  `assigned` is the table task_assignments, in
\* which an attempt that has no entry is Unassigned.
Unassigned == <<>>
OnDriver == <<"driver">>

TaskAssigner ==
    [queue : Seq(TaskRegion),
     requested : Nat,
     resource : [Worker -> {"Absent", "Active", "Inactive"}],
     slots : [Slot -> SUBSET Key],
     streams : [Worker -> SUBSET Key],
     driverTasks : SUBSET Key,
     driverStreams : SUBSET Key,
     assigned : [Key -> Slot \cup {Unassigned, OnDriver}]]

NewTaskAssigner ==
    [queue |-> <<>>,
     requested |-> 0,
     resource |-> [w \in Worker |-> "Absent"],
     slots |-> [s \in Slot |-> {}],
     streams |-> [w \in Worker |-> {}],
     driverTasks |-> {},
     driverStreams |-> {},
     assigned |-> [k \in Key |-> Unassigned]]
-----------------------------------------------------------------------------
(* Reading the assigner.                                                   *)

RegionKeys(region) == (UNION Range(region.sets)) \cup region.driver

Active(a) == {w \in Worker : a.resource[w] = "Active"}

VacantSlots(a) == {s \in Slot : s[1] \in Active(a) /\ a.slots[s] = {}}

\* The task sets of the first n regions of the queue, <<i, j>> for set j of region
\* i, each of which asks for a worker task slot.
QueuedSets(queue, n) == UNION {{i} \X DOMAIN queue[i].sets : i \in 1 .. n}

Demand(queue, n) == Cardinality(QueuedSets(queue, n))

\* Mutant of IsWorkerIdle: the output that others still read is forgotten.
IsWorkerIdleNoStreams(a, w) ==
    /\ w \in Active(a)
    /\ \A s \in Slot : s[1] = w => a.slots[s] = {}

IsWorkerIdle(a, w) ==
    /\ w \in Active(a)
    /\ \A s \in Slot : s[1] = w => a.slots[s] = {}
    /\ a.streams[w] = {}

\* Mutant of FindWorkerTasks: it looks at the worker after it is deactivated.
FindWorkerTasksTooLate(a, w) == {}

FindWorkerTasks(a, w) ==
    IF w \in Active(a) THEN UNION {a.slots[s] : s \in {x \in Slot : x[1] = w}} ELSE {}
-----------------------------------------------------------------------------
(* Scaling.                                                                *)

Minus(m, n) == IF m > n THEN m - n ELSE 0
Least(m, n) == IF m < n THEN m ELSE n

\* The number of workers that request_workers asks for.
RequiredWorkers(a) ==
    LET required == Minus(Demand(a.queue, Len(a.queue)), Cardinality(VacantSlots(a)))
        workers == (required + WorkerTaskSlots - 1) \div WorkerTaskSlots
    IN  IF WorkerMaxCount = 0 THEN workers
        ELSE Least(workers, Minus(Minus(WorkerMaxCount, a.requested), Cardinality(Active(a))))

RequestWorkers(a) == [a EXCEPT !.requested = @ + RequiredWorkers(a)]

\* Mutant of TrackWorkerFailedToStart: the count is left alone.
TrackWorkerFailedToStartNot(a) == a

TrackWorkerFailedToStart(a) == [a EXCEPT !.requested = Minus(@, 1)]

\* Mutant of ActivateWorker: the subtraction does not saturate.
ActivateWorkerUnchecked(a, w) ==
    [a EXCEPT !.requested = @ - 1,
              !.resource[w] = IF @ = "Absent" THEN "Active" ELSE @]

ActivateWorker(a, w) ==
    [a EXCEPT !.requested = Minus(@, 1),
              !.resource[w] = IF @ = "Absent" THEN "Active" ELSE @]

\* Mutant of DeactivateWorker: the worker is emptied and remains active.
DeactivateWorkerNot(a, w) ==
    [a EXCEPT !.slots = [s \in Slot |-> IF s[1] = w THEN {} ELSE @[s]],
              !.streams[w] = {}]

DeactivateWorker(a, w) ==
    IF w \in Active(a)
    THEN [a EXCEPT !.resource[w] = "Inactive",
                   !.slots = [s \in Slot |-> IF s[1] = w THEN {} ELSE @[s]],
                   !.streams[w] = {}]
    ELSE a
-----------------------------------------------------------------------------
(* Queue and assignment.                                                   *)

\* enqueue_tasks for each of the regions.
EnqueueTasks(a, regions) == [a EXCEPT !.queue = @ \o regions]

\* A finite set of integers as an increasing sequence.
InOrder(S) ==
    [i \in 1 .. Cardinality(S) |-> CHOOSE x \in S : Cardinality({y \in S : y <= x}) = i]

\* exclude_task for each of the keys: the regions with one of them are dropped.
ExcludeTasks(a, keys) ==
    LET kept == InOrder({i \in DOMAIN a.queue : RegionKeys(a.queue[i]) \cap keys = {}})
    IN  [a EXCEPT !.queue = [i \in DOMAIN kept |-> @[kept[i]]]]

\* The number of regions at the head of the queue that assign_tasks assigns:
\* in order, each as a whole, until one does not fit.
AssignedRegions(a) ==
    IF a.requested > 0 THEN 0
    ELSE CHOOSE n \in 0 .. Len(a.queue) :
            /\ Demand(a.queue, n) <= Cardinality(VacantSlots(a))
            /\ n < Len(a.queue) => Demand(a.queue, n + 1) > Cardinality(VacantSlots(a))

\* The ways to give each task set of these regions a vacant slot of its own.  The
\* placement policy takes one of them, by the order in which the workers have
\* registered.
Placements(a) == Injection(QueuedSets(a.queue, AssignedRegions(a)), VacantSlots(a))

\* assign_tasks with placement p: the keys it assigns, and the new assigner.
AssignedKeys(a) == UNION {RegionKeys(a.queue[i]) : i \in 1 .. AssignedRegions(a)}

AssignTasks(a, p) ==
    LET n == AssignedRegions(a)
        onDriver == UNION {a.queue[i].driver : i \in 1 .. n}
        sets == [x \in DOMAIN p |-> a.queue[x[1]].sets[x[2]]]
    IN  [a EXCEPT
            !.queue = SubSeq(@, n + 1, Len(@)),
            !.slots = [s \in Slot |-> @[s] \cup UNION {sets[x] : x \in {y \in DOMAIN p : p[y] = s}}],
            !.driverTasks = @ \cup onDriver,
            !.assigned = [k \in Key |->
                IF k \in onDriver THEN OnDriver
                ELSE IF \E x \in DOMAIN p : k \in sets[x]
                     THEN p[CHOOSE x \in DOMAIN p : k \in sets[x]]
                     ELSE @[k]]]

\* track_streams for the assignments just made: the output of each attempt
\* is a local stream of the worker, or of the driver, that runs it.
TrackStreams(a, keys) ==
    [a EXCEPT !.streams = [w \in Worker |->
                  IF w \in Active(a)
                  THEN @[w] \cup {k \in keys : a.assigned[k] \in {s \in Slot : s[1] = w}}
                  ELSE @[w]],
              !.driverStreams = @ \cup {k \in keys : a.assigned[k] = OnDriver}]

\* unassign_task for each of the keys.
UnassignTasks(a, keys) ==
    [a EXCEPT !.slots = [s \in Slot |-> @[s] \ {k \in keys : a.assigned[k] = s}],
              !.driverTasks = @ \ {k \in keys : a.assigned[k] = OnDriver}]

\* untrack_local_streams for the attempts `keys` of a job or of a stage, and
\* the workers it returns.
UntrackLocalStreams(a, keys) ==
    [a EXCEPT !.streams = [w \in Worker |-> @[w] \ keys], !.driverStreams = @ \ keys]

UntrackedWorkers(a, keys) == {w \in Active(a) : a.streams[w] \cap keys # {}}
=============================================================================
