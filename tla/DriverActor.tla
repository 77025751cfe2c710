----------------------------- MODULE DriverActor -----------------------------
(***************************************************************************)
(* The state of the driver actor (driver/actor) with its job scheduler,    *)
(* task assigner and worker pool, and the operations that its handlers     *)
(* chain.  The state is a record; an operation that may have several       *)
(* results (the placement of tasks, the order of jobs) gives the set of    *)
(* them.  Module Driver has the handlers.                                  *)
(***************************************************************************)
EXTENDS TaskAssigner, JobScheduler

CONSTANTS
    Job,                   \* the jobs; they have the same job graph
    RegionSets,            \* the task sets of each region that go to workers
    RegionDriver,          \* the tasks of each region that go to the driver
    Trouble                \* what may go wrong in this instance

\* Key is the set of <<job, task, attempt>>.
ASSUME ActorAssumption ==
    /\ Key = Job \X Task \X (1 .. IF MaxAttempts = 0 THEN 1 ELSE MaxAttempts)
    /\ IsFiniteSet(Job)
    /\ Trouble \subseteq {"client drops output", "task fails", "launch timeout", "worker idle",
                           "worker late", "worker lost", "worker crashes", "call fails",
                           "report resent"}

\* What the job topology gives (TaskSetsAreSound of module JobTopology): the
\* tasks of a region are in one task set each or go to the driver, and no two
\* tasks of a task set are of the same stage.
ASSUME RegionAssumption ==
    /\ IsFiniteSet(Region) /\ Region \subseteq Int
    /\ RegionSets \in [Region -> Seq(SUBSET Task)]
    /\ RegionDriver \in [Region -> SUBSET Task]
    /\ \A r \in Region :
        /\ \A t \in RegionDriver[r] : RegionOf[t] = r
        /\ \A i \in DOMAIN RegionSets[r] :
            /\ \A t \in RegionSets[r][i] : RegionOf[t] = r /\ t \notin RegionDriver[r]
            /\ \A t, u \in RegionSets[r][i] : t # u => StageOf[t] # StageOf[u]
            /\ \A n \in DOMAIN RegionSets[r] \ {i} : RegionSets[r][i] \cap RegionSets[r][n] = {}

NoJob == [state |-> "None"]
AttemptKey(j, k) == <<j, k[1], k[2]>>
AttemptKeys(j, keys) == {AttemptKey(j, k) : k \in keys}

\* The attempts of job j (of one of its stages) that are among `keys`.
JobKeys(j) == {k \in Key : k[1] = j}
StageKeys(j, of) == {k \in JobKeys(j) : StageOf[k[2]] \in of}

AttemptState(d, k) ==
    LET job == d.jobs[k[1]]
    IN  IF job # NoJob /\ k[3] <= job.len[k[2]] THEN job.attempts[<<k[2], k[3]>>] ELSE "None"

Status == {"Running", "Succeeded", "Failed", "Canceled"}
Message == [key : Key, status : Status]

\* A status is numbered by the worker that reports it: Running comes before
\* the outcome of the attempt.
Sequence(status) == IF status = "Running" THEN 1 ELSE 2
-----------------------------------------------------------------------------
(* The worker pool.                                                        *)

\* start_worker n times: identifiers are generated in order.
StartWorkers(d, n) ==
    LET unused == {w \in Worker : d.pool[w] = "None"}
        started == {w \in unused : Cardinality({v \in unused : v <= w}) <= n}
    IN  [d EXCEPT !.pool = [w \in Worker |-> IF w \in started THEN "Pending" ELSE @[w]]]

Running(d) == {w \in Worker : d.pool[w] = "Running"}

\* The probe that track_worker_activity schedules replaces the earlier ones:
\* they find that the worker has been updated since.
TrackWorkerActivity(d, workers) ==
    IF "worker idle" \in Trouble
    THEN [d EXCEPT !.idleProbes = @ \cup (workers \cap Running(d))]
    ELSE d

StopWorker(d, w) ==
    IF w \in Running(d)
    THEN [d EXCEPT !.pool[w] = "Completed",
                   !.calls = @ \cup {[type |-> "StopWorker", worker |-> w]}]
    ELSE d

Call(type, w, k) == [type |-> type, worker |-> w, key |-> k]
Mail(keys, status) == {[key |-> k, status |-> status] : k \in keys}

\* The workers that the attempts `keys` were assigned to.
AssignedTo(a, k) == {w \in Worker : \E i \in 1 .. WorkerTaskSlots : a.assigned[k] = <<w, i>>}
WorkersOf(a, keys) == UNION {AssignedTo(a, k) : k \in keys}
-----------------------------------------------------------------------------
(* run_job_action.                                                         *)

\* CancelTask for each of the keys.
CancelTasks(d, keys) ==
    LET a == d.assigner
        onDriver == keys \cap d.running
        tracked == TrackWorkerActivity(d, WorkersOf(a, keys))
    IN  [tracked EXCEPT
            !.assigner = UnassignTasks(ExcludeTasks(a, keys), keys),
            !.calls = @ \cup UNION {{Call("StopTask", w, k) : w \in AssignedTo(a, k) \cap Running(d)} :
                                        k \in keys},
            !.running = @ \ onDriver,
            !.mail = @ \cup Mail(onDriver, "Canceled")]

\* ExtendJobOutput fetches the stream from the worker that has it.
FetchJobOutput(d, keys) == TrackWorkerActivity(d, WorkersOf(d.assigner, keys))

\* CleanUpJob for a job or for some of its stages, given by their attempts.
CleanUpStreams(d, keys) ==
    [TrackWorkerActivity(d, UntrackedWorkers(d.assigner, keys)) EXCEPT
        !.assigner = UntrackLocalStreams(@, keys)]

\* Mutant of BuildTaskRegion: a retry enqueues the first attempt again.
BuildTaskRegionFirst(d, j, r) ==
    LET keys(tasks) == {<<j, t, 1>> : t \in tasks}
    IN  [sets |-> [i \in DOMAIN RegionSets[r] |-> keys(RegionSets[r][i])],
         driver |-> keys(RegionDriver[r])]

\* The region that build_task_region makes of the new attempts of region r.
BuildTaskRegion(d, j, r) ==
    LET keys(tasks) == {<<j, t, d.jobs[j].len[t]>> : t \in tasks}
    IN  [sets |-> [i \in DOMAIN RegionSets[r] |-> keys(RegionSets[r][i])],
         driver |-> keys(RegionDriver[r])]

\* ScheduleTaskRegion for each of the regions, in the order of their indices.
EnqueueTaskRegions(d, j, regions) ==
    LET order == InOrder(regions)
        built == [i \in DOMAIN order |-> BuildTaskRegion(d, j, order[i])]
    IN  [d EXCEPT !.assigner = EnqueueTasks(@, built),
                  !.taskProbes = @ \cup UNION {RegionKeys(built[i]) : i \in DOMAIN built}]

\* refresh_job of the actor: the actions that refresh_job of the scheduler
\* returns are read off the change of the descriptor.
DriverRefreshJob(d, j) ==
    LET old == d.jobs[j]
        new == RefreshJob(old)
        canceled == IF old.state = "Running" THEN CanceledKeys(old) ELSE {}
        cleaned == {s \in Stage : old.stages[s] # new.stages[s]}
        scheduled == {RegionOf[t] : t \in {u \in Task : old.len[u] # new.len[u]}}
        d1 == CancelTasks([d EXCEPT !.jobs[j] = new], AttemptKeys(j, canceled))
        d2 == FetchJobOutput(d1, AttemptKeys(j, new.fetched \ old.fetched))
        d3 == CleanUpStreams(d2, StageKeys(j, cleaned))
    IN  EnqueueTaskRegions(d3, j, scheduled)

DriverCleanUpJob(d, j) ==
    LET old == d.jobs[j]
        live == {k \in Keys(old) : old.attempts[k] \notin Terminal}
        d1 == CancelTasks([d EXCEPT !.jobs[j] = CleanUpJob(old)], AttemptKeys(j, live))
    IN  CleanUpStreams(d1, JobKeys(j))
-----------------------------------------------------------------------------
(* run_tasks and scale_up_workers.                                         *)

\* update_task of the scheduler for each of the keys.
UpdatedJobs(jobs, keys, status) ==
    [j \in Job |->
        IF jobs[j] = NoJob THEN NoJob
        ELSE UpdateTasks(jobs[j], {<<k[2], k[3]>> : k \in {x \in keys : x[1] = j}}, status)]

UpdateJobTasks(d, keys, status) == [d EXCEPT !.jobs = UpdatedJobs(@, keys, status)]

\* get_task_definition succeeds: the job is running, and the latest attempts
\* of the stages that the task reads have been assigned.
HasDefinition(d, a, k) ==
    LET job == d.jobs[k[1]]
    IN  /\ job.state = "Running"
        /\ \A t \in Task : StageOf[k[2]] \in Consumers[StageOf[t]] =>
                /\ job.len[t] > 0
                /\ a.assigned[<<k[1], t, job.len[t]>>] # Unassigned

\* run_tasks with placement p; the plan of the attempts `invalid` on the driver
\* cannot be executed.
RunTasksWith(d, p, invalid) ==
    LET assigned == AssignedKeys(d.assigner)
        a == TrackStreams(AssignTasks(d.assigner, p), assigned)
        defined == {k \in assigned : HasDefinition(d, a, k)}
        onDriver == {k \in defined : a.assigned[k] = OnDriver}
        started == {k \in defined : AssignedTo(a, k) \cap Running(d) # {}}
    IN  [TrackWorkerActivity(d, WorkersOf(a, defined)) EXCEPT
            !.assigner = a,
            !.jobs = UpdatedJobs(@, defined, "Scheduled"),
            !.running = @ \cup (onDriver \ invalid),
            !.mail = @ \cup Mail(onDriver \ invalid, "Running")
                       \cup Mail((onDriver \cap invalid) \cup (assigned \ defined)
                                    \cup ((defined \ onDriver) \ started), "Failed"),
            !.calls = @ \cup UNION {{Call("RunTask", w, k) : w \in AssignedTo(a, k)} : k \in started}]

RunTasks(d) ==
    {RunTasksWith(d, p, invalid) :
        p \in Placements(d.assigner),
        invalid \in SUBSET UNION {d.assigner.queue[i].driver : i \in 1 .. AssignedRegions(d.assigner)}}

ScaleUpWorkers(d) ==
    StartWorkers([d EXCEPT !.assigner = RequestWorkers(@)], RequiredWorkers(d.assigner))

\* The bound on the workers that are ever started: a step that asks for more
\* than the identifiers that are left is not explored.
WorkersSuffice(d) ==
    RequiredWorkers(d.assigner) <= Cardinality({w \in Worker : d.pool[w] = "None"})

RunTasksAndScaleUp(d) == {ScaleUpWorkers(e) : e \in {x \in RunTasks(d) : WorkersSuffice(x)}}
-----------------------------------------------------------------------------
(* handle_probe_lost_worker and handle_update_task.                        *)

\* The states in which the jobs of a set have been refreshed one after the other,
\* in any order, from state d.
RefreshJobs(d) ==
    LET refreshed[jobs \in SUBSET Job] ==
            IF jobs = {} THEN {d}
            ELSE UNION {UNION {RunTasksAndScaleUp(DriverRefreshJob(e, j)) : e \in refreshed[jobs \ {j}]} :
                            j \in jobs}
    IN  refreshed

\* Mutants of HandleUpdateTask: the slot of an attempt that fails is not freed;
\* what a failure puts in the queue waits for the next message.
HandleUpdateTaskKeepsSlot(d, k, status) ==
    IF status = "Running" THEN {DriverRefreshJob(UpdateJobTasks(d, {k}, status), k[1])}
    ELSE IF status = "Canceled" THEN {UpdateJobTasks(d, {k}, status)}
    ELSE RunTasksAndScaleUp(DriverRefreshJob(
            [UpdateJobTasks(d, {k}, status) EXCEPT !.assigner =
                IF status = "Succeeded" THEN UnassignTasks(@, {k}) ELSE @], k[1]))

HandleUpdateTaskNoRun(d, k, status) ==
    IF status = "Canceled" THEN {UpdateJobTasks(d, {k}, status)}
    ELSE {DriverRefreshJob([UpdateJobTasks(d, {k}, status) EXCEPT !.assigner =
                IF status = "Running" THEN @ ELSE UnassignTasks(@, {k})], k[1])}

\* handle_update_task for one status of the attempt k, from state d.
HandleUpdateTask(d, k, status) ==
    IF status = "Running" THEN {DriverRefreshJob(UpdateJobTasks(d, {k}, status), k[1])}
    ELSE IF status = "Canceled" THEN {UpdateJobTasks(d, {k}, status)}
    ELSE RunTasksAndScaleUp(DriverRefreshJob(
            [UpdateJobTasks(d, {k}, status) EXCEPT !.assigner = UnassignTasks(@, {k})], k[1]))
=============================================================================
