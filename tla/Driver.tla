------------------------------- MODULE Driver -------------------------------
(***************************************************************************)
(* The handlers of the driver actor (driver/actor), the workers it talks   *)
(* to and the network between them.                                        *)
(*                                                                         *)
(* An actor handles one message at a time, so a handler is one step.  What *)
(* a handler spawns is not ordered: the events it sends to its own mailbox *)
(* (driver.mail), the calls to the workers (driver.calls) and the reports  *)
(* of the workers (reports) are sets from which any message may be taken   *)
(* next.  Timers are not clocked: a probe that is due some time after an   *)
(* event may fire at any time after it.                                    *)
(*                                                                         *)
(* Left out: the streams themselves (the client reads the job output or    *)
(* gives it up at any time) and the stop of the driver.                    *)
(***************************************************************************)
EXTENDS DriverActor

CONSTANTS
    WorkerInitialCount,    \* worker_initial_count
    MaxFaults              \* bound on how often the network or a worker fails

ASSUME DriverAssumption ==
    WorkerInitialCount \in 0 .. Cardinality(Worker) /\ MaxFaults \in Nat

VARIABLES
    driver,   \* the state of the actor
    process,  \* the processes of the workers
    running,  \* the attempts that each worker runs
    reports,  \* the task status reports of the workers in flight
    faults    \* how much of MaxFaults is used

vars == <<driver, process, running, reports, faults>>

Scheduler(j) == INSTANCE JobLifecycle WITH descriptor <- driver.jobs[j]
-----------------------------------------------------------------------------
(* The handlers of the actor.                                              *)

\* The state once the server is ready (handle_server_ready).
Init ==
    /\ driver = [jobs |-> [j \in Job |-> NoJob],
                 assigner |-> NewTaskAssigner,
                 pool |-> [w \in Worker |-> IF w <= WorkerInitialCount THEN "Pending" ELSE "None"],
                 idleProbes |-> {},
                 taskProbes |-> {},
                 sequences |-> [k \in Key |-> 0],
                 running |-> {},
                 mail |-> {},
                 calls |-> {}]
    /\ process = [w \in Worker |-> "Starting"]
    /\ running = [w \in Worker |-> {}]
    /\ reports = {}
    /\ faults = 0

HandleExecuteJob(j) ==
    /\ driver.jobs[j] = NoJob
    /\ driver' \in RunTasksAndScaleUp(
            DriverRefreshJob([driver EXCEPT !.jobs[j] = AcceptJob], j))
    /\ UNCHANGED <<process, running, reports, faults>>

\* Mutant of HandleCleanUpJob: a job is cleaned up again after its end.
HandleCleanUpJobAgain(j) ==
    /\ driver.jobs[j] # NoJob
    /\ driver' = DriverCleanUpJob(driver, j)
    /\ UNCHANGED <<process, running, reports, faults>>

\* The output of the job has ended, or the client has dropped it.
HandleCleanUpJob(j) ==
    /\ \/ driver.jobs[j].state \in {"Draining", "Failed"}
       \/ driver.jobs[j].state = "Running" /\ "client drops output" \in Trouble
    /\ driver' = DriverCleanUpJob(driver, j)
    /\ UNCHANGED <<process, running, reports, faults>>

\* The worker that registers too late gets an error and shuts down.
HandleRegisterWorker(w) ==
    /\ process[w] = "Starting"
    /\ driver.pool[w] # "None"
    /\ IF driver.pool[w] = "Pending"
       THEN /\ driver' \in RunTasks(TrackWorkerActivity([driver EXCEPT
                    !.pool[w] = "Running",
                    !.assigner = ActivateWorker(@, w)], {w}))
            /\ process' = [process EXCEPT ![w] = "Up"]
       ELSE /\ process' = [process EXCEPT ![w] = "Down"]
            /\ UNCHANGED driver
    /\ UNCHANGED <<running, reports, faults>>

Fault(what) == what \in Trouble /\ faults < MaxFaults /\ faults' = faults + 1

\* The worker does not register in time.
HandleProbePendingWorker(w) ==
    /\ driver.pool[w] = "Pending"
    /\ Fault("worker late")
    /\ LET failed == [driver EXCEPT !.pool[w] = "Failed",
                                    !.assigner = TrackWorkerFailedToStart(@)]
       IN  WorkersSuffice(failed) /\ driver' = ScaleUpWorkers(failed)
    /\ UNCHANGED <<process, running, reports>>

\* The latest idle probe of the worker fires; an earlier one does nothing.
HandleProbeIdleWorker(w) ==
    /\ w \in driver.idleProbes
    /\ LET probed == [driver EXCEPT !.idleProbes = @ \ {w}]
       IN  driver' = IF IsWorkerIdle(driver.assigner, w) /\ w \in Running(driver)
                     THEN [StopWorker(probed, w) EXCEPT !.assigner = DeactivateWorker(@, w)]
                     ELSE probed
    /\ UNCHANGED <<process, running, reports, faults>>

\* The heartbeats of the worker are late, or it is gone: its attempts fail, and
\* the jobs they belong to are refreshed.
HandleProbeLostWorker(w) ==
    /\ driver.pool[w] = "Running"
    /\ IF process[w] = "Down" THEN UNCHANGED faults ELSE Fault("worker lost")
    /\ LET keys == FindWorkerTasks(driver.assigner, w)
           lost == UpdateJobTasks([StopWorker(driver, w) EXCEPT
                        !.idleProbes = @ \ {w},
                        !.assigner = DeactivateWorker(@, w)], keys, "Failed")
       IN  driver' \in RefreshJobs(lost)[{k[1] : k \in keys}]
    /\ UNCHANGED <<process, running, reports>>

\* A status in the mailbox, which has no sequence number.  The monitor of a
\* task on the driver sends Running before the outcome.
HandleMail(m) ==
    /\ m.status # "Running" =>
            [key |-> m.key, status |-> "Running"] \notin driver.mail
    /\ driver' \in HandleUpdateTask([driver EXCEPT !.mail = @ \ {m}], m.key, m.status)
    /\ UNCHANGED <<process, running, reports, faults>>

\* A report of a worker; it is sent again if the response is lost.
HandleReport(r) ==
    /\ \/ reports' = reports \ {r} /\ UNCHANGED faults
       \/ reports' = reports /\ Fault("report resent")
    /\ IF Sequence(r.status) <= driver.sequences[r.key]
       THEN UNCHANGED driver
       ELSE driver' \in HandleUpdateTask(
                [driver EXCEPT !.sequences[r.key] = Sequence(r.status)], r.key, r.status)
    /\ UNCHANGED <<process, running>>

HandleProbePendingTask(k) ==
    /\ "launch timeout" \in Trouble /\ k \in driver.taskProbes
    /\ AttemptState(driver, k) = "Created"
    /\ driver' = [driver EXCEPT !.taskProbes = @ \ {k}, !.mail = @ \cup Mail({k}, "Failed")]
    /\ UNCHANGED <<process, running, reports, faults>>

\* A task on the driver ends.
DriverTaskEnds(k, status) ==
    /\ k \in driver.running
    /\ driver' = [driver EXCEPT !.running = @ \ {k}, !.mail = @ \cup Mail({k}, status)]
    /\ UNCHANGED <<process, running, reports, faults>>
-----------------------------------------------------------------------------
(* The workers and the network.                                            *)

Answered(c) == [driver EXCEPT !.calls = @ \ {c}]

\* A worker gets a RunTask call.  It runs the attempt, or finds that its plan
\* cannot be executed.  The call may fail for the driver although the worker
\* has got it.
WorkerRunTask(c, answered) ==
    /\ c.type = "RunTask" /\ process[c.worker] = "Up"
    /\ \/ /\ running' = [running EXCEPT ![c.worker] = @ \cup {c.key}]
          /\ reports' = reports \cup Mail({c.key}, "Running")
       \/ /\ "task fails" \in Trouble
          /\ reports' = reports \cup Mail({c.key}, "Failed")
          /\ UNCHANGED running
    /\ IF answered
       THEN driver' = Answered(c) /\ UNCHANGED faults
       ELSE driver' = [Answered(c) EXCEPT !.mail = @ \cup Mail({c.key}, "Failed")] /\ Fault("call fails")
    /\ UNCHANGED process

\* The RunTask call does not reach the worker.
LoseRunTask(c) ==
    /\ c.type = "RunTask"
    /\ driver' = [Answered(c) EXCEPT !.mail = @ \cup Mail({c.key}, "Failed")]
    /\ IF process[c.worker] = "Down" THEN UNCHANGED faults ELSE Fault("call fails")
    /\ UNCHANGED <<process, running, reports>>

\* A StopTask call before the RunTask call of the attempt, or after the attempt
\* has ended, does nothing.
WorkerStopTask(c) ==
    /\ c.type = "StopTask" /\ process[c.worker] = "Up"
    /\ running' = [running EXCEPT ![c.worker] = @ \ {c.key}]
    /\ reports' = IF c.key \in running[c.worker]
                  THEN reports \cup Mail({c.key}, "Canceled") ELSE reports
    /\ driver' = Answered(c)
    /\ UNCHANGED <<process, faults>>

GoDown(w) ==
    /\ process' = [process EXCEPT ![w] = "Down"]
    /\ running' = [running EXCEPT ![w] = {}]

WorkerStop(c) ==
    /\ c.type = "StopWorker" /\ process[c.worker] = "Up"
    /\ GoDown(c.worker)
    /\ driver' = Answered(c)
    /\ UNCHANGED <<reports, faults>>

\* A StopTask or StopWorker call that fails is logged and forgotten.
LoseStop(c) ==
    /\ c.type \in {"StopTask", "StopWorker"}
    /\ driver' = Answered(c)
    /\ IF process[c.worker] = "Down" THEN UNCHANGED faults ELSE Fault("call fails")
    /\ UNCHANGED <<process, running, reports>>

WorkerTaskEnds(w, k, status) ==
    /\ k \in running[w]
    /\ running' = [running EXCEPT ![w] = @ \ {k}]
    /\ reports' = reports \cup Mail({k}, status)
    /\ UNCHANGED <<driver, process, faults>>

\* A worker crashes, or shuts down because it cannot report a status.
WorkerCrash(w) ==
    /\ process[w] = "Up"
    /\ Fault("worker crashes")
    /\ GoDown(w)
    /\ UNCHANGED <<driver, reports>>

LoseReport(r) ==
    /\ \A w \in AssignedTo(driver.assigner, r.key) : process[w] = "Down"
    /\ reports' = reports \ {r}
    /\ UNCHANGED <<driver, process, running, faults>>
-----------------------------------------------------------------------------
Outcome == {"Succeeded"} \cup (IF "task fails" \in Trouble THEN {"Failed"} ELSE {})

NextWorkerCall(c) ==
    \/ \E answered \in BOOLEAN : WorkerRunTask(c, answered)
    \/ LoseRunTask(c)
    \/ WorkerStopTask(c)
    \/ WorkerStop(c)
    \/ LoseStop(c)

Next ==
    \/ \E j \in Job : HandleExecuteJob(j) \/ HandleCleanUpJob(j)
    \/ \E w \in Worker :
        \/ HandleRegisterWorker(w)
        \/ HandleProbePendingWorker(w)
        \/ HandleProbeIdleWorker(w)
        \/ HandleProbeLostWorker(w)
        \/ WorkerCrash(w)
        \/ \E k \in running[w], status \in Outcome : WorkerTaskEnds(w, k, status)
    \/ \E k \in Key : HandleProbePendingTask(k)
    \/ \E k \in driver.running, status \in Outcome : DriverTaskEnds(k, status)
    \/ \E m \in driver.mail : HandleMail(m)
    \/ \E r \in reports : HandleReport(r) \/ LoseReport(r)
    \/ \E c \in driver.calls : NextWorkerCall(c)

Spec == Init /\ [][Next]_vars
-----------------------------------------------------------------------------
(* Properties.                                                             *)

\* The state of the actor has the types of the Rust structs, and everything
\* that is queued, in a slot or in flight is an attempt that exists.
TypeOK ==
    /\ \A i \in DOMAIN driver.assigner.queue :
            RegionKeys(driver.assigner.queue[i]) \subseteq Key
    /\ driver.assigner.requested \in Nat
    /\ driver.assigner.resource \in [Worker -> {"Absent", "Active", "Inactive"}]
    /\ driver.pool \in [Worker -> {"None", "Pending", "Running", "Completed", "Failed"}]
    /\ driver.idleProbes \subseteq Worker
    /\ driver.mail \subseteq Message /\ reports \subseteq Message
    /\ \A k \in (UNION {driver.assigner.slots[s] : s \in Slot})
                    \cup {m.key : m \in driver.mail \cup reports} :
            AttemptState(driver, k) # "None"
    /\ process \in [Worker -> {"Starting", "Up", "Down"}]
    /\ faults \in 0 .. MaxFaults

\* The task assigner and the worker pool agree on which workers there are; an
\* attempt is in no slot but the one it is assigned to; and a slot is shared
\* only by tasks of different stages of one job, as TaskSlot documents.
SlotsAreSound ==
    LET a == driver.assigner
    IN  /\ \A w \in Worker : a.resource[w] = "Active" <=> driver.pool[w] = "Running"
        /\ \A s \in Slot : \A k \in a.slots[s] :
                /\ a.resource[s[1]] = "Active"
                /\ a.assigned[k] = s
                /\ \A other \in a.slots[s] \ {k} :
                        other[1] = k[1] /\ StageOf[other[2]] # StageOf[k[2]]

\* An occupied slot is always about to be freed: the attempt in it runs, or its
\* launch, its outcome or its failure is on the way to the driver, or the
\* worker is down and will be found lost.  No report is dropped as stale, and
\* no call forgotten, that was the last one to free the slot.
NoSlotLeaks ==
    LET ended == Mail(Key, "Succeeded") \cup Mail(Key, "Failed")
        inMail == {m.key : m \in driver.mail \cap ended}
        reported == {r.key : r \in {x \in reports \cap ended :
                                        Sequence(x.status) > driver.sequences[x.key]}}
    IN  /\ \A s \in Slot : \A k \in driver.assigner.slots[s] :
            \/ process[s[1]] = "Down"
            \/ k \in running[s[1]] \cup inMail \cup reported
            \/ Call("RunTask", s[1], k) \in driver.calls
        /\ driver.assigner.driverTasks \subseteq driver.running \cup inMail

\* assign_tasks waits for the requested workers, so there must always be as many
\* pending workers: each of them registers or times out, and brings the count
\* down ("the count always reaches 0").
RequestedWorkersArePending ==
    driver.assigner.requested <= Cardinality({w \in Worker : driver.pool[w] = "Pending"})

\* "Each task attempt can only be assigned once throughout its lifetime": the
\* queue holds no attempt twice, and a step never assigns an attempt again.
AssignedOnce ==
    [][\A k \in Key :
        driver.assigner.assigned[k] # Unassigned =>
            driver'.assigner.assigned[k] = driver.assigner.assigned[k]]_vars

\* From the moment a job is accepted, the driver changes it only as JobLifecycle
\* allows: Driver implements JobLifecycle for each of its jobs.
JobsFollowScheduler ==
    [][\A j \in Job :
        IF driver.jobs[j] = NoJob
        THEN driver'.jobs[j] = NoJob \/ (Scheduler(j)!LifecycleInit)'
        ELSE Scheduler(j)!LifecycleNext \/ driver'.jobs[j] = driver.jobs[j]]_vars

\* A worker that is stopped because it is idle has no output that anyone may
\* still read: neither of an attempt that runs, nor of the latest attempt of a
\* task whose stage is active.
IdleWorkersAreNotNeeded ==
    [][\A w \in Worker, k \in Key :
        /\ IsWorkerIdle(driver.assigner, w)
        /\ driver.pool[w] = "Running" /\ driver'.pool[w] = "Completed"
        /\ w \in AssignedTo(driver.assigner, k)
        /\ driver.jobs[k[1]].state \in {"Running", "Draining"}
        => \/ k[3] # driver.jobs[k[1]].len[k[2]]
           \/ driver.jobs[k[1]].stages[StageOf[k[2]]] = "Inactive"
           \/ AttemptState(driver, k) \in {"Failed", "Canceled"}]_vars
-----------------------------------------------------------------------------
(* Progress.  The mailbox of the actor and its timers are served, calls    *)
(* and reports arrive or fail, a task that runs ends, a worker that is     *)
(* started registers or is found late, a worker that is down is found      *)
(* lost, and the client reads the output of a job to its end.              *)

Served ==
    \/ \E m \in driver.mail : HandleMail(m)
    \/ \E r \in reports : HandleReport(r) \/ LoseReport(r)
    \/ \E k \in driver.running, status \in Outcome : DriverTaskEnds(k, status)

Delivered == \E c \in driver.calls : NextWorkerCall(c)

Worked == \E w \in Worker : \E k \in running[w], status \in Outcome : WorkerTaskEnds(w, k, status)

Started == \E w \in Worker : HandleRegisterWorker(w) \/ HandleProbePendingWorker(w)

FoundLost == \E w \in Worker : process[w] = "Down" /\ HandleProbeLostWorker(w)

TimedOut ==
    \/ \E k \in Key : HandleProbePendingTask(k)
    \/ \E w \in Worker : HandleProbeIdleWorker(w)

ProbeIsDue ==
    \/ driver.idleProbes # {}
    \/ /\ "launch timeout" \in Trouble
       /\ \E k \in driver.taskProbes : AttemptState(driver, k) = "Created"

OutputRead == \E j \in Job : driver.jobs[j].state \in {"Draining", "Failed"} /\ HandleCleanUpJob(j)

\* Weak fairness of these steps; for those whose ENABLED is costly to evaluate,
\* the condition under which they can be taken is written out.
Fairness ==
    /\ \/ []<>(driver.mail = {} /\ reports = {} /\ driver.running = {})
       \/ []<><<Served>>_vars
    /\ []<>(driver.calls = {}) \/ []<><<Delivered>>_vars
    /\ WF_vars(Worked)
    /\ \/ []<>(\A w \in Worker : process[w] # "Starting" \/ driver.pool[w] = "None")
       \/ []<><<Started>>_vars
    /\ \/ []<>(\A w \in Worker : ~(process[w] = "Down" /\ driver.pool[w] = "Running"))
       \/ []<><<FoundLost>>_vars
    /\ []<>~ProbeIsDue \/ []<><<TimedOut>>_vars
    /\ []<>(\A j \in Job : driver.jobs[j].state \notin {"Draining", "Failed"}) \/ []<><<OutputRead>>_vars

FairSpec == Spec /\ Fairness

Accepted(j) == driver.jobs[j] # NoJob

\* Every job that is accepted ends: no loss, crash, timeout or cancellation
\* leaves it waiting for an attempt that is never reported or never placed.
EveryJobEnds == \A j \in Job : Accepted(j) ~> driver.jobs[j].state \in {"Succeeded", "Canceled"}

\* Where the only troubles are lost calls, reports that are sent twice and
\* workers that are taken for lost, and there are fewer of them than attempts,
\* every job succeeds: each trouble uses up at most one attempt.
JobsSurviveFaults == \A j \in Job : Accepted(j) ~> driver.jobs[j].state = "Succeeded"
=============================================================================
