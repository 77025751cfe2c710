------------------------ MODULE DriverActorInvariant ------------------------
(***************************************************************************)
(* The invariant of the driver actor and the relation between its states   *)
(* before and after an operation, with the statements of what the          *)
(* operations do, for the proofs about them.                               *)
(*                                                                         *)
(* The invariant Good and the relation Leads are stated of records and not *)
(* of the variable: each operation that the handlers chain keeps Good and  *)
(* takes a state to one it leads to, and Leads is transitive.              *)
(***************************************************************************)
EXTENDS DriverActor, JobSchedulerInvariant, TaskAssignerInvariant

-----------------------------------------------------------------------------
(* The types.                                                              *)

PoolState == {"None", "Pending", "Running", "Completed", "Failed"}

Calls ==
    [type : {"RunTask", "StopTask"}, worker : Worker, key : Key]
        \cup [type : {"StopWorker"}, worker : Worker]

JobValue == {NoJob} \cup UNION {JobDescriptor(len) : len \in [Task -> Nat]}

DriverRecord ==
    [jobs : [Job -> JobValue],
     assigner : TaskAssigner,
     pool : [Worker -> PoolState],
     idleProbes : SUBSET Worker,
     taskProbes : SUBSET Key,
     sequences : [Key -> 0 .. 2],
     running : SUBSET Key,
     mail : SUBSET Message,
     calls : SUBSET Calls]
-----------------------------------------------------------------------------
(* What is known of an attempt.                                            *)

\* The attempt is one of its job.
Exists(jobs, k) == jobs[k[1]] # NoJob /\ <<k[2], k[3]>> \in Keys(jobs[k[1]])

StateOf(jobs, k) == jobs[k[1]].attempts[<<k[2], k[3]>>]

\* The attempt has been given to a worker or to the driver, and is in no slot.
Gone(a, k) == a.assigned[k] # Unassigned /\ \A s \in Slot : k \notin a.slots[s]

\* The attempt has been placed, and the scheduler knows that.
Launched(d, k) ==
    /\ Exists(d.jobs, k) /\ StateOf(d.jobs, k) # "Created"
    /\ d.assigner.assigned[k] # Unassigned

\* The driver has canceled the attempt.
Dropped(d, k) ==
    /\ Exists(d.jobs, k) /\ Gone(d.assigner, k)
    /\ StateOf(d.jobs, k) = "Canceled" \/ d.jobs[k[1]].state \in {"Succeeded", "Canceled"}
-----------------------------------------------------------------------------
(* The invariant of the actor.                                             *)

JobsSound(d) == \A j \in Job : d.jobs[j] # NoJob => Inv(d.jobs[j])

Pending(d) == {w \in Worker : d.pool[w] = "Pending"}

\* The task assigner and the worker pool agree.
PoolSound(d) ==
    /\ \A w \in Worker :
        /\ d.assigner.resource[w] = "Active" <=> d.pool[w] = "Running"
        /\ d.pool[w] \in {"None", "Pending", "Failed"} => d.assigner.resource[w] = "Absent"
    /\ d.assigner.requested <= Cardinality(Pending(d))

QueueSound(d) ==
    LET queue == d.assigner.queue
    IN  /\ Orderly(queue)
        /\ \A i \in DOMAIN queue : \A k \in RegionKeys(queue[i]) :
                Exists(d.jobs, k) /\ d.assigner.assigned[k] = Unassigned

SlotSound(d) ==
    LET a == d.assigner
    IN  /\ \A s \in Slot :
            /\ Shareable(a.slots[s])
            /\ \A k \in a.slots[s] : a.assigned[k] = s /\ a.resource[s[1]] = "Active"
        /\ \A k \in a.driverTasks : a.assigned[k] = OnDriver
        /\ \A k \in Key : a.assigned[k] # Unassigned => Exists(d.jobs, k)
        /\ \A k \in Key, s \in Slot : a.assigned[k] = s => a.resource[s[1]] # "Absent"

\* A worker keeps the output of an attempt until its stage is inactive.
StreamsSound(d) ==
    \A k \in Key, s \in Slot :
        d.assigner.assigned[k] = s /\ d.assigner.resource[s[1]] = "Active" =>
            \/ k \in d.assigner.streams[s[1]]
            \/ d.jobs[k[1]].stages[StageOf[k[2]]] = "Inactive"

FlightSound(d) ==
    /\ \A k \in d.running : Launched(d, k) /\ d.assigner.assigned[k] = OnDriver
    /\ \A m \in d.mail :
        /\ Exists(d.jobs, m.key)
        /\ m.status \in {"Running", "Succeeded"} => Launched(d, m.key)
        /\ m.status = "Canceled" => Dropped(d, m.key)
    /\ \A c \in d.calls :
        /\ c.type = "RunTask" => Launched(d, c.key)
        /\ c.type = "StopTask" => Dropped(d, c.key)
    /\ \A k \in d.taskProbes : Exists(d.jobs, k)

Sound(d) ==
    /\ JobsSound(d) /\ PoolSound(d)
    /\ QueueSound(d) /\ SlotSound(d) /\ StreamsSound(d)
    /\ FlightSound(d)

Good(d) == d \in DriverRecord /\ Sound(d)
-----------------------------------------------------------------------------
(* What an operation on the state of the actor may do to it.               *)

JobsPersist(jobs, next) ==
    \A j \in Job : jobs[j] # NoJob => next[j] # NoJob /\ Persists(jobs[j], next[j])

InMail(d, k, status) == [key |-> k, status |-> status] \in d.mail

\* The driver forgets no attempt and no message, an attempt keeps its slot for
\* good, and one that gets a slot is on its way to the worker or has failed.
Leads(d, e) ==
    /\ JobsPersist(d.jobs, e.jobs)
    /\ \A k \in Key :
        d.assigner.assigned[k] # Unassigned => e.assigner.assigned[k] = d.assigner.assigned[k]
    /\ \A s \in Slot : \A k \in e.assigner.slots[s] :
        \/ k \in d.assigner.slots[s]
        \/ /\ d.assigner.assigned[k] = Unassigned
           /\ Call("RunTask", s[1], k) \in e.calls \/ InMail(e, k, "Failed")
    /\ \A k \in e.assigner.driverTasks :
        \/ k \in d.assigner.driverTasks /\ k \notin d.running
        \/ k \in e.running \/ InMail(e, k, "Failed")
    /\ d.calls \subseteq e.calls /\ d.mail \subseteq e.mail /\ e.sequences = d.sequences

\* What run_tasks tells the scheduler: attempts of running jobs, that had been
\* queued, are scheduled.
Schedules(d, e) ==
    \E keys \in SUBSET Key :
        /\ e.jobs = UpdatedJobs(d.jobs, keys, "Scheduled")
        /\ \A k \in keys : /\ Exists(d.jobs, k) /\ d.jobs[k[1]].state = "Running"
                           /\ d.assigner.assigned[k] = Unassigned

\* Whatever slot the attempt k is in, it is about to leave it.
Leaves(e, k) ==
    /\ \A s \in Slot : k \in e.assigner.slots[s] =>
            Call("RunTask", s[1], k) \in e.calls \/ InMail(e, k, "Failed")
    /\ k \in e.assigner.driverTasks => k \in e.running \/ InMail(e, k, "Failed")

\* What handle_update_task does to the jobs.
UpdatesJobs(d, e, k, status) ==
    LET updated == UpdatedJobs(d.jobs, {k}, status)
        refreshed == [updated EXCEPT ![k[1]] = RefreshJob(updated[k[1]])]
    IN  \/ status = "Canceled" /\ e.jobs = updated
        \/ status = "Running" /\ e.jobs = refreshed
        \/ status \in {"Succeeded", "Failed"} /\ \E x : Good(x) /\ x.jobs = refreshed /\ Schedules(x, e)

\* What run_tasks may do to the jobs.
JobsForward(jobs, next) ==
    \A j \in Job : IF jobs[j] = NoJob THEN next[j] = NoJob ELSE Forward(jobs[j], next[j])

\* Some jobs have been refreshed, and attempts of any jobs launched.
JobsRefreshed(jobs, next, refreshed) ==
    \A j \in Job :
        IF jobs[j] = NoJob THEN next[j] = NoJob
        ELSE IF j \in refreshed THEN Forward(RefreshJob(jobs[j]), next[j])
        ELSE Forward(jobs[j], next[j])
-----------------------------------------------------------------------------
(* What the proofs about the operations take from JobProofs: the methods   *)
(* of the scheduler and of the task assigner.                              *)

Laws == SetLaws /\ SchedulerLaws /\ AssignerLaws
-----------------------------------------------------------------------------
(* What the proofs about the steps of the driver take from                 *)
(* DriverActorProofs, where each has a lemma.                              *)

JobValueLaw ==
    /\ \A x : Inv(x) => x \in JobValue /\ x # NoJob
    /\ \A x \in JobValue : x # NoJob => DescriptorOK(x)

AttemptKeyLaw ==
    /\ \A k \in Key : /\ k[1] \in Job /\ k[2] \in Task /\ k[3] \in 1 .. AttemptLimit
                      /\ k = <<k[1], k[2], k[3]>> /\ StageOf[k[2]] \in Stage
    /\ \A j \in Job, t \in Task, n \in 1 .. AttemptLimit : <<j, t, n>> \in Key

SlotLaw ==
    /\ \A s \in Slot : s[1] \in Worker /\ s[2] \in 1 .. WorkerTaskSlots /\ s = <<s[1], s[2]>>
    /\ \A w \in Worker, i \in 1 .. WorkerTaskSlots : <<w, i>> \in Slot
    /\ Unassigned \notin Slot /\ OnDriver \notin Slot /\ Unassigned # OnDriver

FieldLaw ==
    \A d \in DriverRecord :
        /\ d.jobs \in [Job -> JobValue] /\ d.assigner \in TaskAssigner
        /\ d.pool \in [Worker -> PoolState] /\ d.idleProbes \subseteq Worker
        /\ d.taskProbes \subseteq Key /\ d.sequences \in [Key -> 0 .. 2]
        /\ d.running \subseteq Key /\ d.mail \subseteq Message /\ d.calls \subseteq Calls
        /\ d.assigner.slots \in [Slot -> SUBSET Key] /\ d.assigner.driverTasks \subseteq Key
        /\ d.assigner.assigned \in [Key -> Slot \cup {Unassigned, OnDriver}]
        /\ \A m \in d.mail : m.key \in Key /\ m.status \in Status
        /\ \A c \in d.calls : c.type \in {"RunTask", "StopTask"} => c.key \in Key

LeadsKeepsLaw ==
    \A d, e \in DriverRecord : Leads(d, e) => \A k \in Key :
        /\ Exists(d.jobs, k) => Exists(e.jobs, k)
        /\ Gone(d.assigner, k) => Gone(e.assigner, k)
        /\ Launched(d, k) => Launched(e, k)
        /\ Dropped(d, k) => Dropped(e, k)

LeadsTransitiveLaw ==
    \A d, e, f \in DriverRecord : Leads(d, e) /\ Leads(e, f) => Leads(d, f)

RestStaysSoundLaw ==
    \A d, e \in DriverRecord : JobsPersist(d.jobs, e.jobs) /\ Sound(d) =>
        LET a == d.assigner
            b == e.assigner
        IN  /\ e.pool = d.pool /\ b.resource = a.resource /\ b.requested = a.requested =>
                 PoolSound(e)
            /\ b.queue = a.queue /\ b.assigned = a.assigned => QueueSound(e)
            /\ b.resource = a.resource /\ b.slots = a.slots
                 /\ b.driverTasks = a.driverTasks /\ b.assigned = a.assigned => SlotSound(e)
            /\ b.resource = a.resource /\ b.streams = a.streams
                 /\ b.assigned = a.assigned => StreamsSound(e)

LeadsByLossLaw ==
    \A d, e \in DriverRecord :
        /\ JobsPersist(d.jobs, e.jobs)
        /\ e.assigner.assigned = d.assigner.assigned
        /\ \A s \in Slot : e.assigner.slots[s] \subseteq d.assigner.slots[s]
        /\ e.assigner.driverTasks \subseteq d.assigner.driverTasks
        /\ e.assigner.driverTasks \cap d.running \subseteq e.running
        /\ d.calls \subseteq e.calls /\ d.mail \subseteq e.mail /\ e.sequences = d.sequences
        => Leads(d, e)

SameJobsPersistLaw ==
    \A jobs : JobsPersist(jobs, jobs)

JobsChangeLaw ==
    \A d : Good(d) => \A e \in DriverRecord :
        /\ JobsSound(e) /\ JobsPersist(d.jobs, e.jobs)
        /\ e.assigner = d.assigner /\ e.pool = d.pool /\ e.taskProbes = d.taskProbes
        /\ e.sequences = d.sequences /\ e.running = d.running
        /\ e.mail = d.mail /\ e.calls = d.calls
        => Good(e) /\ Leads(d, e)

TrackLaw ==
    \A d \in DriverRecord : \A workers :
        LET e == TrackWorkerActivity(d, workers)
        IN  /\ e \in DriverRecord
            /\ e.jobs = d.jobs /\ e.assigner = d.assigner /\ e.pool = d.pool
            /\ e.taskProbes = d.taskProbes /\ e.sequences = d.sequences
            /\ e.running = d.running /\ e.mail = d.mail /\ e.calls = d.calls

TrackGoodLaw ==
    \A d : Good(d) => \A workers :
        Good(TrackWorkerActivity(d, workers)) /\ Leads(d, TrackWorkerActivity(d, workers))

AssignedToLaw ==
    \A a \in TaskAssigner, k \in Key :
        /\ AssignedTo(a, k) \subseteq Worker
        /\ \A w \in AssignedTo(a, k) : a.assigned[k] \in Slot /\ a.assigned[k][1] = w
        /\ \A s \in Slot : a.assigned[k] = s => s[1] \in AssignedTo(a, k)
        /\ a.assigned[k] = OnDriver \/ a.assigned[k] = Unassigned => AssignedTo(a, k) = {}

JobChangeLaw ==
    \A d : Good(d) => \A j \in Job : \A x :
      Inv(x) /\ (d.jobs[j] = NoJob \/ Persists(d.jobs[j], x)) =>
        LET e == [d EXCEPT !.jobs[j] = x]
        IN  /\ Good(e) /\ Leads(d, e)
            /\ e.jobs = [d.jobs EXCEPT ![j] = x] /\ e.jobs[j] = x
            /\ e.assigner = d.assigner

RefreshGoodLaw ==
    \A d : Good(d) => \A j \in Job : d.jobs[j] # NoJob =>
        LET e == DriverRefreshJob(d, j)
        IN  /\ Good(e) /\ Leads(d, e)
            /\ e.jobs = [d.jobs EXCEPT ![j] = RefreshJob(d.jobs[j])]

CleanUpGoodLaw ==
    \A d : Good(d) => \A j \in Job :
      d.jobs[j] # NoJob /\ d.jobs[j].state \notin {"Succeeded", "Canceled"} =>
        LET e == DriverCleanUpJob(d, j)
        IN  /\ Good(e) /\ Leads(d, e)
            /\ e.jobs = [d.jobs EXCEPT ![j] = CleanUpJob(d.jobs[j])]

UpdateGoodLaw ==
    \A d : Good(d) => \A keys \in SUBSET Key, s \in TaskState : s # "Created" =>
        LET e == UpdateJobTasks(d, keys, s)
        IN  /\ Good(e) /\ Leads(d, e)
            /\ e.jobs = UpdatedJobs(d.jobs, keys, s) /\ e.assigner = d.assigner

ScaleUpGoodLaw ==
    \A d : Good(d) /\ WorkersSuffice(d) =>
        LET e == ScaleUpWorkers(d)
        IN  /\ Good(e) /\ Leads(d, e) /\ e.jobs = d.jobs

RunGoodLaw ==
    \A d : Good(d) =>
        /\ \A e \in RunTasks(d) : Good(e) /\ Leads(d, e) /\ Schedules(d, e)
        /\ \A e \in RunTasksAndScaleUp(d) : Good(e) /\ Leads(d, e) /\ Schedules(d, e)

RegisterGoodLaw ==
    \A d : Good(d) => \A w \in Worker : d.pool[w] = "Pending" =>
        LET e == [d EXCEPT !.pool[w] = "Running", !.assigner = ActivateWorker(@, w)]
        IN  Good(e) /\ Leads(d, e) /\ e.jobs = d.jobs

FailedToStartGoodLaw ==
    \A d : Good(d) => \A w \in Worker : d.pool[w] = "Pending" =>
        LET e == [d EXCEPT !.pool[w] = "Failed", !.assigner = TrackWorkerFailedToStart(@)]
        IN  Good(e) /\ Leads(d, e) /\ e.jobs = d.jobs

DeactivateGoodLaw ==
    \A d : Good(d) => \A w \in Running(d), probes \in SUBSET Worker :
        LET e == [StopWorker(d, w) EXCEPT !.idleProbes = probes,
                                          !.assigner = DeactivateWorker(@, w)]
        IN  /\ Good(e) /\ Leads(d, e) /\ e.jobs = d.jobs
            /\ \A k \in FindWorkerTasks(d.assigner, w) : Gone(e.assigner, k)

UpdateTaskGoodLaw ==
    \A d : Good(d) => \A k \in Key : Exists(d.jobs, k) =>
      \A status \in Status : \A e \in HandleUpdateTask(d, k, status) :
        /\ Good(e) /\ Leads(d, e) /\ UpdatesJobs(d, e, k, status)
        /\ status \in {"Succeeded", "Failed"} =>
             Leaves(e, k) /\ (d.assigner.assigned[k] # Unassigned => Gone(e.assigner, k))

SchedulesForwardLaw ==
    \A d : Good(d) => \A e : Schedules(d, e) =>
        JobsForward(d.jobs, e.jobs)

RefreshJobsGoodLaw ==
    \A d : Good(d) => \A jobs \in SUBSET Job : (\A j \in jobs : d.jobs[j] # NoJob) =>
      \A last \in RefreshJobs(d)[jobs] :
        Good(last) /\ Leads(d, last) /\ JobsRefreshed(d.jobs, last.jobs, jobs)

ActorLaws ==
    /\ Laws
    /\ JobValueLaw /\ AttemptKeyLaw /\ SlotLaw /\ FieldLaw /\ LeadsKeepsLaw
    /\ LeadsTransitiveLaw /\ RestStaysSoundLaw /\ LeadsByLossLaw /\ SameJobsPersistLaw
    /\ JobsChangeLaw /\ TrackLaw /\ TrackGoodLaw /\ AssignedToLaw /\ JobChangeLaw
    /\ RefreshGoodLaw /\ CleanUpGoodLaw /\ UpdateGoodLaw /\ ScaleUpGoodLaw /\ RunGoodLaw
    /\ RegisterGoodLaw /\ FailedToStartGoodLaw /\ DeactivateGoodLaw /\ UpdateTaskGoodLaw
    /\ SchedulesForwardLaw /\ RefreshJobsGoodLaw
=============================================================================
