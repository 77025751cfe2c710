---------------------------- MODULE DriverStepProofs ----------------------------
(***************************************************************************)
(* Proofs about the steps of module Driver, for every set of jobs, job     *)
(* graph, number of workers and limit.                                     *)
(*                                                                         *)
(* The invariant of the system is that of the actor (DriverActorInvariant) *)
(* and what holds between the actor, the workers and the network.  There   *)
(* is a lemma for each step.                                               *)
(***************************************************************************)
EXTENDS Driver, DriverActorInvariant, TLAPS

\* The assigner that the driver starts with has no task and no worker.
LEMMA NewAssigner ==
    /\ NewTaskAssigner \in TaskAssigner /\ NewTaskAssigner.requested = 0
    /\ NewTaskAssigner.queue = << >> /\ DOMAIN NewTaskAssigner.queue = {}
    /\ NewTaskAssigner.driverTasks = {}
    /\ \A w \in Worker : NewTaskAssigner.resource[w] = "Absent"
    /\ \A s \in Slot : NewTaskAssigner.slots[s] = {}
    /\ \A k \in Key : NewTaskAssigner.assigned[k] = Unassigned
  <1> DEFINE resource == [w \in Worker |-> "Absent"]
             slots == [s \in Slot |-> {}]
             streams == [w \in Worker |-> {}]
             assigned == [k \in Key |-> Unassigned]
  <1>1. resource \in [Worker -> {"Absent", "Active", "Inactive"}] /\ \A w \in Worker : resource[w] = "Absent"
    BY Zenon
  <1>2. slots \in [Slot -> SUBSET Key] /\ \A s \in Slot : slots[s] = {}
    BY Zenon
  <1>3. streams \in [Worker -> SUBSET Key]
    BY Zenon
  <1>4. assigned \in [Key -> Slot \cup {Unassigned, OnDriver}] /\ \A k \in Key : assigned[k] = Unassigned
    BY Zenon
  <1> << >> \in Seq(TaskRegion) /\ DOMAIN << >> = {}
    OBVIOUS
  <1> HIDE DEF resource, slots, streams, assigned
  <1> NewTaskAssigner = [queue |-> << >>, requested |-> 0, resource |-> resource, slots |-> slots,
                         streams |-> streams, driverTasks |-> {}, driverStreams |-> {},
                         assigned |-> assigned]
    BY Zenon DEF NewTaskAssigner, resource, slots, streams, assigned
  <1>7. QED
    BY <1>1, <1>2, <1>3, <1>4, Zenon DEF TaskAssigner

-----------------------------------------------------------------------------
(* The invariant of the system.                                            *)

\* An outcome of the attempt is among the messages.
Ends(messages, k) ==
    \E status \in {"Succeeded", "Failed"} : [key |-> k, status |-> status] \in messages

\* What the workers run and report has been launched.
Carried(d, run, rep) ==
    /\ \A w \in Worker : \A k \in run[w] : Launched(d, k)
    /\ \A r \in rep : Launched(d, r.key) /\ (r.status = "Canceled" => Dropped(d, r.key))

\* The last report of an attempt finds it in no slot ever after.  The attempts
\* of a handler's own message are excepted until the handler is done.
Settled(d, but) ==
    \A k \in Key \ but : d.sequences[k] = 2 => Gone(d.assigner, k)

\* Someone is about to free every slot.
Watched(d, proc, run, rep, but) ==
    /\ \A s \in Slot : \A k \in d.assigner.slots[s] \ but :
        \/ proc[s[1]] = "Down" \/ k \in run[s[1]]
        \/ Ends(d.mail, k) \/ Ends(rep, k)
        \/ Call("RunTask", s[1], k) \in d.calls
    /\ \A k \in d.assigner.driverTasks \ but : k \in d.running \/ Ends(d.mail, k)

SystemTyped(proc, run, rep, n) ==
    /\ proc \in [Worker -> {"Starting", "Up", "Down"}]
    /\ run \in [Worker -> SUBSET Key]
    /\ rep \subseteq Message
    /\ n \in 0 .. MaxFaults

SystemSound(d, proc, run, rep, n) ==
    /\ Good(d)
    /\ SystemTyped(proc, run, rep, n)
    /\ Carried(d, run, rep)
    /\ Settled(d, {})
    /\ Watched(d, proc, run, rep, {})

SystemInv == SystemSound(driver, process, running, reports, faults)

\* What AssignedOnce says of a step.
KeepsAssigned(d, e) ==
    \A k \in Key :
        d.assigner.assigned[k] # Unassigned => e.assigner.assigned[k] = d.assigner.assigned[k]

\* What holds of the workers and the network holds after an operation of the
\* actor.
LEMMA LedSystem ==
    ASSUME ActorLaws, NEW d \in DriverRecord, NEW e \in DriverRecord, Leads(d, e),
           NEW proc, NEW run \in [Worker -> SUBSET Key], NEW rep \in SUBSET Message,
           NEW but
    PROVE  /\ Carried(d, run, rep) => Carried(e, run, rep)
           /\ Settled(d, but) /\ (\A k \in but : e.sequences[k] = 2 => Gone(e.assigner, k)) =>
                Settled(e, {})
           /\ Watched(d, proc, run, rep, but) /\ (\A k \in but : Leaves(e, k)) =>
                Watched(e, proc, run, rep, {})
  <1>1. \A k \in Key : /\ Gone(d.assigner, k) => Gone(e.assigner, k)
                       /\ Launched(d, k) => Launched(e, k)
                       /\ Dropped(d, k) => Dropped(e, k)
    BY Zenon DEF ActorLaws, LeadsKeepsLaw
  <1>2. /\ \A w \in Worker : run[w] \subseteq Key
        /\ \A r \in rep : r.key \in Key
    BY Zenon DEF Message
  <1>3. Carried(d, run, rep) => Carried(e, run, rep)
    BY <1>1, <1>2, Zenon DEF Carried
  <1>4. e.sequences = d.sequences /\ d.calls \subseteq e.calls /\ d.mail \subseteq e.mail
    BY Zenon DEF Leads
  <1>5. Settled(d, but) /\ (\A k \in but : e.sequences[k] = 2 => Gone(e.assigner, k)) =>
            Settled(e, {})
    BY <1>1, <1>4, Zenon DEF Settled
  <1> \A k : /\ Ends(d.mail, k) => Ends(e.mail, k)
             /\ InMail(e, k, "Failed") => Ends(e.mail, k)
    BY <1>4, Zenon DEF Ends, InMail
  <1>7. ASSUME Watched(d, proc, run, rep, but), \A k \in but : Leaves(e, k)
        PROVE  Watched(e, proc, run, rep, {})
    <2>1. ASSUME NEW s \in Slot, NEW k \in e.assigner.slots[s]
          PROVE  \/ proc[s[1]] = "Down" \/ k \in run[s[1]]
                 \/ Ends(e.mail, k) \/ Ends(rep, k)
                 \/ Call("RunTask", s[1], k) \in e.calls
      <3>1. CASE k \in but
        BY <1>7, <3>1, Zenon DEF Leaves
      <3>2. CASE k \notin but /\ k \in d.assigner.slots[s]
        BY <1>4, <1>7, <3>2, Zenon DEF Watched
      <3>3. CASE k \notin d.assigner.slots[s]
        BY <3>3, Zenon DEF Leads
      <3>4. QED
        BY <3>1, <3>2, <3>3, Zenon
    <2> ASSUME NEW k \in e.assigner.driverTasks
        PROVE  k \in e.running \/ Ends(e.mail, k)
      <3>1. CASE k \in but
        BY <1>7, <3>1, Zenon DEF Leaves
      <3>2. CASE k \notin but /\ k \in d.assigner.driverTasks /\ k \notin d.running
        BY <1>7, <3>2, Zenon DEF Watched
      <3>3. CASE k \in e.running \/ InMail(e, k, "Failed")
        BY <3>3, Zenon
      <3>4. QED
        BY <3>1, <3>2, <3>3, Zenon DEF Leads
    <2>3. QED
      BY <2>1, Zenon DEF Watched
  <1>8. QED
    BY <1>3, <1>5, <1>7, Zenon

\* A handler that leaves the workers and the network alone.
LEMMA DriverStep ==
    ASSUME ActorLaws, NEW d, NEW e, NEW proc, NEW run, NEW rep, NEW n,
           SystemSound(d, proc, run, rep, n), Good(e), Leads(d, e)
    PROVE  SystemSound(e, proc, run, rep, n) /\ KeepsAssigned(d, e)
  <1>1. d \in DriverRecord /\ e \in DriverRecord
    BY Zenon DEF SystemSound, Good
  <1>2. run \in [Worker -> SUBSET Key] /\ rep \in SUBSET Message
    BY Zenon DEF SystemSound, SystemTyped
  <1> Carried(e, run, rep) /\ Settled(e, {}) /\ Watched(e, proc, run, rep, {})
    BY <1>1, <1>2, LedSystem DEF SystemSound
  <1> KeepsAssigned(d, e)
    BY Zenon DEF KeepsAssigned, Leads
  <1>5. QED
    BY Zenon DEF SystemSound

\* Messages come and go, and nothing else changes.
LEMMA FlightChange ==
    ASSUME ActorLaws, NEW d, Good(d), NEW e \in DriverRecord,
           e.jobs = d.jobs, e.assigner = d.assigner, e.pool = d.pool,
           e.taskProbes \subseteq d.taskProbes, e.running \subseteq d.running,
           e.calls \subseteq d.calls,
           \A m \in e.mail \ d.mail :
                /\ Exists(d.jobs, m.key)
                /\ m.status \in {"Running", "Succeeded"} => Launched(d, m.key)
                /\ m.status = "Canceled" => Dropped(d, m.key)
    PROVE  Good(e) /\ KeepsAssigned(d, e)
  <1> d \in DriverRecord /\ Sound(d) /\ JobsPersist(d.jobs, e.jobs)
    BY Zenon DEF Good, ActorLaws, SameJobsPersistLaw
  <1>2. PoolSound(e) /\ QueueSound(e) /\ SlotSound(e) /\ StreamsSound(e)
    BY Zenon DEF ActorLaws, RestStaysSoundLaw
  <1>3. JobsSound(e)
    BY Zenon DEF Sound, JobsSound
  <1> \A k : /\ Launched(e, k) <=> Launched(d, k)
             /\ Dropped(e, k) <=> Dropped(d, k)
    BY Zenon DEF Launched, Dropped
  <1> FlightSound(e)
    BY Zenon DEF Sound, FlightSound
  <1>6. QED
    BY <1>2, <1>3, Zenon DEF Good, Sound, KeepsAssigned
-----------------------------------------------------------------------------
(* The handlers of the actor.                                              *)

\* Faults are counted up to the bound.
LEMMA FaultStep ==
    ASSUME faults \in 0 .. MaxFaults, NEW what, Fault(what)
    PROVE  faults' \in 0 .. MaxFaults
  <1> MaxFaults \in Nat
    BY DriverAssumption, ZenonT(30)
  <1>2. QED
    BY DEF Fault

\* A job is accepted.
LEMMA ExecuteJobStep ==
    ASSUME ActorLaws, SystemInv, NEW j \in Job, HandleExecuteJob(j)
    PROVE  SystemInv' /\ KeepsAssigned(driver, driver')
  <1> DEFINE d == driver
             accepted == [d EXCEPT !.jobs[j] = AcceptJob]
             refreshed == DriverRefreshJob(accepted, j)
  <1>1. Good(d) /\ d.jobs[j] = NoJob /\ driver' \in RunTasksAndScaleUp(refreshed)
    BY Zenon DEF SystemInv, SystemSound, HandleExecuteJob
  <1>2. Inv(AcceptJob) /\ AcceptJob # NoJob
    BY Zenon DEF ActorLaws, Laws, SchedulerLaws, AcceptLaw, JobValueLaw
  <1>3. Good(accepted) /\ Leads(d, accepted) /\ accepted.jobs[j] = AcceptJob
    BY <1>1, <1>2 DEF ActorLaws, JobChangeLaw
  <1> HIDE DEF accepted
  <1> Good(refreshed) /\ Leads(accepted, refreshed)
    BY <1>2, <1>3, ZenonT(30) DEF ActorLaws, RefreshGoodLaw
  <1> HIDE DEF refreshed
  <1> Good(driver') /\ Leads(refreshed, driver')
    BY <1>1, Zenon DEF ActorLaws, RunGoodLaw
  <1> Leads(d, refreshed)
    BY <1>1, <1>3, Zenon DEF Good, ActorLaws, LeadsTransitiveLaw
  <1> Leads(d, driver')
    BY <1>1, Zenon DEF Good, ActorLaws, LeadsTransitiveLaw
  <1>8. QED
    BY DriverStep, Zenon DEF SystemInv, HandleExecuteJob

\* A job is cleaned up.
LEMMA CleanUpJobStep ==
    ASSUME ActorLaws, SystemInv, NEW j \in Job, HandleCleanUpJob(j)
    PROVE  SystemInv' /\ KeepsAssigned(driver, driver')
  <1>1. Good(driver) /\ driver' = DriverCleanUpJob(driver, j)
    BY Zenon DEF SystemInv, SystemSound, HandleCleanUpJob
  <1>2. driver.jobs[j] # NoJob /\ driver.jobs[j].state \notin {"Succeeded", "Canceled"}
    <2> driver.jobs[j].state \in {"Draining", "Failed", "Running"}
      BY Zenon DEF HandleCleanUpJob
    <2> NoJob.state = "None"
      BY Zenon DEF NoJob
    <2>3. QED
      BY Zenon
  <1> Good(driver') /\ Leads(driver, driver')
    BY <1>1, <1>2, ZenonT(30) DEF ActorLaws, CleanUpGoodLaw
  <1>4. QED
    BY DriverStep, ZenonT(30) DEF SystemInv, HandleCleanUpJob

\* A worker registers in time, and the driver assigns it tasks, or too late.
LEMMA RegisterWorkerStep ==
    ASSUME ActorLaws, SystemInv, NEW w \in Worker, HandleRegisterWorker(w)
    PROVE  SystemInv' /\ KeepsAssigned(driver, driver')
  <1>1. Good(driver) /\ SystemTyped(process, running, reports, faults)
    BY Zenon DEF SystemInv, SystemSound
  <1>2. /\ process[w] = "Starting" /\ UNCHANGED <<running, reports, faults>>
        /\ process' = [process EXCEPT ![w] = "Up"] \/ process' = [process EXCEPT ![w] = "Down"]
    BY Zenon DEF HandleRegisterWorker
  <1>3. Good(driver') /\ Leads(driver, driver')
    <2>1. CASE driver.pool[w] = "Pending"
      <3> DEFINE registered == [driver EXCEPT !.pool[w] = "Running",
                                              !.assigner = ActivateWorker(@, w)]
                 tracked == TrackWorkerActivity(registered, {w})
      <3>1. driver' \in RunTasks(tracked)
        BY <2>1, Zenon DEF HandleRegisterWorker
      <3>2. Good(registered) /\ Leads(driver, registered)
        BY <1>1, <2>1, ZenonT(30) DEF ActorLaws, RegisterGoodLaw
      <3> HIDE DEF registered
      <3> Good(tracked) /\ Leads(registered, tracked)
        BY <3>2, Zenon DEF ActorLaws, TrackGoodLaw
      <3> HIDE DEF tracked
      <3> Good(driver') /\ Leads(tracked, driver')
        BY <3>1, Zenon DEF ActorLaws, RunGoodLaw
      <3> Leads(driver, tracked)
        BY <1>1, <3>2, Zenon DEF Good, ActorLaws, LeadsTransitiveLaw
      <3> Leads(driver, driver')
        BY <1>1, Zenon DEF Good, ActorLaws, LeadsTransitiveLaw
      <3>7. QED
        BY Zenon
    <2>2. CASE driver.pool[w] # "Pending"
      <3>1. driver' = driver
        BY <2>2, Zenon DEF HandleRegisterWorker
      <3> driver \in DriverRecord
        BY <1>1, Zenon DEF Good
      <3> Leads(driver, driver)
        BY Zenon DEF ActorLaws, SameJobsPersistLaw, LeadsByLossLaw
      <3>4. QED
        BY <1>1, <3>1, Zenon
    <2>3. QED
      BY <2>1, <2>2, Zenon
  <1> SystemSound(driver', process, running, reports, faults) /\ KeepsAssigned(driver, driver')
    BY <1>3, DriverStep, Zenon DEF SystemInv
  <1>5. SystemTyped(process', running, reports, faults)
    BY <1>1, <1>2, Zenon DEF SystemTyped
  <1> \A v \in Worker : process[v] = "Down" => process'[v] = "Down"
    BY <1>1, <1>2, Zenon DEF SystemTyped
  <1> Watched(driver', process', running, reports, {})
    BY Zenon DEF SystemSound, Watched, ActorLaws, SlotLaw
  <1>8. QED
    BY <1>2, <1>5, Zenon DEF SystemInv, SystemSound

\* A worker does not register in time.
LEMMA PendingWorkerStep ==
    ASSUME ActorLaws, SystemInv, NEW w \in Worker, HandleProbePendingWorker(w)
    PROVE  SystemInv' /\ KeepsAssigned(driver, driver')
  <1> DEFINE failed == [driver EXCEPT !.pool[w] = "Failed", !.assigner = TrackWorkerFailedToStart(@)]
  <1>1. /\ Good(driver) /\ driver.pool[w] = "Pending"
        /\ WorkersSuffice(failed) /\ driver' = ScaleUpWorkers(failed)
    BY ZenonT(30) DEF SystemInv, SystemSound, HandleProbePendingWorker
  <1>2. Good(failed) /\ Leads(driver, failed)
    BY <1>1, ZenonT(30) DEF ActorLaws, FailedToStartGoodLaw
  <1> HIDE DEF failed
  <1>3. Good(driver') /\ Leads(failed, driver')
    BY <1>1, <1>2, Zenon DEF ActorLaws, ScaleUpGoodLaw
  <1>4. Leads(driver, driver')
    BY <1>1, <1>2, <1>3, Zenon DEF Good, ActorLaws, LeadsTransitiveLaw
  <1>5. /\ SystemSound(driver', process, running, reports, faults) /\ KeepsAssigned(driver, driver')
    BY <1>3, <1>4, DriverStep, Zenon DEF SystemInv
  <1> faults' \in 0 .. MaxFaults
    BY FaultStep, ZenonT(30) DEF SystemInv, SystemSound, SystemTyped, HandleProbePendingWorker
  <1>7. QED
    BY <1>5, ZenonT(30) DEF SystemInv, SystemSound, SystemTyped, HandleProbePendingWorker

\* The idle probe of a worker fires.
LEMMA IdleWorkerStep ==
    ASSUME ActorLaws, SystemInv, NEW w \in Worker, HandleProbeIdleWorker(w)
    PROVE  SystemInv' /\ KeepsAssigned(driver, driver')
  <1> DEFINE probes == driver.idleProbes \ {w}
             probed == [driver EXCEPT !.idleProbes = @ \ {w}]
  <1> Good(driver) /\ driver \in DriverRecord /\ probes \in SUBSET Worker
    BY Zenon DEF SystemInv, SystemSound, Good, ActorLaws, FieldLaw
  <1>2. probed = [driver EXCEPT !.idleProbes = probes]
    BY Zenon
  <1> Good(driver') /\ Leads(driver, driver')
    <2>1. CASE IsWorkerIdle(driver.assigner, w) /\ w \in Running(driver)
      <3> USE <2>1
      <3>1. driver' = [StopWorker(probed, w) EXCEPT !.assigner = DeactivateWorker(@, w)]
        BY Zenon DEF HandleProbeIdleWorker
      <3> driver' = [StopWorker(driver, w) EXCEPT !.idleProbes = probes,
                                                  !.assigner = DeactivateWorker(@, w)]
        BY <3>1, ZenonT(30) DEF StopWorker, Running, DriverRecord
      <3>3. QED
        BY ZenonT(30) DEF ActorLaws, DeactivateGoodLaw
    <2>2. CASE ~ (IsWorkerIdle(driver.assigner, w) /\ w \in Running(driver))
      <3>1. driver' = probed
        BY <2>2, Zenon DEF HandleProbeIdleWorker
      <3> /\ probed \in DriverRecord /\ probed.jobs = driver.jobs
          /\ probed.assigner = driver.assigner /\ probed.pool = driver.pool
          /\ probed.taskProbes = driver.taskProbes /\ probed.sequences = driver.sequences
          /\ probed.running = driver.running /\ probed.mail = driver.mail
          /\ probed.calls = driver.calls
        <4> HIDE DEF probes
        <4>1. QED
          BY <1>2, Zenon DEF DriverRecord
      <3> HIDE DEF probed
      <3> JobsSound(probed) /\ JobsPersist(driver.jobs, probed.jobs)
        BY Zenon DEF Good, Sound, JobsSound, ActorLaws, SameJobsPersistLaw
      <3>4. QED
        BY <3>1, Zenon DEF ActorLaws, JobsChangeLaw
    <2>3. QED
      BY <2>1, <2>2, Zenon
  <1>4. QED
    BY DriverStep, Zenon DEF SystemInv, HandleProbeIdleWorker

\* A worker is lost: its attempts fail, and their jobs are refreshed.
LEMMA LostWorkerStep ==
    ASSUME ActorLaws, SystemInv, NEW w \in Worker, HandleProbeLostWorker(w)
    PROVE  SystemInv' /\ KeepsAssigned(driver, driver')
  <1> DEFINE probes == driver.idleProbes \ {w}
             keys == FindWorkerTasks(driver.assigner, w)
             stopped == [StopWorker(driver, w) EXCEPT !.idleProbes = @ \ {w},
                                                      !.assigner = DeactivateWorker(@, w)]
             lost == UpdateJobTasks(stopped, keys, "Failed")
             jobs == {k[1] : k \in keys}
  <1>1. Good(driver) /\ driver \in DriverRecord /\ probes \in SUBSET Worker
    BY Zenon DEF SystemInv, SystemSound, Good, ActorLaws, FieldLaw
  <1>2. w \in Running(driver) /\ driver' \in RefreshJobs(lost)[jobs]
    BY Zenon DEF Running, HandleProbeLostWorker
  <1>3. stopped = [StopWorker(driver, w) EXCEPT !.idleProbes = probes,
                                                !.assigner = DeactivateWorker(@, w)]
    BY <1>1, <1>2, Zenon DEF StopWorker, Running, DriverRecord
  <1>4. Good(stopped) /\ Leads(driver, stopped) /\ stopped.jobs = driver.jobs
    BY <1>1, <1>2, <1>3, ZenonT(30) DEF ActorLaws, DeactivateGoodLaw
  <1> HIDE DEF stopped
  <1>5. /\ keys \in SUBSET Key
        /\ \A k \in keys : \E s \in Slot : k \in driver.assigner.slots[s]
    BY <1>1 DEF FindWorkerTasks, ActorLaws, FieldLaw
  <1>6. \A k \in keys : Exists(driver.jobs, k)
    <2> SlotSound(driver)
      BY <1>1, Zenon DEF Good, Sound
    <2>2. QED
      BY <1>5 DEF SlotSound, ActorLaws, SlotLaw
  <1> HIDE DEF keys
  <1>7. Good(lost) /\ Leads(stopped, lost)
    BY <1>4, <1>5, Zenon DEF TaskState, ActorLaws, UpdateGoodLaw
  <1>8. Leads(driver, lost)
    BY <1>1, <1>4, <1>7, Zenon DEF Good, ActorLaws, LeadsTransitiveLaw
  <1> HIDE DEF lost
  <1>9. jobs \in SUBSET Job /\ \A j \in jobs : lost.jobs[j] # NoJob
    <2> \A k \in keys : k[1] \in Job /\ driver.jobs[k[1]] # NoJob
      BY <1>5, <1>6, ZenonT(30) DEF Exists, ActorLaws, AttemptKeyLaw
    <2>2. QED
      BY <1>8 DEF Leads, JobsPersist
  <1> HIDE DEF jobs
  <1>10. Good(driver') /\ Leads(lost, driver')
    BY <1>2, <1>7, <1>9, Zenon DEF ActorLaws, RefreshJobsGoodLaw
  <1>11. Leads(driver, driver')
    BY <1>1, <1>7, <1>8, <1>10, Zenon DEF Good, ActorLaws, LeadsTransitiveLaw
  <1>12. SystemSound(driver', process, running, reports, faults) /\ KeepsAssigned(driver, driver')
    BY <1>10, <1>11, DriverStep, Zenon DEF SystemInv
  <1> faults' \in 0 .. MaxFaults
    <2>1. faults \in 0 .. MaxFaults
      BY Zenon DEF SystemInv, SystemSound, SystemTyped
    <2> faults' = faults \/ Fault("worker lost")
      BY ZenonT(30) DEF HandleProbeLostWorker
    <2>3. QED
      BY <2>1, FaultStep, ZenonT(30)
  <1>14. QED
    BY <1>12, ZenonT(30) DEF SystemInv, SystemSound, SystemTyped, HandleProbeLostWorker

\* A status from the mailbox.
LEMMA MailStep ==
    ASSUME ActorLaws, SystemInv, NEW m \in driver.mail, HandleMail(m)
    PROVE  SystemInv' /\ KeepsAssigned(driver, driver')
  <1> DEFINE d == [driver EXCEPT !.mail = @ \ {m}]
             but == IF m.status \in {"Succeeded", "Failed"} THEN {m.key} ELSE {}
  <1>1. /\ Good(driver) /\ driver \in DriverRecord
        /\ SystemTyped(process, running, reports, faults)
        /\ Carried(driver, running, reports) /\ Settled(driver, {})
        /\ Watched(driver, process, running, reports, {})
    BY Zenon DEF SystemInv, SystemSound, Good
  <1>2. /\ m.key \in Key /\ m.status \in Status /\ driver.mail \subseteq Message
        /\ Exists(driver.jobs, m.key)
    BY <1>1, Zenon DEF Good, Sound, FlightSound, ActorLaws, FieldLaw
  <1> /\ d \in DriverRecord /\ d.jobs = driver.jobs /\ d.assigner = driver.assigner
      /\ d.pool = driver.pool /\ d.taskProbes = driver.taskProbes
      /\ d.sequences = driver.sequences /\ d.running = driver.running
      /\ d.mail = driver.mail \ {m} /\ d.calls = driver.calls
    <2> DEFINE mail == driver.mail \ {m}
    <2> mail \subseteq Message
      BY <1>2, Zenon
    <2> HIDE DEF mail
    <2> [driver EXCEPT !.mail = mail] \in DriverRecord
      BY <1>1, Zenon DEF DriverRecord
    <2>3. QED
      BY <1>1, Zenon DEF DriverRecord, mail
  <1>4. driver' \in HandleUpdateTask(d, m.key, m.status) /\ UNCHANGED <<process, running, reports, faults>>
    BY Zenon DEF HandleMail
  <1> HIDE DEF d
  <1>5. Good(d)
    BY <1>1, FlightChange, Zenon
  <1> /\ Good(driver') /\ Leads(d, driver')
      /\ m.status \in {"Succeeded", "Failed"} => Leaves(driver', m.key)
    BY <1>2, <1>4, <1>5, Zenon DEF ActorLaws, UpdateTaskGoodLaw
  <1>7. Carried(d, running, reports) /\ Settled(d, {})
    <2> \A k : (Launched(d, k) <=> Launched(driver, k)) /\ (Dropped(d, k) <=> Dropped(driver, k))
      BY Zenon DEF Launched, Dropped
    <2>2. QED
      BY <1>1, Zenon DEF Carried, Settled
  <1>8. Watched(d, process, running, reports, but)
    <2> \A k : k \notin but => (Ends(driver.mail, k) => Ends(d.mail, k))
      BY DEF Ends
    <2>2. QED
      BY <1>1, Zenon DEF Watched
  <1>9. \A k \in but : Leaves(driver', k)
    BY Zenon
  <1> HIDE DEF but
  <1>10. d \in DriverRecord /\ driver' \in DriverRecord
    BY <1>5, Zenon DEF Good
  <1>11. running \in [Worker -> SUBSET Key] /\ reports \in SUBSET Message
    BY <1>1, Zenon DEF SystemTyped
  <1> /\ Carried(driver', running, reports) /\ Settled(driver', {})
      /\ Watched(driver', process, running, reports, {})
    BY <1>7, <1>8, <1>9, <1>10, <1>11, LedSystem
  <1> KeepsAssigned(driver, driver')
    BY Zenon DEF KeepsAssigned, Leads
  <1>14. QED
    BY <1>1, <1>4, Zenon DEF SystemInv, SystemSound

\* A report of a worker, stale or not.
LEMMA ReportStep ==
    ASSUME ActorLaws, SystemInv, NEW r \in reports, HandleReport(r)
    PROVE  SystemInv' /\ KeepsAssigned(driver, driver')
  <1> DEFINE n == Sequence(r.status)
             d == [driver EXCEPT !.sequences[r.key] = Sequence(r.status)]
             but == IF n = 2 THEN {r.key} ELSE {}
             ended == IF r.status \in {"Succeeded", "Failed"} THEN {r.key} ELSE {}
  <1>1. /\ Good(driver) /\ driver \in DriverRecord
        /\ SystemTyped(process, running, reports, faults)
        /\ Carried(driver, running, reports) /\ Settled(driver, {})
        /\ Watched(driver, process, running, reports, {})
    BY Zenon DEF SystemInv, SystemSound, Good
  <1>2. /\ running \in [Worker -> SUBSET Key] /\ reports \in SUBSET Message
        /\ r.key \in Key /\ r.status \in Status /\ n \in {1, 2}
        /\ n = 1 => r.status = "Running"
    BY <1>1 DEF SystemTyped, Message, Sequence
  <1>3. UNCHANGED <<process, running>> /\ reports' \subseteq reports /\ reports \ {r} \subseteq reports'
    BY ZenonT(30) DEF HandleReport
  <1>4. faults' \in 0 .. MaxFaults
    <2> faults' = faults \/ Fault("report resent")
      BY ZenonT(30) DEF HandleReport
    <2>2. QED
      BY <1>1, FaultStep, ZenonT(30) DEF SystemTyped
  <1>5. SystemTyped(process', running', reports', faults')
    BY <1>1, <1>3, <1>4, Zenon DEF SystemTyped
  <1>6. CASE n <= driver.sequences[r.key]
    <2>1. driver' = driver
      BY <1>6, ZenonT(30) DEF HandleReport
    <2>2. Carried(driver, running, reports')
      BY <1>1, <1>3, Zenon DEF Carried
    <2>3. driver.sequences[r.key] \in 0 .. 2
      BY <1>1, <1>2, Zenon DEF ActorLaws, FieldLaw
    <2>4. n = 1 \/ Gone(driver.assigner, r.key)
      BY <1>1, <1>2, <1>6, <2>3 DEF Settled
    <2> \A k : k # r.key \/ n = 1 => (Ends(reports, k) => Ends(reports', k))
      BY <1>2, <1>3 DEF Ends
    <2> Watched(driver, process, running, reports', {})
      BY <1>1, <2>4, Zenon DEF Watched, Gone
    <2>7. QED
      BY <1>1, <1>3, <1>5, <2>1, <2>2, Zenon DEF SystemInv, SystemSound, KeepsAssigned
  <1>7. CASE ~ (n <= driver.sequences[r.key])
    <2>1. driver' \in HandleUpdateTask(d, r.key, r.status)
      BY <1>7, ZenonT(30) DEF HandleReport
    <2>2. /\ d \in DriverRecord /\ d.jobs = driver.jobs /\ d.assigner = driver.assigner
          /\ d.pool = driver.pool /\ d.taskProbes = driver.taskProbes
          /\ d.running = driver.running /\ d.mail = driver.mail /\ d.calls = driver.calls
          /\ d.sequences = [driver.sequences EXCEPT ![r.key] = n]
      <3> DEFINE sequences == [driver.sequences EXCEPT ![r.key] = n]
      <3> sequences \in [Key -> 0 .. 2]
        <4> HIDE DEF n
        <4> n \in 0 .. 2 /\ driver.sequences \in [Key -> 0 .. 2]
          BY <1>1, <1>2 DEF ActorLaws, FieldLaw
        <4>2. QED
          BY ZenonT(30)
      <3> d = [driver EXCEPT !.sequences = sequences]
        BY Zenon
      <3> HIDE DEF sequences, d
      <3>3. QED
        BY <1>1, Zenon DEF DriverRecord, sequences
    <2>3. driver.sequences \in [Key -> 0 .. 2]
      BY <1>1, Zenon DEF ActorLaws, FieldLaw
    <2> HIDE DEF d, n
    <2>4. Good(d)
      BY <1>1, <2>2, FlightChange, Zenon
    <2>5. Launched(driver, r.key) /\ (r.status = "Canceled" => Dropped(driver, r.key))
      BY <1>1, Zenon DEF Carried
    <2>6. Exists(d.jobs, r.key) /\ d.assigner.assigned[r.key] # Unassigned
      BY <2>2, <2>5, Zenon DEF Launched
    <2> /\ Good(driver') /\ Leads(d, driver')
        /\ r.status \in {"Succeeded", "Failed"} =>
              Leaves(driver', r.key) /\ Gone(driver'.assigner, r.key)
      BY <1>2, <2>1, <2>2, <2>4, <2>6 DEF ActorLaws, UpdateTaskGoodLaw
    <2>8. d \in DriverRecord /\ driver' \in DriverRecord
      BY <2>4, Zenon DEF Good
    <2>9. r.status = "Canceled" => Gone(d.assigner, r.key) /\ Gone(driver'.assigner, r.key)
      BY <1>2, <2>2, <2>5, <2>8, Zenon DEF Dropped, ActorLaws, LeadsKeepsLaw
    <2>10. Carried(d, running, reports')
      <3> \A k : (Launched(d, k) <=> Launched(driver, k)) /\ (Dropped(d, k) <=> Dropped(driver, k))
        BY <2>2, Zenon DEF Launched, Dropped
      <3>2. QED
        BY <1>1, <1>3, Zenon DEF Carried
    <2>11. Settled(d, but) /\ \A k \in but : Gone(driver'.assigner, k)
      <3> n = 2 => r.status \in {"Succeeded", "Failed", "Canceled"}
        BY <1>2 DEF n, Sequence, Status
      <3> \A k \in Key \ but : d.sequences[k] = 2 => driver.sequences[k] = 2
        BY <1>2, <2>2, <2>3, Zenon
      <3>3. QED
        BY <1>1, <2>2, <2>9, Zenon DEF Settled
    <2>12. Watched(d, process, running, reports', ended)
      <3> \A k : k \notin ended => (Ends(reports, k) => Ends(reports', k))
        BY <1>2, <1>3 DEF Ends
      <3>2. QED
        BY <1>1, <2>2, Zenon DEF Watched
    <2>13. \A k \in ended : Leaves(driver', k)
      BY Zenon
    <2> HIDE DEF but, ended
    <2>14. reports' \in SUBSET Message
      BY <1>2, <1>3, Zenon
    <2> /\ Carried(driver', running, reports') /\ Settled(driver', {})
        /\ Watched(driver', process, running, reports', {})
      BY <1>2, <2>8, <2>10, <2>11, <2>12, <2>13, <2>14, LedSystem, Zenon
    <2> KeepsAssigned(driver, driver')
      BY <2>2, Zenon DEF KeepsAssigned, Leads
    <2>17. QED
      BY <1>3, <1>5, Zenon DEF SystemInv, SystemSound
  <1>8. QED
    BY <1>6, <1>7, Zenon

\* What is known of the workers and the network depends only on parts of the
\* state of the actor.
LEMMA SameParts ==
    ASSUME NEW d, NEW e, e.jobs = d.jobs, e.assigner = d.assigner, e.sequences = d.sequences
    PROVE  /\ \A k : (Launched(e, k) <=> Launched(d, k)) /\ (Dropped(e, k) <=> Dropped(d, k))
           /\ \A run, rep : Carried(d, run, rep) => Carried(e, run, rep)
           /\ Settled(d, {}) => Settled(e, {})
  <1> \A k : (Launched(e, k) <=> Launched(d, k)) /\ (Dropped(e, k) <=> Dropped(d, k))
    BY Zenon DEF Launched, Dropped
  <1>2. QED
    BY Zenon DEF Carried, Settled

\* An attempt is not launched in time.
LEMMA PendingTaskStep ==
    ASSUME ActorLaws, SystemInv, NEW k \in Key, HandleProbePendingTask(k)
    PROVE  SystemInv' /\ KeepsAssigned(driver, driver')
  <1> DEFINE probes == driver.taskProbes \ {k}
             mail == driver.mail \cup Mail({k}, "Failed")
  <1>1. /\ Good(driver) /\ driver \in DriverRecord /\ Sound(driver)
        /\ Carried(driver, running, reports) /\ Settled(driver, {})
        /\ Watched(driver, process, running, reports, {})
    BY Zenon DEF SystemInv, SystemSound, Good
  <1>2. k \in driver.taskProbes /\ Exists(driver.jobs, k)
    BY <1>1, ZenonT(30) DEF HandleProbePendingTask, Sound, FlightSound
  <1>3. mail \in SUBSET Message
    BY <1>1 DEF Mail, Message, Status, ActorLaws, FieldLaw
  <1>4. \A m \in mail \ driver.mail : m.key = k /\ m.status = "Failed"
    BY DEF Mail
  <1>5. driver' = [driver EXCEPT !.taskProbes = probes, !.mail = mail]
    BY ZenonT(30) DEF HandleProbePendingTask
  <1>6. /\ probes \subseteq driver.taskProbes /\ probes \in SUBSET Key
        /\ driver.mail \subseteq mail
    BY <1>1, Zenon DEF ActorLaws, FieldLaw
  <1> HIDE DEF probes, mail
  <1>7. /\ driver' \in DriverRecord
        /\ driver'.jobs = driver.jobs /\ driver'.assigner = driver.assigner
        /\ driver'.pool = driver.pool /\ driver'.sequences = driver.sequences
        /\ driver'.taskProbes = probes /\ driver'.running = driver.running
        /\ driver'.mail = mail /\ driver'.calls = driver.calls
    BY <1>1, <1>3, <1>5, <1>6, ZenonT(30) DEF DriverRecord
  <1>8. Good(driver') /\ KeepsAssigned(driver, driver')
    BY <1>1, <1>2, <1>4, <1>6, <1>7, FlightChange, Zenon
  <1> Carried(driver', running, reports) /\ Settled(driver', {})
    BY <1>1, <1>7, SameParts, Zenon
  <1> Watched(driver', process, running, reports, {})
    BY <1>1, <1>6, <1>7, Zenon DEF Watched, Ends
  <1>11. QED
    BY <1>8, ZenonT(30) DEF SystemInv, SystemSound, HandleProbePendingTask

\* A task on the driver ends.
LEMMA DriverTaskStep ==
    ASSUME ActorLaws, SystemInv, NEW k \in driver.running, NEW status \in Outcome, DriverTaskEnds(k, status)
    PROVE  SystemInv' /\ KeepsAssigned(driver, driver')
  <1> DEFINE run == driver.running \ {k}
             mail == driver.mail \cup Mail({k}, status)
  <1> /\ Good(driver) /\ driver \in DriverRecord /\ Sound(driver)
      /\ Carried(driver, running, reports) /\ Settled(driver, {})
      /\ Watched(driver, process, running, reports, {})
    BY Zenon DEF SystemInv, SystemSound, Good
  <1>2. k \in Key /\ Launched(driver, k) /\ status \in {"Succeeded", "Failed"}
    BY ZenonT(30) DEF Sound, FlightSound, Outcome, ActorLaws, FieldLaw
  <1>3. mail \in SUBSET Message
    BY <1>2 DEF Mail, Message, Status, ActorLaws, FieldLaw
  <1>4. \A m \in mail \ driver.mail : m.key = k /\ m.status = status
    BY DEF Mail
  <1>5. driver' = [driver EXCEPT !.running = run, !.mail = mail]
    BY Zenon DEF DriverTaskEnds
  <1> /\ run \subseteq driver.running /\ driver.mail \subseteq mail
      /\ run \in SUBSET Key
      /\ Ends(mail, k) /\ \A i \in driver.running : i # k => i \in run
    BY <1>2, ZenonT(30) DEF Ends, Mail, ActorLaws, FieldLaw
  <1> HIDE DEF run, mail
  <1> /\ driver' \in DriverRecord
      /\ driver'.jobs = driver.jobs /\ driver'.assigner = driver.assigner
      /\ driver'.pool = driver.pool /\ driver'.sequences = driver.sequences
      /\ driver'.taskProbes = driver.taskProbes /\ driver'.running = run
      /\ driver'.mail = mail /\ driver'.calls = driver.calls
    BY <1>3, <1>5, ZenonT(30) DEF DriverRecord
  <1>8. Good(driver') /\ KeepsAssigned(driver, driver')
    <2> Exists(driver.jobs, k)
      BY <1>2, Zenon DEF Launched
    <2>2. QED
      BY <1>2, <1>4, FlightChange, Zenon
  <1>9. Carried(driver', running, reports) /\ Settled(driver', {})
    BY SameParts, Zenon
  <1> Watched(driver', process, running, reports, {})
    <2> \A i : Ends(driver.mail, i) => Ends(mail, i)
      BY Zenon DEF Ends
    <2>2. QED
      BY Zenon DEF Watched
  <1>11. QED
    BY <1>8, <1>9, Zenon DEF SystemInv, SystemSound, DriverTaskEnds
-----------------------------------------------------------------------------
(* The workers and the network.                                            *)

\* The driver gets the answer to a call, or learns that a RunTask call failed.
LEMMA CallAnswered ==
    ASSUME ActorLaws, Good(driver), NEW c \in driver.calls,
           NEW failed \in BOOLEAN, failed => c.type = "RunTask",
           driver' = IF failed THEN [Answered(c) EXCEPT !.mail = @ \cup Mail({c.key}, "Failed")]
                               ELSE Answered(c)
    PROVE  /\ Good(driver') /\ KeepsAssigned(driver, driver')
           /\ c.worker \in Worker /\ (c.type = "RunTask" => c.key \in Key /\ Launched(driver, c.key))
           /\ driver'.jobs = driver.jobs /\ driver'.assigner = driver.assigner
           /\ driver'.sequences = driver.sequences /\ driver'.running = driver.running
           /\ \A x : x \in driver.calls /\ x # c => x \in driver'.calls
           /\ \A k : Ends(driver.mail, k) => Ends(driver'.mail, k)
           /\ failed => Ends(driver'.mail, c.key)
  <1> DEFINE calls == driver.calls \ {c}
             mail == IF failed THEN driver.mail \cup Mail({c.key}, "Failed") ELSE driver.mail
  <1>1. driver \in DriverRecord /\ Sound(driver)
    BY Zenon DEF Good
  <1>2. driver' = [driver EXCEPT !.calls = calls, !.mail = mail]
    BY <1>1, ZenonT(30) DEF Answered, DriverRecord
  <1>3. c.worker \in Worker /\ calls \subseteq Calls
    BY <1>1, Zenon DEF Calls, ActorLaws, FieldLaw
  <1>4. c.type = "RunTask" => c.key \in Key /\ Launched(driver, c.key)
    BY <1>1, Zenon DEF Sound, FlightSound, ActorLaws, FieldLaw
  <1>5. mail \subseteq Message /\ driver.mail \subseteq mail
    BY <1>1, <1>4 DEF Mail, Message, Status, ActorLaws, FieldLaw
  <1>6. /\ \A m \in mail \ driver.mail : failed /\ m.key = c.key /\ m.status = "Failed"
        /\ failed => Ends(mail, c.key)
    BY DEF Mail, Ends
  <1>7. calls \subseteq driver.calls /\ \A x : x \in driver.calls /\ x # c => x \in calls
    BY Zenon
  <1> HIDE DEF calls, mail
  <1> /\ driver' \in DriverRecord
      /\ driver'.jobs = driver.jobs /\ driver'.assigner = driver.assigner
      /\ driver'.pool = driver.pool /\ driver'.sequences = driver.sequences
      /\ driver'.taskProbes = driver.taskProbes /\ driver'.running = driver.running
      /\ driver'.mail = mail /\ driver'.calls = calls
    BY <1>1, <1>2, <1>3, <1>5, ZenonT(30) DEF DriverRecord
  <1>9. \A m \in mail \ driver.mail : Exists(driver.jobs, m.key) /\ m.status = "Failed"
    BY <1>4, <1>6, Zenon DEF Launched
  <1> Good(driver') /\ KeepsAssigned(driver, driver')
    BY <1>7, <1>9, FlightChange, ZenonT(30)
  <1> \A k : Ends(driver.mail, k) => Ends(mail, k)
    BY <1>5, Zenon DEF Ends
  <1>12. QED
    BY <1>3, <1>4, <1>6, <1>7, ZenonT(30)

\* The worker runs an attempt, or reports that it cannot.
LEMMA RunTaskStep ==
    ASSUME ActorLaws, SystemInv, NEW c \in driver.calls, NEW answered \in BOOLEAN, WorkerRunTask(c, answered)
    PROVE  SystemInv' /\ KeepsAssigned(driver, driver')
  <1> DEFINE failed == ~ answered
  <1>1. /\ Good(driver) /\ SystemTyped(process, running, reports, faults)
        /\ Carried(driver, running, reports) /\ Settled(driver, {})
        /\ Watched(driver, process, running, reports, {})
    BY Zenon DEF SystemInv, SystemSound
  <1>2. /\ failed \in BOOLEAN /\ c.type = "RunTask" /\ process' = process
        /\ driver' = IF failed THEN [Answered(c) EXCEPT !.mail = @ \cup Mail({c.key}, "Failed")]
                               ELSE Answered(c)
    BY Zenon DEF WorkerRunTask
  <1> HIDE DEF failed
  <1>3. /\ Good(driver') /\ KeepsAssigned(driver, driver')
        /\ c.worker \in Worker /\ c.key \in Key /\ Launched(driver, c.key)
        /\ driver'.jobs = driver.jobs /\ driver'.assigner = driver.assigner
        /\ driver'.sequences = driver.sequences /\ driver'.running = driver.running
        /\ \A x : x \in driver.calls /\ x # c => x \in driver'.calls
        /\ \A k : Ends(driver.mail, k) => Ends(driver'.mail, k)
    BY <1>1, <1>2, CallAnswered, Zenon
  <1>4. /\ \A w \in Worker : running[w] \subseteq running'[w]
        /\ \A w \in Worker : \A k \in running'[w] : k \in running[w] \/ k = c.key
        /\ running' \in [Worker -> SUBSET Key]
        /\ reports \subseteq reports'
        /\ \A r \in reports' : r \in reports \/ (r.key = c.key /\ r.status \in {"Running", "Failed"})
        /\ reports' \subseteq Message
        /\ c.key \in running'[c.worker] \/ Ends(reports', c.key)
    <2>1. running \in [Worker -> SUBSET Key] /\ reports \subseteq Message
      BY <1>1, Zenon DEF SystemTyped
    <2>2. CASE /\ running' = [running EXCEPT ![c.worker] = @ \cup {c.key}]
               /\ reports' = reports \cup Mail({c.key}, "Running")
      BY <1>3, <2>1, <2>2 DEF Mail, Message, Status
    <2>3. CASE running' = running /\ reports' = reports \cup Mail({c.key}, "Failed")
      BY <1>3, <2>1, <2>3 DEF Mail, Message, Status, Ends
    <2>4. QED
      BY <2>2, <2>3, Zenon DEF WorkerRunTask
  <1>5. faults' \in 0 .. MaxFaults
    <2> faults' = faults \/ Fault("call fails")
      BY Zenon DEF WorkerRunTask
    <2>2. QED
      BY <1>1, FaultStep, ZenonT(30) DEF SystemTyped
  <1>6. SystemTyped(process', running', reports', faults')
    BY <1>1, <1>2, <1>4, <1>5, Zenon DEF SystemTyped
  <1>7. Carried(driver', running', reports') /\ Settled(driver', {})
    <2> Carried(driver, running', reports')
      BY <1>1, <1>3, <1>4, Zenon DEF Carried
    <2>2. QED
      BY <1>1, <1>3, SameParts, Zenon
  <1> Watched(driver', process', running', reports', {})
    <2>1. ASSUME NEW s \in Slot, NEW k \in driver.assigner.slots[s], Call("RunTask", s[1], k) = c
          PROVE  k \in running'[s[1]] \/ Ends(reports', k)
      <3> c.key = k /\ c.worker = s[1]
        BY <2>1, Zenon DEF Call
      <3>2. QED
        BY <1>4, Zenon
    <2> \A k : Ends(reports, k) => Ends(reports', k)
      BY <1>4, Zenon DEF Ends
    <2>3. QED
      BY <1>1, <1>2, <1>3, <1>4, <2>1, ZenonT(30) DEF Watched, ActorLaws, SlotLaw
  <1>9. QED
    BY <1>3, <1>6, <1>7, Zenon DEF SystemInv, SystemSound

\* A RunTask call is lost: the attempt fails.
LEMMA LoseRunTaskStep ==
    ASSUME ActorLaws, SystemInv, NEW c \in driver.calls, LoseRunTask(c)
    PROVE  SystemInv' /\ KeepsAssigned(driver, driver')
  <1>1. /\ Good(driver) /\ SystemTyped(process, running, reports, faults)
        /\ Carried(driver, running, reports) /\ Settled(driver, {})
        /\ Watched(driver, process, running, reports, {})
    BY Zenon DEF SystemInv, SystemSound
  <1>2. /\ c.type = "RunTask" /\ UNCHANGED <<process, running, reports>>
        /\ driver' = IF TRUE THEN [Answered(c) EXCEPT !.mail = @ \cup Mail({c.key}, "Failed")]
                             ELSE Answered(c)
    BY Zenon DEF LoseRunTask
  <1>3. /\ Good(driver') /\ KeepsAssigned(driver, driver')
        /\ driver'.jobs = driver.jobs /\ driver'.assigner = driver.assigner
        /\ driver'.sequences = driver.sequences /\ driver'.running = driver.running
        /\ \A x : x \in driver.calls /\ x # c => x \in driver'.calls
        /\ \A k : Ends(driver.mail, k) => Ends(driver'.mail, k)
        /\ Ends(driver'.mail, c.key)
    BY <1>1, <1>2, CallAnswered, Zenon
  <1>4. faults' \in 0 .. MaxFaults
    <2> faults' = faults \/ Fault("call fails")
      BY Zenon DEF LoseRunTask
    <2>2. QED
      BY <1>1, FaultStep, Zenon DEF SystemTyped
  <1>5. SystemTyped(process', running', reports', faults')
    BY <1>1, <1>2, <1>4, Zenon DEF SystemTyped
  <1>6. Carried(driver', running, reports) /\ Settled(driver', {})
    BY <1>1, <1>3, SameParts, Zenon
  <1> Watched(driver', process, running, reports, {})
    <2> \A s \in Slot : \A k : Call("RunTask", s[1], k) = c => Ends(driver'.mail, k)
      BY <1>3 DEF Call
    <2>2. QED
      BY <1>1, <1>3, Zenon DEF Watched
  <1>8. QED
    BY <1>2, <1>3, <1>5, <1>6, Zenon DEF SystemInv, SystemSound

\* A StopTask call ends an attempt that is in no slot anymore.
LEMMA StopTaskStep ==
    ASSUME ActorLaws, SystemInv, NEW c \in driver.calls, WorkerStopTask(c)
    PROVE  SystemInv' /\ KeepsAssigned(driver, driver')
  <1>1. /\ Good(driver) /\ driver \in DriverRecord /\ SystemTyped(process, running, reports, faults)
        /\ Carried(driver, running, reports) /\ Settled(driver, {})
        /\ Watched(driver, process, running, reports, {})
    BY Zenon DEF SystemInv, SystemSound, Good
  <1>2. /\ c.type = "StopTask" /\ process' = process /\ faults' = faults
        /\ driver' = IF FALSE THEN [Answered(c) EXCEPT !.mail = @ \cup Mail({c.key}, "Failed")]
                              ELSE Answered(c)
        /\ running' = [running EXCEPT ![c.worker] = @ \ {c.key}]
        /\ reports' = IF c.key \in running[c.worker]
                      THEN reports \cup Mail({c.key}, "Canceled") ELSE reports
    BY Zenon DEF WorkerStopTask
  <1>3. /\ Good(driver') /\ KeepsAssigned(driver, driver')
        /\ c.worker \in Worker
        /\ driver'.jobs = driver.jobs /\ driver'.assigner = driver.assigner
        /\ driver'.sequences = driver.sequences /\ driver'.running = driver.running
        /\ \A x : x \in driver.calls /\ x # c => x \in driver'.calls
        /\ \A k : Ends(driver.mail, k) => Ends(driver'.mail, k)
    BY <1>1, <1>2, CallAnswered, ZenonT(30)
  <1>4. c.key \in Key /\ Dropped(driver, c.key)
    BY <1>1, <1>2, Zenon DEF Good, Sound, FlightSound, ActorLaws, FieldLaw
  <1>5. running \in [Worker -> SUBSET Key] /\ reports \subseteq Message
    BY <1>1, Zenon DEF SystemTyped
  <1>6. /\ running' \in [Worker -> SUBSET Key] /\ reports' \subseteq Message /\ reports \subseteq reports'
        /\ \A w \in Worker : running'[w] \subseteq running[w]
        /\ \A w \in Worker : \A k \in running[w] : k = c.key \/ k \in running'[w]
        /\ \A r \in reports' : r \in reports \/ (r.key = c.key /\ c.key \in running[c.worker])
    BY <1>2, <1>3, <1>4, <1>5 DEF Mail, Message, Status
  <1>7. SystemTyped(process', running', reports', faults')
    BY <1>1, <1>2, <1>6, ZenonT(30) DEF SystemTyped
  <1>8. Carried(driver', running', reports') /\ Settled(driver', {})
    <2> Carried(driver, running', reports')
      BY <1>1, <1>3, <1>4, <1>6, Zenon DEF Carried
    <2>2. QED
      BY <1>1, <1>3, SameParts, Zenon
  <1> Watched(driver', process', running', reports', {})
    <2>1. \A s \in Slot : c.key \notin driver.assigner.slots[s]
      BY <1>4, Zenon DEF Dropped, Gone
    <2>2. \A s \in Slot : \A k : Call("RunTask", s[1], k) # c
      BY <1>2 DEF Call
    <2>3. \A k : Ends(reports, k) => Ends(reports', k)
      BY <1>6, Zenon DEF Ends
    <2> ASSUME NEW s \in Slot, NEW k \in driver.assigner.slots[s]
        PROVE  \/ process[s[1]] = "Down" \/ k \in running'[s[1]]
               \/ Ends(driver'.mail, k) \/ Ends(reports', k)
               \/ Call("RunTask", s[1], k) \in driver'.calls
      <3>1. k # c.key /\ s[1] \in Worker
        BY <2>1, Zenon DEF ActorLaws, SlotLaw
      <3> k \in running[s[1]] => k \in running'[s[1]]
        BY <1>6, <3>1, Zenon
      <3> Call("RunTask", s[1], k) \in driver.calls => Call("RunTask", s[1], k) \in driver'.calls
        BY <1>3, <2>2, Zenon
      <3>4. QED
        BY <1>1, <1>3, <2>3, Zenon DEF Watched
    <2> \A k \in driver'.assigner.driverTasks : k \in driver'.running \/ Ends(driver'.mail, k)
      BY <1>1, <1>3, Zenon DEF Watched
    <2>6. QED
      BY <1>2, <1>3, Zenon DEF Watched
  <1>10. QED
    BY <1>3, <1>7, <1>8, Zenon DEF SystemInv, SystemSound

\* A StopWorker call reaches the worker, or a call that stops something is lost.
LEMMA StopStep ==
    ASSUME ActorLaws, SystemInv, NEW c \in driver.calls, WorkerStop(c) \/ LoseStop(c)
    PROVE  SystemInv' /\ KeepsAssigned(driver, driver')
  <1>1. /\ Good(driver) /\ SystemTyped(process, running, reports, faults)
        /\ Carried(driver, running, reports) /\ Settled(driver, {})
        /\ Watched(driver, process, running, reports, {})
    BY Zenon DEF SystemInv, SystemSound
  <1> /\ c.type # "RunTask" /\ reports' = reports
      /\ driver' = IF FALSE THEN [Answered(c) EXCEPT !.mail = @ \cup Mail({c.key}, "Failed")]
                            ELSE Answered(c)
      /\ (GoDown(c.worker) /\ faults' = faults) \/ UNCHANGED <<process, running>>
      /\ faults' = faults \/ Fault("call fails")
    BY Zenon DEF WorkerStop, LoseStop
  <1>3. /\ Good(driver') /\ KeepsAssigned(driver, driver')
        /\ c.worker \in Worker
        /\ driver'.jobs = driver.jobs /\ driver'.assigner = driver.assigner
        /\ driver'.sequences = driver.sequences /\ driver'.running = driver.running
        /\ \A x : x \in driver.calls /\ x # c => x \in driver'.calls
        /\ \A k : Ends(driver.mail, k) => Ends(driver'.mail, k)
    BY <1>1, CallAnswered, ZenonT(30)
  <1>4. /\ process' \in [Worker -> {"Starting", "Up", "Down"}] /\ running' \in [Worker -> SUBSET Key]
        /\ \A w \in Worker : process'[w] = "Down" \/ (process'[w] = process[w] /\ running'[w] = running[w])
        /\ \A w \in Worker : running'[w] \subseteq running[w]
    BY <1>1, <1>3, ZenonT(30) DEF SystemTyped, GoDown
  <1>5. faults' \in 0 .. MaxFaults
    BY <1>1, FaultStep, ZenonT(30) DEF SystemTyped
  <1>6. SystemTyped(process', running', reports', faults')
    BY <1>1, <1>4, <1>5, ZenonT(30) DEF SystemTyped
  <1>7. Carried(driver', running', reports') /\ Settled(driver', {})
    <2> Carried(driver, running', reports')
      BY <1>1, <1>4, ZenonT(30) DEF Carried
    <2>2. QED
      BY <1>1, <1>3, SameParts, Zenon
  <1> Watched(driver', process', running', reports', {})
    <2> \A s \in Slot : \A k : Call("RunTask", s[1], k) # c
      <3> \A s \in Slot : \A k : Call("RunTask", s[1], k).type = "RunTask"
        BY Zenon DEF Call
      <3>2. QED
        BY ZenonT(30)
    <2>2. QED
      BY <1>1, <1>3, <1>4, ZenonT(30) DEF Watched, ActorLaws, SlotLaw
  <1>9. QED
    BY <1>3, <1>6, <1>7, Zenon DEF SystemInv, SystemSound

\* A task ends on a worker, or the worker crashes, or a report is lost.
LEMMA WorkerStep ==
    ASSUME ActorLaws, SystemInv,
           \/ \E w \in Worker : \E k \in running[w], status \in Outcome : WorkerTaskEnds(w, k, status)
           \/ \E w \in Worker : WorkerCrash(w)
           \/ \E r \in reports : LoseReport(r)
    PROVE  SystemInv' /\ KeepsAssigned(driver, driver')
  <1>1. /\ Good(driver) /\ driver \in DriverRecord /\ SystemTyped(process, running, reports, faults)
        /\ Carried(driver, running, reports) /\ Settled(driver, {})
        /\ Watched(driver, process, running, reports, {})
    BY Zenon DEF SystemInv, SystemSound, Good
  <1>2. running \in [Worker -> SUBSET Key] /\ reports \subseteq Message
    BY <1>1, Zenon DEF SystemTyped
  <1>3. driver' = driver
    BY ZenonT(30) DEF WorkerTaskEnds, WorkerCrash, LoseReport
  <1>4. KeepsAssigned(driver, driver)
    BY Zenon DEF KeepsAssigned
  <1>5. ASSUME NEW w \in Worker, NEW k \in running[w], NEW status \in Outcome, WorkerTaskEnds(w, k, status)
        PROVE  SystemInv'
    <2>1. status \in {"Succeeded", "Failed"} /\ k \in Key
      BY <1>2, ZenonT(30) DEF Outcome
    <2> /\ running' = [running EXCEPT ![w] = @ \ {k}] /\ reports' = reports \cup Mail({k}, status)
        /\ process' = process /\ faults' = faults
      BY <1>5, Zenon DEF WorkerTaskEnds
    <2> /\ running' \in [Worker -> SUBSET Key] /\ reports' \subseteq Message
        /\ \A v \in Worker : running'[v] \subseteq running[v]
        /\ \A v \in Worker : \A i \in running[v] : i = k \/ i \in running'[v]
        /\ \A r \in reports' : r \in reports \/ (r.key = k /\ r.status # "Canceled")
        /\ Ends(reports', k) /\ reports \subseteq reports'
      BY <1>2, <2>1 DEF Mail, Message, Status, Ends
    <2>4. SystemTyped(process', running', reports', faults')
      BY <1>1, ZenonT(30) DEF SystemTyped
    <2>5. Carried(driver, running', reports')
      BY <1>1, <1>5, Zenon DEF Carried
    <2> Watched(driver, process', running', reports', {})
      <3> \A i : Ends(reports, i) => Ends(reports', i)
        BY Zenon DEF Ends
      <3>2. QED
        BY <1>1, ZenonT(30) DEF Watched, ActorLaws, SlotLaw
    <2>7. QED
      BY <1>1, <1>3, <2>4, <2>5, Zenon DEF SystemInv, SystemSound
  <1>6. ASSUME NEW w \in Worker, WorkerCrash(w)
        PROVE  SystemInv'
    <2> /\ process' = [process EXCEPT ![w] = "Down"] /\ running' = [running EXCEPT ![w] = {}]
        /\ reports' = reports /\ Fault("worker crashes")
      BY <1>6, ZenonT(30) DEF WorkerCrash, GoDown
    <2>2. /\ process' \in [Worker -> {"Starting", "Up", "Down"}] /\ running' \in [Worker -> SUBSET Key]
          /\ \A v \in Worker : process'[v] = "Down" \/ (process'[v] = process[v] /\ running'[v] = running[v])
          /\ \A v \in Worker : running'[v] \subseteq running[v]
      BY <1>1, ZenonT(30) DEF SystemTyped
    <2>3. faults' \in 0 .. MaxFaults
      BY <1>1, FaultStep, ZenonT(30) DEF SystemTyped
    <2>4. SystemTyped(process', running', reports', faults')
      BY <1>1, <2>2, <2>3, ZenonT(30) DEF SystemTyped
    <2>5. Carried(driver, running', reports')
      BY <1>1, <2>2, ZenonT(30) DEF Carried
    <2> Watched(driver, process', running', reports', {})
      BY <1>1, <2>2, ZenonT(30) DEF Watched, ActorLaws, SlotLaw
    <2>7. QED
      BY <1>1, <1>3, <2>4, <2>5, Zenon DEF SystemInv, SystemSound
  <1>7. ASSUME NEW r \in reports, LoseReport(r)
        PROVE  SystemInv'
    <2>1. /\ \A w \in AssignedTo(driver.assigner, r.key) : process[w] = "Down"
          /\ reports' = reports \ {r} /\ UNCHANGED <<process, running, faults>>
      BY <1>7, Zenon DEF LoseReport
    <2>2. SystemTyped(process', running', reports', faults')
      BY <1>1, <2>1, Zenon DEF SystemTyped
    <2>3. Carried(driver, running', reports')
      BY <1>1, <2>1, Zenon DEF Carried
    <2>4. r.key \in Key /\ driver.assigner \in TaskAssigner
      BY <1>1, <1>2, ZenonT(30) DEF Message, ActorLaws, FieldLaw
    <2>5. \A s \in Slot : r.key \in driver.assigner.slots[s] => process[s[1]] = "Down"
      <3> \A s \in Slot : r.key \in driver.assigner.slots[s] => driver.assigner.assigned[r.key] = s
        BY <1>1, ZenonT(30) DEF Good, Sound, SlotSound
      <3>2. QED
        BY <2>1, <2>4 DEF ActorLaws, AssignedToLaw
    <2> \A k : k # r.key => (Ends(reports, k) => Ends(reports', k))
      BY <2>1 DEF Ends
    <2> Watched(driver, process', running', reports', {})
      BY <1>1, <2>1, <2>5, ZenonT(30) DEF Watched
    <2>8. QED
      BY <1>1, <1>3, <2>2, <2>3, Zenon DEF SystemInv, SystemSound
  <1>8. QED
    BY <1>3, <1>4, <1>5, <1>6, <1>7, Zenon
-----------------------------------------------------------------------------
(* The initial state, and all steps.                                       *)

\* The system starts sound.
LEMMA InitSound ==
    ASSUME ActorLaws, Init
    PROVE  SystemInv
  <1> DEFINE pool == [w \in Worker |-> IF w <= WorkerInitialCount THEN "Pending" ELSE "None"]
             jobs == [j \in Job |-> NoJob]
             sequences == [k \in Key |-> 0]
             a == NewTaskAssigner
  <1>1. pool \in [Worker -> PoolState] /\ \A w \in Worker : pool[w] \in {"Pending", "None"}
    BY Zenon DEF PoolState
  <1>2. jobs \in [Job -> JobValue] /\ \A j \in Job : jobs[j] = NoJob
    BY Zenon DEF JobValue
  <1>3. sequences \in [Key -> 0 .. 2] /\ \A k \in Key : sequences[k] # 2
    OBVIOUS
  <1>4. /\ a \in TaskAssigner /\ a.requested = 0
        /\ a.queue = << >> /\ DOMAIN a.queue = {} /\ a.driverTasks = {}
        /\ \A w \in Worker : a.resource[w] = "Absent"
        /\ \A s \in Slot : a.slots[s] = {}
        /\ \A k \in Key : a.assigned[k] = Unassigned
    BY NewAssigner, ZenonT(30)
  <1>5. 0 <= Cardinality({w \in Worker : pool[w] = "Pending"})
    <2> DEFINE pending == {w \in Worker : pool[w] = "Pending"}
    <2>1. IsFiniteSet(pending)
      BY ZenonT(30) DEF ActorLaws, Laws, SetLaws, SubsetLaw, AssignerLaws, WorkersLaw
    <2> Cardinality(pending) \in Nat
      BY <2>1, Zenon DEF ActorLaws, Laws, SetLaws, CardinalityLaw
    <2> HIDE DEF pending
    <2> \A n \in Nat : 0 <= n
      OBVIOUS
    <2>4. QED
      BY Zenon DEF pending
  <1> HIDE DEF pool, jobs, sequences, a
  <1>6. /\ driver \in DriverRecord
        /\ driver.jobs = jobs /\ driver.assigner = a /\ driver.pool = pool
        /\ driver.sequences = sequences /\ driver.taskProbes = {} /\ driver.running = {}
        /\ driver.mail = {} /\ driver.calls = {}
    BY <1>1, <1>2, <1>3, <1>4, Zenon DEF Init, DriverRecord, pool, jobs, sequences, a
  <1>7. JobsSound(driver) /\ FlightSound(driver)
    BY <1>2, <1>6, Zenon DEF JobsSound, FlightSound
  <1>8. PoolSound(driver)
    BY <1>1, <1>4, <1>5, <1>6, Zenon DEF PoolSound, Pending
  <1>9. QueueSound(driver) /\ SlotSound(driver) /\ StreamsSound(driver)
    BY <1>4, <1>6, Zenon DEF QueueSound, Orderly, SlotSound, StreamsSound, Shareable, ActorLaws, SlotLaw
  <1>10. SystemTyped(process, running, reports, faults)
    <2> 0 \in 0 .. MaxFaults
      <3> MaxFaults \in Nat
        BY DriverAssumption, ZenonT(30)
      <3>2. QED
        OBVIOUS
    <2>2. QED
      BY Zenon DEF Init, SystemTyped
  <1> Carried(driver, running, reports) /\ Settled(driver, {})
      /\ Watched(driver, process, running, reports, {})
    BY <1>3, <1>4, <1>6, ZenonT(30) DEF Init, Carried, Settled, Watched
  <1>12. QED
    BY <1>6, <1>7, <1>8, <1>9, <1>10, Zenon DEF SystemInv, SystemSound, Good, Sound

\* Every step keeps the invariant, and every assignment.
LEMMA NextSound ==
    ASSUME ActorLaws, SystemInv, Next
    PROVE  SystemInv' /\ KeepsAssigned(driver, driver')
  <1>1. CASE \E j \in Job : HandleExecuteJob(j) \/ HandleCleanUpJob(j)
    BY <1>1, ExecuteJobStep, CleanUpJobStep, Zenon
  <1>2. ASSUME NEW w \in Worker,
               \/ HandleRegisterWorker(w) \/ HandleProbePendingWorker(w)
               \/ HandleProbeIdleWorker(w) \/ HandleProbeLostWorker(w)
        PROVE  SystemInv' /\ KeepsAssigned(driver, driver')
    BY <1>2, RegisterWorkerStep, PendingWorkerStep, IdleWorkerStep, LostWorkerStep, Zenon
  <1>3. CASE \/ \E w \in Worker : \E k \in running[w], status \in Outcome : WorkerTaskEnds(w, k, status)
             \/ \E w \in Worker : WorkerCrash(w)
             \/ \E r \in reports : LoseReport(r)
    BY <1>3, WorkerStep, ZenonT(30)
  <1>4. CASE \E k \in Key : HandleProbePendingTask(k)
    BY <1>4, PendingTaskStep, Zenon
  <1>5. CASE \E k \in driver.running, status \in Outcome : DriverTaskEnds(k, status)
    BY <1>5, DriverTaskStep, Zenon
  <1>6. CASE \E m \in driver.mail : HandleMail(m)
    BY <1>6, MailStep, Zenon
  <1>7. CASE \E r \in reports : HandleReport(r)
    BY <1>7, ReportStep, Zenon
  <1>8. ASSUME NEW c \in driver.calls, NextWorkerCall(c)
        PROVE  SystemInv' /\ KeepsAssigned(driver, driver')
    BY <1>8, RunTaskStep, LoseRunTaskStep, StopTaskStep, StopStep, Zenon DEF NextWorkerCall
  <1>9. QED
    BY <1>1, <1>2, <1>3, <1>4, <1>5, <1>6, <1>7, <1>8, ZenonT(30) DEF Next
-----------------------------------------------------------------------------
(* What the invariant implies.                                             *)

\* The types, and that whatever is queued, in a slot or in flight is an attempt
\* that exists.
LEMMA SoundIsTyped ==
    ASSUME ActorLaws, SystemInv
    PROVE  TypeOK
  <1>1. /\ driver \in DriverRecord /\ Sound(driver)
        /\ SystemTyped(process, running, reports, faults) /\ Carried(driver, running, reports)
    BY Zenon DEF SystemInv, SystemSound, Good
  <1>2. \A i \in DOMAIN driver.assigner.queue : RegionKeys(driver.assigner.queue[i]) \subseteq Key
    <2> driver.assigner.queue \in Seq(TaskRegion)
      BY <1>1, Zenon DEF TaskAssigner, ActorLaws, FieldLaw
    <2> \A i \in DOMAIN driver.assigner.queue : driver.assigner.queue[i] \in TaskRegion
      OBVIOUS
    <2>3. QED
      BY Zenon DEF ActorLaws, Laws, AssignerLaws, RegionKeyLaw
  <1>3. driver.assigner.requested \in Nat
        /\ driver.assigner.resource \in [Worker -> {"Absent", "Active", "Inactive"}]
    BY <1>1, Zenon DEF TaskAssigner, ActorLaws, FieldLaw
  <1>4. driver.pool \in [Worker -> {"None", "Pending", "Running", "Completed", "Failed"}]
        /\ driver.idleProbes \subseteq Worker /\ driver.mail \subseteq Message
    BY <1>1, Zenon DEF PoolState, ActorLaws, FieldLaw
  <1> ASSUME NEW k \in (UNION {driver.assigner.slots[s] : s \in Slot})
                            \cup {m.key : m \in driver.mail \cup reports}
      PROVE  AttemptState(driver, k) # "None"
    <2> k \in Key /\ Exists(driver.jobs, k)
      <3>1. CASE \E s \in Slot : k \in driver.assigner.slots[s]
        <4> PICK s \in Slot : k \in driver.assigner.slots[s]
          BY <3>1, Zenon
        <4>2. k \in Key
          BY <1>1, ZenonT(30) DEF ActorLaws, FieldLaw
        <4> driver.assigner.assigned[k] = s
          BY <1>1, ZenonT(30) DEF Sound, SlotSound
        <4>4. QED
          BY <1>1, <4>2 DEF Sound, SlotSound, ActorLaws, SlotLaw
      <3>2. CASE \E m \in driver.mail : k = m.key
        BY <1>1, <3>2, ZenonT(30) DEF Sound, FlightSound, ActorLaws, FieldLaw
      <3>3. CASE \E r \in reports : k = r.key
        BY <1>1, <3>3, Zenon DEF SystemTyped, Message, Carried, Launched
      <3>4. QED
        BY <3>1, <3>2, <3>3, Zenon
    <2> DEFINE job == driver.jobs[k[1]]
    <2>2. job \in JobValue /\ job # NoJob
      BY <1>1, Zenon DEF Exists, ActorLaws, AttemptKeyLaw, FieldLaw
    <2> HIDE DEF job
    <2>3. DescriptorOK(job)
      BY <2>2, Zenon DEF ActorLaws, JobValueLaw
    <2>4. job.attempts \in [Keys(job) -> TaskState]
      BY <2>3, Zenon DEF DescriptorOK, JobDescriptor, Keys
    <2>5. job.attempts[<<k[2], k[3]>>] \in TaskState
      BY <2>4, Zenon DEF Exists, job
    <2>6. "None" \notin TaskState
      BY Zenon DEF TaskState
    <2> k[3] <= job.len[k[2]]
      <3> <<k[2], k[3]>> \in KeysUpTo(job.len)
        BY Zenon DEF Exists, Keys, job
      <3>2. QED
        BY DEF KeysUpTo, ActorLaws, AttemptKeyLaw
    <2>8. QED
      BY <2>2, <2>5, <2>6, Zenon DEF AttemptState, job
  <1>6. QED
    BY <1>1, <1>2, <1>3, <1>4, Zenon DEF TypeOK, SystemTyped

\* The task assigner and the worker pool agree, and slots are shared as documented.
LEMMA SoundSlots ==
    ASSUME SystemInv
    PROVE  SlotsAreSound
  <1> driver \in DriverRecord /\ PoolSound(driver) /\ SlotSound(driver)
    BY Zenon DEF SystemInv, SystemSound, Good, Sound
  <1>2. QED
    BY DEF SlotsAreSound, PoolSound, SlotSound, Shareable

\* An occupied slot is about to be freed.
LEMMA SoundFreesSlots ==
    ASSUME ActorLaws, SystemInv
    PROVE  NoSlotLeaks
  <1> DEFINE ended == Mail(Key, "Succeeded") \cup Mail(Key, "Failed")
             inMail == {m.key : m \in driver.mail \cap ended}
             reported == {r.key : r \in {x \in reports \cap ended :
                                      Sequence(x.status) > driver.sequences[x.key]}}
  <1>1. /\ driver \in DriverRecord /\ Settled(driver, {})
        /\ Watched(driver, process, running, reports, {})
    BY Zenon DEF SystemInv, SystemSound, Good
  <1>2. \A k \in Key : Ends(driver.mail, k) => k \in inMail
    BY DEF Ends, Mail
  <1>3. \A k \in Key, s \in Slot : Ends(reports, k) /\ k \in driver.assigner.slots[s] => k \in reported
    <2> SUFFICES ASSUME NEW k \in Key, NEW s \in Slot, Ends(reports, k),
                        k \in driver.assigner.slots[s]
                 PROVE  k \in reported
      BY Zenon
    <2> PICK status \in {"Succeeded", "Failed"} : [key |-> k, status |-> status] \in reports
      BY Zenon DEF Ends
    <2>2. driver.sequences[k] \in 0 .. 2 /\ driver.sequences[k] # 2
      BY <1>1, Zenon DEF Settled, Gone, ActorLaws, FieldLaw
    <2> Sequence(status) > driver.sequences[k]
      BY <2>2 DEF Sequence
    <2> DEFINE r == [key |-> k, status |-> status]
    <2> r \in ended /\ r.key = k /\ r.status = status
      BY Zenon DEF Mail
    <2> HIDE DEF ended, r
    <2>5. QED
      BY Zenon DEF r
  <1> HIDE DEF inMail, reported
  <1> /\ \A s \in Slot : driver.assigner.slots[s] \subseteq Key
      /\ driver.assigner.driverTasks \subseteq Key
    BY <1>1, Zenon DEF ActorLaws, FieldLaw
  <1> /\ \A s \in Slot : \A k \in driver.assigner.slots[s] :
            \/ process[s[1]] = "Down"
            \/ k \in running[s[1]] \cup inMail \cup reported
            \/ Call("RunTask", s[1], k) \in driver.calls
      /\ driver.assigner.driverTasks \subseteq driver.running \cup inMail
    BY <1>1, <1>2, <1>3, Zenon DEF Watched
  <1>6. QED
    BY Zenon DEF NoSlotLeaks, inMail, reported

\* The output of the attempts of an idle worker is of inactive stages.
LEMMA IdleIsInactive ==
    ASSUME ActorLaws, SystemInv, NEW w \in Worker, NEW k \in Key,
           IsWorkerIdle(driver.assigner, w), w \in AssignedTo(driver.assigner, k)
    PROVE  driver.jobs[k[1]].stages[StageOf[k[2]]] = "Inactive"
  <1> driver \in DriverRecord /\ StreamsSound(driver) /\ driver.assigner \in TaskAssigner
    BY ZenonT(30) DEF SystemInv, SystemSound, Good, Sound, ActorLaws, FieldLaw
  <1> driver.assigner.assigned[k] \in Slot /\ driver.assigner.assigned[k][1] = w
    BY Zenon DEF ActorLaws, AssignedToLaw
  <1> driver.assigner.streams[w] = {} /\ driver.assigner.resource[w] = "Active"
    BY Zenon DEF IsWorkerIdle, Active
  <1>4. QED
    BY Zenon DEF StreamsSound
-----------------------------------------------------------------------------
(* The jobs follow JobLifecycle.  A handler refreshes a job and then runs  *)
(* tasks, which launches attempts of any jobs: for each job, that is one   *)
(* step of JobLifecycle, because a refresh commutes with launches.         *)

\* The steps of JobLifecycle, with Forward for what run_tasks does.
JobStep(x, y) ==
    \/ Forward(x, y)
    \/ \E k \in Keys(x) :
        \/ x.attempts[k] # "Created" /\ y = RefreshJob(UpdateTasks(x, {k}, "Running"))
        \/ /\ x.attempts[k] # "Created"
           /\ Forward(RefreshJob(UpdateTasks(x, {k}, "Succeeded")), y)
        \/ Forward(RefreshJob(UpdateTasks(x, {k}, "Failed")), y)
        \/ /\ x.attempts[k] = "Canceled" \/ x.state \in {"Succeeded", "Canceled"}
           /\ y = UpdateTasks(x, {k}, "Canceled")
    \/ \E keys \in SUBSET {k \in Keys(x) : x.attempts[k] \notin Terminal} :
        Forward(RefreshJob(UpdateTasks(x, keys, "Failed")), y)
    \/ x.state \notin {"Succeeded", "Canceled"} /\ y = CleanUpJob(x)

JobFollows(x, y) ==
    IF x = NoJob THEN y = NoJob \/ Forward(RefreshJob(AcceptJob), y)
    ELSE y = x \/ JobStep(x, y)

JobsFollow(jobs, next) == \A j \in Job : JobFollows(jobs[j], next[j])

\* The methods of the scheduler that an instance of JobLifecycle calls are those
\* that the actor calls.
LEMMA SameMethods ==
    ASSUME NEW j \in Job
    PROVE  /\ \A x : Scheduler(j)!Keys(x) = Keys(x)
           /\ \A x : Scheduler(j)!CreatedKeys(x) = {k \in Keys(x) : x.attempts[k] = "Created"}
           /\ \A x, keys, s : Scheduler(j)!UpdateTasks(x, keys, s) = UpdateTasks(x, keys, s)
           /\ \A x : Scheduler(j)!CleanUpJob(x) = CleanUpJob(x)
           /\ Scheduler(j)!AcceptJob = AcceptJob
           /\ \A x : Scheduler(j)!RefreshJob(x) = RefreshJob(x)
  <1>1. \A x : Scheduler(j)!Keys(x) = Keys(x)
    BY Zenon DEF Scheduler!Keys, Keys, Scheduler!KeysUpTo, KeysUpTo
  <1>2. \A x, y : Scheduler(j)!Consolidate(x, y) = Consolidate(x, y)
    BY Zenon DEF Scheduler!Consolidate, Consolidate, Scheduler!Terminal, Terminal
  <1>3. \A x, keys, s : Scheduler(j)!UpdateTasks(x, keys, s) = UpdateTasks(x, keys, s)
    BY <1>1, <1>2 DEF Scheduler!UpdateTasks, UpdateTasks
  <1>4. \A x : Scheduler(j)!CreatedKeys(x) = {k \in Keys(x) : x.attempts[k] = "Created"}
    BY <1>1, Zenon DEF Scheduler!CreatedKeys
  <1>5. \A x : Scheduler(j)!CleanUpJob(x) = CleanUpJob(x)
    BY Zenon DEF Scheduler!CleanUpJob, CleanUpJob
  <1>6. Scheduler(j)!AcceptJob = AcceptJob
    BY Zenon DEF Scheduler!AcceptJob, AcceptJob
  <1>7. /\ \A x, t, S : Scheduler(j)!LatestIn(x, t, S) <=> LatestIn(x, t, S)
        /\ \A x, t : Scheduler(j)!LatestKey(x, t) = LatestKey(x, t)
        /\ \A r : Scheduler(j)!TasksOf(r) = TasksOf(r)
    BY Zenon DEF Scheduler!LatestIn, LatestIn, Scheduler!LatestKey, LatestKey, Scheduler!TasksOf, TasksOf
  <1>8. \A x : Scheduler(j)!CascadeCancelTaskAttempts(x) = CascadeCancelTaskAttempts(x)
    <2> \A x : Scheduler(j)!CanceledKeys(x) = CanceledKeys(x)
      BY <1>1, <1>7 DEF Scheduler!CanceledKeys, CanceledKeys, Scheduler!Terminal, Terminal
    <2>2. QED
      BY <1>1 DEF Scheduler!CascadeCancelTaskAttempts, CascadeCancelTaskAttempts
  <1>9. \A x : Scheduler(j)!ExtendJobOutput(x) = ExtendJobOutput(x)
    <2> \A x : Scheduler(j)!ExtendedKeys(x) = ExtendedKeys(x)
      BY <1>7, Zenon DEF Scheduler!ExtendedKeys, ExtendedKeys, Scheduler!FinalTask, FinalTask
    <2>2. QED
      BY Zenon DEF Scheduler!ExtendJobOutput, ExtendJobOutput
  <1>10. \A x : Scheduler(j)!CleanUpJobByStage(x) = CleanUpJobByStage(x)
    <2> \A x : Scheduler(j)!CleanedStages(x) = CleanedStages(x)
      BY <1>7, Zenon DEF Scheduler!CleanedStages, CleanedStages
    <2>2. QED
      BY DEF Scheduler!CleanUpJobByStage, CleanUpJobByStage
  <1>11. \A x : Scheduler(j)!UpdateTaskRegions(x) = UpdateTaskRegions(x)
    BY <1>7 DEF Scheduler!UpdateTaskRegions, UpdateTaskRegions, Scheduler!Exhausted, Exhausted
  <1>12. \A x : Scheduler(j)!ScheduleTaskRegions(x) = ScheduleTaskRegions(x)
    <2>1. \A x : Scheduler(j)!ScheduledRegions(x) = ScheduledRegions(x)
      BY <1>7, Zenon DEF Scheduler!ScheduledRegions, ScheduledRegions, Scheduler!Terminal, Terminal,
                  Scheduler!TaskState, TaskState
    <2>2. \A x : Scheduler(j)!KeysUpTo(x) = KeysUpTo(x)
      BY Zenon DEF Scheduler!KeysUpTo, KeysUpTo
    <2> ASSUME NEW x
        PROVE  Scheduler(j)!ScheduleTaskRegions(x) = ScheduleTaskRegions(x)
      <3> DEFINE len == [t \in Task |-> IF RegionOf[t] \in ScheduledRegions(x) THEN x.len[t] + 1 ELSE x.len[t]]
      <3>1. /\ Scheduler(j)!ScheduledRegions(x) = ScheduledRegions(x)
            /\ Scheduler(j)!Keys(x) = Keys(x) /\ Scheduler(j)!KeysUpTo(len) = KeysUpTo(len)
        BY <1>1, <2>1, <2>2, Zenon
      <3>2. ScheduleTaskRegions(x) =
                [x EXCEPT !.len = len,
                          !.attempts = [k \in KeysUpTo(len) |-> IF k \in Keys(x) THEN x.attempts[k] ELSE "Created"]]
        BY Zenon DEF ScheduleTaskRegions
      <3> Scheduler(j)!ScheduleTaskRegions(x) =
              [x EXCEPT !.len = len,
                        !.attempts = [k \in Scheduler(j)!KeysUpTo(len) |->
                            IF k \in Scheduler(j)!Keys(x) THEN x.attempts[k] ELSE "Created"]]
        BY <3>1, Zenon DEF Scheduler!ScheduleTaskRegions
      <3> HIDE DEF len
      <3>4. QED
        BY <3>1, <3>2, Zenon
    <2>4. QED
      BY Zenon
  <1> \A x : Scheduler(j)!RefreshJob(x) = RefreshJob(x)
    BY <1>8, <1>9, <1>10, <1>11, <1>12, Zenon
       DEF Scheduler!RefreshJob, RefreshJob, Scheduler!RefreshRunning, RefreshRunning,
           Scheduler!Observed, Observed
  <1>14. QED
    BY <1>1, <1>3, <1>4, <1>5, <1>6, ZenonT(30)

\* A step leads from a job to a job.
LEMMA StepIsJob ==
    ASSUME ActorLaws, NEW x, NEW y, Inv(x), JobStep(x, y)
    PROVE  y # NoJob
  <1>1. \A n : Forward(n, y) => DescriptorOK(y)
    BY Zenon DEF Forward
  <1> DescriptorOK(y)
    <2> \A k : \A s \in TaskState : DescriptorOK(RefreshJob(UpdateTasks(x, {k}, s))) /\ DescriptorOK(UpdateTasks(x, {k}, s))
      BY Zenon DEF Inv, ActorLaws, Laws, SchedulerLaws, UpdateLaw, RefreshLaw
    <2> DescriptorOK(CleanUpJob(x))
      BY Zenon DEF Inv, ActorLaws, Laws, SchedulerLaws, CleanUpLaw
    <2>3. QED
      BY <1>1, ZenonT(30) DEF JobStep, TaskState
  <1> y.state \in JobState
    BY Zenon DEF DescriptorOK, JobDescriptor
  <1>4. QED
    BY DEF NoJob, JobState

\* A step from a sound job to a sound job is one of JobLifecycle.
LEMMA FollowsIsLifecycle ==
    ASSUME ActorLaws, NEW j \in Job, Good(driver), Good(driver'), JobsFollow(driver.jobs, driver'.jobs)
    PROVE  IF driver.jobs[j] = NoJob
           THEN driver'.jobs[j] = NoJob \/ (Scheduler(j)!LifecycleInit)'
           ELSE Scheduler(j)!LifecycleNext \/ driver'.jobs[j] = driver.jobs[j]
  <1> DEFINE x == driver.jobs[j]
             y == driver'.jobs[j]
  <1>1. (x # NoJob => Inv(x)) /\ (y # NoJob => Inv(y)) /\ JobFollows(x, y)
    BY Zenon DEF Good, Sound, JobsSound, JobsFollow
  <1>2. \A i, n : Inv(i) /\ Inv(n) /\ Forward(i, n) =>
            \E keys \in SUBSET {k \in Keys(i) : i.attempts[k] = "Created"} :
                n = UpdateTasks(i, keys, "Scheduled")
    BY Zenon DEF Launches, ActorLaws, Laws, SchedulerLaws, LaunchLaw
  <1>3. CASE x = NoJob
    <2>1. Inv(RefreshJob(AcceptJob))
      BY Zenon DEF ActorLaws, Laws, SchedulerLaws, AcceptLaw, RefreshLaw
    <2>2. CASE y = NoJob
      BY <1>3, <2>2, Zenon
    <2>3. CASE y # NoJob
      <3>1. \E keys \in SUBSET {k \in Keys(RefreshJob(AcceptJob)) :
                                    RefreshJob(AcceptJob).attempts[k] = "Created"} :
                y = UpdateTasks(RefreshJob(AcceptJob), keys, "Scheduled")
        BY <1>1, <1>2, <1>3, <2>1, <2>3, Zenon DEF JobFollows
      <3> (Scheduler(j)!LifecycleInit)'
        <4>1. \A n : Scheduler(j)!CreatedKeys(n) = {k \in Keys(n) : n.attempts[k] = "Created"}
          BY SameMethods, ZenonT(30)
        <4>2. \A n, keys, s : Scheduler(j)!UpdateTasks(n, keys, s) = UpdateTasks(n, keys, s)
          BY SameMethods, ZenonT(30)
        <4> Scheduler(j)!RefreshJob(Scheduler(j)!AcceptJob) = RefreshJob(AcceptJob)
          BY SameMethods, ZenonT(30)
        <4>4. QED
          BY <3>1, <4>1, <4>2, ZenonT(30) DEF Scheduler!LifecycleInit
      <3>3. QED
        BY <1>3, Zenon
    <2>4. QED
      BY <2>2, <2>3, Zenon
  <1>4. CASE x # NoJob
    <2>1. CASE y = x
      BY <1>4, <2>1, Zenon
    <2>2. CASE JobStep(x, y)
      <3>1. Inv(x) /\ y # NoJob /\ Inv(y)
        BY <1>1, <1>4, <2>2, StepIsJob, Zenon
      <3>2. ASSUME NEW i, Inv(i), Forward(i, y)
            PROVE  Scheduler(j)!LaunchTasks(i)
        <4>1. \E keys \in SUBSET {k \in Keys(i) : i.attempts[k] = "Created"} :
                  y = UpdateTasks(i, keys, "Scheduled")
          BY <1>2, <3>1, <3>2, ZenonT(30)
        <4> /\ Scheduler(j)!CreatedKeys(i) = {k \in Keys(i) : i.attempts[k] = "Created"}
            /\ \A keys : Scheduler(j)!UpdateTasks(i, keys, "Scheduled") = UpdateTasks(i, keys, "Scheduled")
          BY SameMethods, ZenonT(30)
        <4>3. QED
          BY <4>1, ZenonT(30) DEF Scheduler!LaunchTasks
      <3>3. \A keys, s : s \in TaskState => Inv(RefreshJob(UpdateTasks(x, keys, s)))
        BY <3>1, Zenon DEF ActorLaws, Laws, SchedulerLaws, UpdateLaw, RefreshLaw
      <3>4. /\ Scheduler(j)!Keys(x) = Keys(x) /\ Scheduler(j)!Terminal = Terminal
            /\ \A keys, s : Scheduler(j)!UpdateTasks(x, keys, s) = UpdateTasks(x, keys, s)
            /\ \A n : Scheduler(j)!RefreshJob(n) = RefreshJob(n)
            /\ Scheduler(j)!CleanUpJob(x) = CleanUpJob(x)
        BY SameMethods, ZenonT(30) DEF Scheduler!Terminal, Terminal
      <3>5. ASSUME Forward(x, y)
            PROVE  Scheduler(j)!LifecycleNext
        <4> Scheduler(j)!WorkerRegistered
          BY <3>1, <3>2, <3>5, Zenon DEF Scheduler!WorkerRegistered
        <4>2. QED
          BY Zenon DEF Scheduler!LifecycleNext
      <3>6. ASSUME NEW k \in Keys(x),
                   \/ x.attempts[k] # "Created" /\ y = RefreshJob(UpdateTasks(x, {k}, "Running"))
                   \/ /\ x.attempts[k] # "Created"
                      /\ Forward(RefreshJob(UpdateTasks(x, {k}, "Succeeded")), y)
                   \/ Forward(RefreshJob(UpdateTasks(x, {k}, "Failed")), y)
                   \/ /\ x.attempts[k] = "Canceled" \/ x.state \in {"Succeeded", "Canceled"}
                      /\ y = UpdateTasks(x, {k}, "Canceled")
            PROVE  Scheduler(j)!LifecycleNext
        <4>1. ASSUME x.attempts[k] # "Created", y = RefreshJob(UpdateTasks(x, {k}, "Running"))
              PROVE  Scheduler(j)!HandleTaskRunning(k)
          BY <3>4, <4>1, ZenonT(30) DEF Scheduler!HandleTaskRunning
        <4>2. ASSUME x.attempts[k] # "Created",
                     Forward(RefreshJob(UpdateTasks(x, {k}, "Succeeded")), y)
              PROVE  Scheduler(j)!HandleTaskSucceeded(k)
          <5> USE <4>2
          <5> Scheduler(j)!LaunchTasks(RefreshJob(UpdateTasks(x, {k}, "Succeeded")))
            BY <3>2, <3>3, ZenonT(30) DEF TaskState
          <5>2. QED
            BY <3>4, ZenonT(30) DEF Scheduler!HandleTaskSucceeded
        <4>3. ASSUME Forward(RefreshJob(UpdateTasks(x, {k}, "Failed")), y)
              PROVE  Scheduler(j)!HandleTaskFailed(k)
          <5> Scheduler(j)!LaunchTasks(RefreshJob(UpdateTasks(x, {k}, "Failed")))
            BY <3>2, <3>3, <4>3, Zenon DEF TaskState
          <5>2. QED
            BY <3>4, Zenon DEF Scheduler!HandleTaskFailed
        <4>4. ASSUME x.attempts[k] = "Canceled" \/ x.state \in {"Succeeded", "Canceled"},
                     y = UpdateTasks(x, {k}, "Canceled")
              PROVE  Scheduler(j)!HandleTaskCanceled(k)
          BY <3>4, <4>4, Zenon DEF Scheduler!HandleTaskCanceled
        <4> k \in Scheduler(j)!Keys(x)
          BY <3>4, Zenon
        <4>6. QED
          BY <3>6, <4>1, <4>2, <4>3, <4>4, ZenonT(30) DEF Scheduler!LifecycleNext
      <3>7. ASSUME NEW keys \in SUBSET {k \in Keys(x) : x.attempts[k] \notin Terminal},
                   Forward(RefreshJob(UpdateTasks(x, keys, "Failed")), y)
            PROVE  Scheduler(j)!LifecycleNext
        <4>1. Scheduler(j)!LaunchTasks(RefreshJob(UpdateTasks(x, keys, "Failed")))
          BY <3>2, <3>3, <3>7, Zenon DEF TaskState
        <4> Scheduler(j)!WorkerLost(keys)
          BY <3>4, <4>1, Zenon DEF Scheduler!WorkerLost
        <4> keys \in SUBSET {k \in Scheduler(j)!Keys(x) : x.attempts[k] \notin Scheduler(j)!Terminal}
          BY <3>4, Zenon
        <4>4. QED
          BY Zenon DEF Scheduler!LifecycleNext
      <3>8. ASSUME x.state \notin {"Succeeded", "Canceled"}, y = CleanUpJob(x)
            PROVE  Scheduler(j)!LifecycleNext
        <4> Scheduler(j)!OutputEnded
          BY <3>4, <3>8, Zenon DEF Scheduler!OutputEnded
        <4>2. QED
          BY Zenon DEF Scheduler!LifecycleNext
      <3> Scheduler(j)!LifecycleNext
        BY <2>2, <3>5, <3>6, <3>7, <3>8, ZenonT(30) DEF JobStep
      <3>10. QED
        BY <1>4, Zenon
    <2>3. QED
      BY <1>1, <1>4, <2>1, <2>2, Zenon DEF JobFollows
  <1>5. QED
    BY <1>3, <1>4, Zenon

\* A handler that only runs tasks, or leaves the jobs alone.
LEMMA ForwardFollows ==
    ASSUME NEW jobs, NEW next
    PROVE  /\ JobsFollow(jobs, jobs)
           /\ JobsForward(jobs, next) => JobsFollow(jobs, next)
  BY ZenonT(30) DEF JobsFollow, JobFollows, JobsForward, JobStep

\* What update_task does to each of the jobs.
LEMMA UpdatedJob ==
    ASSUME ActorLaws, NEW d, Good(d), NEW k \in Key, Exists(d.jobs, k), NEW s \in TaskState
    PROVE  LET jobs == UpdatedJobs(d.jobs, {k}, s)
           IN  /\ jobs[k[1]] = UpdateTasks(d.jobs[k[1]], {<<k[2], k[3]>>}, s)
               /\ \A j \in Job : j # k[1] => jobs[j] = d.jobs[j]
  <1> DEFINE jobs == UpdatedJobs(d.jobs, {k}, s)
             own(j) == {<<x[2], x[3]>> : x \in {y \in {k} : y[1] = j}}
  <1>1. \A j \in Job : jobs[j] = IF d.jobs[j] = NoJob THEN NoJob ELSE UpdateTasks(d.jobs[j], own(j), s)
    BY Zenon DEF UpdatedJobs
  <1>2. own(k[1]) = {<<k[2], k[3]>>} /\ \A j : j # k[1] => own(j) = {}
    BY Zenon
  <1> k[1] \in Job /\ d.jobs[k[1]] # NoJob
    BY Zenon DEF Exists, ActorLaws, AttemptKeyLaw
  <1> \A j \in Job : d.jobs[j] # NoJob => UpdateTasks(d.jobs[j], {}, s) = d.jobs[j]
    BY Zenon DEF Good, Sound, JobsSound, ActorLaws, Laws, SchedulerLaws, UpdateNoneLaw
  <1> HIDE DEF own, jobs
  <1>5. QED
    BY <1>1, <1>2, ZenonT(30) DEF jobs

\* handle_update_task.
LEMMA UpdateTaskFollows ==
    ASSUME ActorLaws, NEW d, Good(d), NEW e, NEW k \in Key, Exists(d.jobs, k), NEW status \in Status,
           UpdatesJobs(d, e, k, status),
           status \in {"Running", "Succeeded"} => StateOf(d.jobs, k) # "Created",
           status = "Canceled" => StateOf(d.jobs, k) = "Canceled" \/ d.jobs[k[1]].state \in {"Succeeded", "Canceled"}
    PROVE  JobsFollow(d.jobs, e.jobs)
  <1> DEFINE i == k[1]
             key == <<k[2], k[3]>>
             updated == UpdatedJobs(d.jobs, {k}, status)
             refreshed == [updated EXCEPT ![i] = RefreshJob(updated[i])]
  <1>1. i \in Job /\ d.jobs[i] # NoJob /\ key \in Keys(d.jobs[i]) /\ status \in TaskState
    BY Zenon DEF Exists, Status, TaskState, ActorLaws, AttemptKeyLaw
  <1>2. /\ updated[i] = UpdateTasks(d.jobs[i], {key}, status)
        /\ \A j \in Job : j # i => updated[j] = d.jobs[j]
    BY <1>1, UpdatedJob, ZenonT(30)
  <1>3. /\ refreshed[i] = RefreshJob(UpdateTasks(d.jobs[i], {key}, status))
        /\ \A j \in Job : j # i => refreshed[j] = d.jobs[j]
    <2> DOMAIN updated = Job
      BY Zenon DEF UpdatedJobs
    <2> HIDE DEF updated
    <2>2. QED
      BY <1>1, <1>2, Zenon
  <1>4. \/ status = "Canceled" /\ e.jobs = updated
        \/ status = "Running" /\ e.jobs = refreshed
        \/ status \in {"Succeeded", "Failed"} /\ JobsForward(refreshed, e.jobs)
    <2>1. \A n : Good(n) => \A m : Schedules(n, m) => JobsForward(n.jobs, m.jobs)
      BY Zenon DEF ActorLaws, SchedulesForwardLaw
    <2> \/ status = "Canceled" /\ e.jobs = updated
        \/ status = "Running" /\ e.jobs = refreshed
        \/ status \in {"Succeeded", "Failed"} /\ \E n : Good(n) /\ n.jobs = refreshed /\ Schedules(n, e)
      BY Zenon DEF UpdatesJobs
    <2> HIDE DEF updated, refreshed
    <2>3. QED
      BY <2>1, ZenonT(30)
  <1> HIDE DEF updated, refreshed
  <1>5. /\ status \in {"Running", "Succeeded"} => d.jobs[i].attempts[key] # "Created"
        /\ status = "Canceled" =>
                d.jobs[i].attempts[key] = "Canceled" \/ d.jobs[i].state \in {"Succeeded", "Canceled"}
    BY Zenon DEF StateOf
  <1>6. refreshed[i] # NoJob
    <2> Inv(refreshed[i])
      <3>1. Inv(d.jobs[i])
        BY <1>1, Zenon DEF Good, Sound, JobsSound
      <3>2. Inv(UpdateTasks(d.jobs[i], {key}, status))
        BY <1>1, <3>1, Zenon DEF ActorLaws, Laws, SchedulerLaws, UpdateLaw
      <3> Inv(RefreshJob(UpdateTasks(d.jobs[i], {key}, status)))
        BY <3>2, Zenon DEF ActorLaws, Laws, SchedulerLaws, RefreshLaw
      <3>4. QED
        BY <1>3, Zenon
    <2>2. QED
      BY ZenonT(30) DEF ActorLaws, JobValueLaw
  <1> HIDE DEF key
  <1>7. CASE status = "Canceled" /\ e.jobs = updated
    <2> USE <1>7
    <2> JobStep(d.jobs[i], e.jobs[i])
      BY <1>1, <1>2, <1>5, ZenonT(30) DEF JobStep
    <2>2. QED
      BY <1>1, <1>2, ZenonT(30) DEF JobsFollow, JobFollows
  <1>8. CASE status = "Running" /\ e.jobs = refreshed
    <2> USE <1>8
    <2> JobStep(d.jobs[i], e.jobs[i])
      BY <1>1, <1>3, <1>5, ZenonT(30) DEF JobStep
    <2>2. QED
      BY <1>1, <1>3, ZenonT(30) DEF JobsFollow, JobFollows
  <1>9. CASE status \in {"Succeeded", "Failed"} /\ JobsForward(refreshed, e.jobs)
    <2>1. Forward(refreshed[i], e.jobs[i])
      BY <1>1, <1>6, <1>9, Zenon DEF JobsForward
    <2>2. JobStep(d.jobs[i], e.jobs[i])
      BY <1>1, <1>3, <1>5, <1>9, <2>1, ZenonT(30) DEF JobStep
    <2>3. \A j \in Job : j # i => IF d.jobs[j] = NoJob THEN e.jobs[j] = NoJob ELSE Forward(d.jobs[j], e.jobs[j])
      BY <1>3, <1>9, ZenonT(30) DEF JobsForward
    <2> \A j \in Job : j # i => JobFollows(d.jobs[j], e.jobs[j])
      BY <2>3, ZenonT(30) DEF JobFollows, JobStep
    <2>5. QED
      BY <1>1, <2>2, ZenonT(30) DEF JobsFollow, JobFollows
  <1>10. QED
    BY <1>4, <1>7, <1>8, <1>9, Zenon

\* A job is accepted, or cleaned up.
LEMMA JobHandlersFollow ==
    ASSUME ActorLaws, SystemInv, NEW j \in Job, HandleExecuteJob(j) \/ HandleCleanUpJob(j)
    PROVE  JobsFollow(driver.jobs, driver'.jobs)
  <1>1. Good(driver) /\ driver.jobs \in [Job -> JobValue]
    BY ZenonT(30) DEF SystemInv, SystemSound, Good, ActorLaws, FieldLaw
  <1>2. CASE HandleExecuteJob(j)
    <2> DEFINE d == driver
               accepted == [d EXCEPT !.jobs[j] = AcceptJob]
               refreshed == DriverRefreshJob(accepted, j)
    <2>1. d.jobs[j] = NoJob /\ driver' \in RunTasksAndScaleUp(refreshed)
      BY <1>2, Zenon DEF HandleExecuteJob
    <2>2. Inv(AcceptJob) /\ AcceptJob # NoJob /\ Inv(RefreshJob(AcceptJob)) /\ RefreshJob(AcceptJob) # NoJob
      BY Zenon DEF ActorLaws, Laws, SchedulerLaws, AcceptLaw, RefreshLaw, JobValueLaw
    <2>3. /\ Good(accepted) /\ accepted.jobs = [d.jobs EXCEPT ![j] = AcceptJob]
          /\ accepted.jobs[j] = AcceptJob
      BY <1>1, <2>1, <2>2 DEF ActorLaws, JobChangeLaw
    <2> HIDE DEF accepted
    <2>4. Good(refreshed) /\ refreshed.jobs = [accepted.jobs EXCEPT ![j] = RefreshJob(AcceptJob)]
      BY <2>2, <2>3, ZenonT(30) DEF ActorLaws, RefreshGoodLaw
    <2> HIDE DEF refreshed
    <2> JobsForward(refreshed.jobs, driver'.jobs)
      BY <2>1, <2>4, Zenon DEF ActorLaws, RunGoodLaw, SchedulesForwardLaw
    <2> /\ refreshed.jobs[j] = RefreshJob(AcceptJob)
        /\ \A i \in Job : i # j => refreshed.jobs[i] = d.jobs[i]
      BY <1>1, <2>3, <2>4, Zenon
    <2>7. JobFollows(d.jobs[j], driver'.jobs[j])
      BY <2>1, <2>2, Zenon DEF JobFollows, JobsForward
    <2>8. ASSUME NEW i \in Job, i # j
          PROVE  JobFollows(d.jobs[i], driver'.jobs[i])
      BY <2>8, ZenonT(30) DEF JobFollows, JobsForward, JobStep
    <2>9. QED
      BY <2>7, <2>8, Zenon DEF JobsFollow
  <1>3. CASE HandleCleanUpJob(j)
    <2>1. driver.jobs[j] # NoJob /\ driver.jobs[j].state \notin {"Succeeded", "Canceled"}
      <3> driver.jobs[j].state \in {"Draining", "Failed", "Running"}
        BY <1>3, ZenonT(30) DEF HandleCleanUpJob
      <3> NoJob.state = "None"
        BY Zenon DEF NoJob
      <3>3. QED
        BY Zenon
    <2>2. driver' = DriverCleanUpJob(driver, j)
      BY <1>3, ZenonT(30) DEF HandleCleanUpJob
    <2>3. driver'.jobs = [driver.jobs EXCEPT ![j] = CleanUpJob(driver.jobs[j])]
      BY <1>1, <2>1, <2>2, Zenon DEF ActorLaws, CleanUpGoodLaw
    <2> /\ driver'.jobs[j] = CleanUpJob(driver.jobs[j])
        /\ \A i \in Job : i # j => driver'.jobs[i] = driver.jobs[i]
      BY <1>1, <2>3, Zenon
    <2>5. QED
      BY <2>1, ZenonT(30) DEF JobsFollow, JobFollows, JobStep
  <1>4. QED
    BY <1>2, <1>3, Zenon

\* A worker registers, is late, or is idle.
LEMMA WorkerHandlersFollow ==
    ASSUME ActorLaws, SystemInv, NEW w \in Worker,
           HandleRegisterWorker(w) \/ HandleProbePendingWorker(w) \/ HandleProbeIdleWorker(w)
    PROVE  JobsFollow(driver.jobs, driver'.jobs)
  <1>1. Good(driver) /\ driver \in DriverRecord
    BY Zenon DEF SystemInv, SystemSound, Good
  <1>2. CASE HandleRegisterWorker(w)
    <2>1. CASE driver.pool[w] = "Pending"
      <3> DEFINE registered == [driver EXCEPT !.pool[w] = "Running",
                                              !.assigner = ActivateWorker(@, w)]
                 tracked == TrackWorkerActivity(registered, {w})
      <3>1. driver' \in RunTasks(tracked)
        BY <1>2, <2>1, Zenon DEF HandleRegisterWorker
      <3> Good(registered) /\ registered.jobs = driver.jobs
        BY <1>1, <2>1, ZenonT(30) DEF ActorLaws, RegisterGoodLaw
      <3> HIDE DEF registered
      <3> Good(tracked) /\ tracked.jobs = driver.jobs
        <4> registered \in DriverRecord
          BY Zenon DEF Good
        <4>2. QED
          BY Zenon DEF ActorLaws, TrackGoodLaw, TrackLaw
      <3> HIDE DEF tracked
      <3> JobsForward(tracked.jobs, driver'.jobs)
        BY <3>1, Zenon DEF ActorLaws, RunGoodLaw, SchedulesForwardLaw
      <3>5. QED
        BY ForwardFollows, Zenon
    <2>2. CASE driver.pool[w] # "Pending"
      BY <1>2, <2>2, ForwardFollows, Zenon DEF HandleRegisterWorker
    <2>3. QED
      BY <2>1, <2>2, Zenon
  <1>3. CASE HandleProbePendingWorker(w)
    <2> DEFINE failed == [driver EXCEPT !.pool[w] = "Failed", !.assigner = TrackWorkerFailedToStart(@)]
    <2> driver.pool[w] = "Pending" /\ WorkersSuffice(failed) /\ driver' = ScaleUpWorkers(failed)
      BY <1>3, ZenonT(30) DEF HandleProbePendingWorker
    <2> Good(failed) /\ failed.jobs = driver.jobs
      BY <1>1, ZenonT(30) DEF ActorLaws, FailedToStartGoodLaw
    <2> HIDE DEF failed
    <2> driver'.jobs = driver.jobs
      BY Zenon DEF ActorLaws, ScaleUpGoodLaw
    <2>4. QED
      BY ForwardFollows, Zenon
  <1>4. CASE HandleProbeIdleWorker(w)
    <2> driver'.jobs = driver.jobs
      BY <1>1, <1>4, Zenon DEF HandleProbeIdleWorker, StopWorker, DriverRecord
    <2>2. QED
      BY ForwardFollows, Zenon
  <1>5. QED
    BY <1>2, <1>3, <1>4, Zenon

\* A worker is lost: the attempts of a job that it had fail.
LEMMA LostWorkerFollows ==
    ASSUME ActorLaws, SystemInv, NEW w \in Worker, HandleProbeLostWorker(w)
    PROVE  JobsFollow(driver.jobs, driver'.jobs)
  <1> DEFINE probes == driver.idleProbes \ {w}
             keys == FindWorkerTasks(driver.assigner, w)
             stopped == [StopWorker(driver, w) EXCEPT !.idleProbes = @ \ {w},
                                                      !.assigner = DeactivateWorker(@, w)]
             lost == UpdateJobTasks(stopped, keys, "Failed")
             jobs == {k[1] : k \in keys}
  <1>1. Good(driver) /\ driver \in DriverRecord /\ probes \in SUBSET Worker
    BY Zenon DEF SystemInv, SystemSound, Good, ActorLaws, FieldLaw
  <1>2. w \in Running(driver) /\ driver' \in RefreshJobs(lost)[jobs]
    BY Zenon DEF Running, HandleProbeLostWorker
  <1>3. stopped = [StopWorker(driver, w) EXCEPT !.idleProbes = probes,
                                                !.assigner = DeactivateWorker(@, w)]
    BY <1>1, <1>2, Zenon DEF StopWorker, Running, DriverRecord
  <1>4. Good(stopped) /\ stopped.jobs = driver.jobs
    BY <1>1, <1>2, <1>3, ZenonT(30) DEF ActorLaws, DeactivateGoodLaw
  <1> HIDE DEF stopped
  <1>5. /\ keys \in SUBSET Key
        /\ \A k \in keys : Exists(driver.jobs, k)
    <2> /\ keys \in SUBSET Key
        /\ \A k \in keys : \E s \in Slot : k \in driver.assigner.slots[s]
      BY <1>1 DEF FindWorkerTasks, ActorLaws, FieldLaw
    <2> SlotSound(driver)
      BY <1>1, Zenon DEF Good, Sound
    <2>3. QED
      BY DEF SlotSound, ActorLaws, SlotLaw
  <1> HIDE DEF keys
  <1>6. Good(lost) /\ Leads(stopped, lost) /\ lost.jobs = UpdatedJobs(driver.jobs, keys, "Failed")
    BY <1>4, <1>5 DEF TaskState, ActorLaws, UpdateGoodLaw
  <1> HIDE DEF lost
  <1>7. jobs \in SUBSET Job /\ \A j \in jobs : lost.jobs[j] # NoJob
    <2> \A k \in keys : k[1] \in Job /\ driver.jobs[k[1]] # NoJob
      BY <1>5, ZenonT(30) DEF Exists, ActorLaws, AttemptKeyLaw
    <2>2. QED
      BY <1>4, <1>6, ZenonT(30) DEF Leads, JobsPersist
  <1>8. JobsRefreshed(lost.jobs, driver'.jobs, jobs)
    <2> HIDE DEF jobs
    <2>1. QED
      BY <1>2, <1>6, <1>7, Zenon DEF ActorLaws, RefreshJobsGoodLaw
  <1> ASSUME NEW j \in Job
      PROVE  JobFollows(driver.jobs[j], driver'.jobs[j])
    <2> DEFINE own == {<<k[2], k[3]>> : k \in {x \in keys : x[1] = j}}
               x == driver.jobs[j]
               live == {k \in own \cap Keys(x) : x.attempts[k] \notin Terminal}
    <2>1. lost.jobs[j] = IF x = NoJob THEN NoJob ELSE UpdateTasks(x, own, "Failed")
      BY <1>6, ZenonT(30) DEF UpdatedJobs
    <2>2. CASE x = NoJob
      BY <1>8, <2>1, <2>2, Zenon DEF JobsRefreshed, JobFollows
    <2>3. CASE x # NoJob
      <3> USE <2>3
      <3>1. Inv(x) /\ lost.jobs[j] # NoJob
        BY <1>1, <1>4, <1>6, ZenonT(30) DEF Good, Sound, JobsSound, Leads, JobsPersist
      <3>2. CASE j \notin jobs
        <4> USE <3>2
        <4>1. own = {}
          BY Zenon
        <4> HIDE DEF own
        <4> lost.jobs[j] = x
          BY <2>1, <3>1, <4>1, Zenon DEF ActorLaws, Laws, SchedulerLaws, UpdateNoneLaw
        <4> Forward(x, driver'.jobs[j])
          BY <1>8, Zenon DEF JobsRefreshed
        <4>4. QED
          BY Zenon DEF JobFollows, JobStep
      <3>3. CASE j \in jobs
        <4> HIDE DEF own, jobs
        <4> /\ live \in SUBSET own /\ live \in SUBSET {k \in Keys(x) : x.attempts[k] \notin Terminal}
            /\ \A k \in own \cap Keys(x) : k \in live \/ x.attempts[k] \in Terminal
          BY Zenon
        <4> HIDE DEF live
        <4>2. UpdateTasks(x, own, "Failed") = UpdateTasks(x, live, "Failed")
          BY Zenon DEF ActorLaws, Laws, SchedulerLaws, FailLiveLaw
        <4> Forward(RefreshJob(UpdateTasks(x, live, "Failed")), driver'.jobs[j])
          BY <1>8, <2>1, <3>1, <3>3, <4>2, Zenon DEF JobsRefreshed
        <4>4. QED
          BY ZenonT(30) DEF JobFollows, JobStep
      <3>4. QED
        BY <3>2, <3>3, Zenon
    <2>4. QED
      BY <2>2, <2>3, Zenon
  <1>10. QED
    BY Zenon DEF JobsFollow

\* A status is handled, from the mailbox or from a worker.
LEMMA StatusFollows ==
    ASSUME ActorLaws, SystemInv, (\E m \in driver.mail : HandleMail(m)) \/ (\E r \in reports : HandleReport(r))
    PROVE  JobsFollow(driver.jobs, driver'.jobs)
  <1>1. Good(driver) /\ driver \in DriverRecord /\ Carried(driver, running, reports) /\ reports \subseteq Message
    BY Zenon DEF SystemInv, SystemSound, SystemTyped, Good
  <1>2. ASSUME NEW d, Good(d), d.jobs = driver.jobs, NEW k \in Key, NEW status \in Status,
               Exists(driver.jobs, k),
               status \in {"Running", "Succeeded"} => Launched(driver, k),
               status = "Canceled" => Dropped(driver, k),
               driver' \in HandleUpdateTask(d, k, status)
        PROVE  JobsFollow(driver.jobs, driver'.jobs)
    <2> USE <1>2
    <2> UpdatesJobs(d, driver', k, status)
      BY ZenonT(30) DEF ActorLaws, UpdateTaskGoodLaw
    <2> /\ status \in {"Running", "Succeeded"} => StateOf(d.jobs, k) # "Created"
        /\ status = "Canceled" =>
              StateOf(d.jobs, k) = "Canceled" \/ d.jobs[k[1]].state \in {"Succeeded", "Canceled"}
      BY Zenon DEF Launched, Dropped
    <2>3. QED
      BY UpdateTaskFollows, ZenonT(30)
  <1>3. ASSUME NEW m \in driver.mail, HandleMail(m)
        PROVE  JobsFollow(driver.jobs, driver'.jobs)
    <2> DEFINE mail == driver.mail \ {m}
               d == [driver EXCEPT !.mail = @ \ {m}]
    <2>1. /\ m.key \in Key /\ m.status \in Status /\ mail \subseteq Message
          /\ Exists(driver.jobs, m.key)
          /\ m.status \in {"Running", "Succeeded"} => Launched(driver, m.key)
          /\ m.status = "Canceled" => Dropped(driver, m.key)
      BY <1>1, ZenonT(30) DEF Good, Sound, FlightSound, ActorLaws, FieldLaw
    <2>2. driver' \in HandleUpdateTask(d, m.key, m.status)
      BY <1>3, Zenon DEF HandleMail
    <2>3. d = [driver EXCEPT !.mail = mail]
      BY Zenon
    <2>4. mail \subseteq driver.mail
      BY Zenon
    <2> HIDE DEF mail, d
    <2> /\ d \in DriverRecord /\ d.jobs = driver.jobs /\ d.assigner = driver.assigner
        /\ d.pool = driver.pool /\ d.taskProbes = driver.taskProbes
        /\ d.sequences = driver.sequences /\ d.running = driver.running
        /\ d.mail = mail /\ d.calls = driver.calls
      BY <1>1, <2>1, <2>3, Zenon DEF DriverRecord
    <2> Good(d)
      BY <1>1, <2>4, FlightChange, ZenonT(30)
    <2>7. QED
      BY <1>2, <2>1, <2>2, ZenonT(30)
  <1>4. ASSUME NEW r \in reports, HandleReport(r)
        PROVE  JobsFollow(driver.jobs, driver'.jobs)
    <2> DEFINE n == Sequence(r.status)
               sequences == [driver.sequences EXCEPT ![r.key] = n]
               d == [driver EXCEPT !.sequences[r.key] = Sequence(r.status)]
    <2>1. /\ r.key \in Key /\ r.status \in Status /\ n \in 0 .. 2
          /\ Launched(driver, r.key) /\ (r.status = "Canceled" => Dropped(driver, r.key))
      BY <1>1 DEF Carried, Message, Sequence
    <2>2. driver' = driver \/ driver' \in HandleUpdateTask(d, r.key, r.status)
      BY <1>4, Zenon DEF HandleReport
    <2>3. d = [driver EXCEPT !.sequences = sequences]
      BY Zenon
    <2>4. sequences \in [Key -> 0 .. 2]
      <3> HIDE DEF n
      <3> driver.sequences \in [Key -> 0 .. 2]
        BY <1>1, Zenon DEF ActorLaws, FieldLaw
      <3>2. QED
        BY <2>1, Zenon
    <2> HIDE DEF sequences, d
    <2>5. /\ d \in DriverRecord /\ d.jobs = driver.jobs /\ d.assigner = driver.assigner
          /\ d.pool = driver.pool /\ d.taskProbes = driver.taskProbes
          /\ d.running = driver.running /\ d.mail = driver.mail /\ d.calls = driver.calls
      BY <1>1, <2>3, <2>4, Zenon DEF DriverRecord
    <2>6. Good(d)
      BY <1>1, <2>5, FlightChange, Zenon
    <2>7. Exists(driver.jobs, r.key)
      BY <2>1, Zenon DEF Launched
    <2>8. CASE driver' = driver
      BY <2>8, ForwardFollows, Zenon
    <2>9. CASE driver' \in HandleUpdateTask(d, r.key, r.status)
      BY <1>2, <2>1, <2>5, <2>6, <2>7, <2>9, ZenonT(30)
    <2>10. QED
      BY <2>2, <2>8, <2>9, Zenon
  <1>5. QED
    BY <1>3, <1>4, Zenon

\* Every step of the system is a step of JobLifecycle for each of the jobs.
LEMMA NextFollows ==
    ASSUME ActorLaws, SystemInv, Next
    PROVE  JobsFollow(driver.jobs, driver'.jobs)
  <1>1. Good(driver) /\ driver \in DriverRecord
    BY Zenon DEF SystemInv, SystemSound, Good
  <1>2. CASE driver'.jobs = driver.jobs
    BY <1>2, ForwardFollows, Zenon
  <1>3. ASSUME NEW k, HandleProbePendingTask(k)
        PROVE  driver'.jobs = driver.jobs
    BY <1>1, <1>3, ZenonT(30) DEF HandleProbePendingTask, DriverRecord
  <1>4. ASSUME NEW k, NEW status, DriverTaskEnds(k, status)
        PROVE  driver'.jobs = driver.jobs
    BY <1>1, <1>4, Zenon DEF DriverTaskEnds, DriverRecord
  <1>5. ASSUME NEW c, NextWorkerCall(c)
        PROVE  driver'.jobs = driver.jobs
    <2> driver' = Answered(c) \/ driver' = [Answered(c) EXCEPT !.mail = @ \cup Mail({c.key}, "Failed")]
      BY <1>5, Zenon DEF NextWorkerCall, WorkerRunTask, LoseRunTask, WorkerStopTask, WorkerStop, LoseStop
    <2>2. QED
      BY <1>1, ZenonT(30) DEF Answered, DriverRecord
  <1>6. CASE \/ \E w \in Worker : \E k \in running[w], status \in Outcome : WorkerTaskEnds(w, k, status)
             \/ \E w \in Worker : WorkerCrash(w)
             \/ \E r \in reports : LoseReport(r)
    <2> driver' = driver
      BY <1>6, ZenonT(30) DEF WorkerTaskEnds, WorkerCrash, LoseReport
    <2>2. QED
      BY <1>2, Zenon
  <1>7. QED
    BY <1>2, <1>3, <1>4, <1>5, <1>6, JobHandlersFollow, WorkerHandlersFollow, LostWorkerFollows,
       StatusFollows, ZenonT(30) DEF Next
=============================================================================
