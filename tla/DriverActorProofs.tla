------------------------- MODULE DriverActorProofs -------------------------
(***************************************************************************)
(* Proofs about the operations that the handlers of module Driver chain on *)
(* the state of the actor, for every set of jobs, job graph, number of     *)
(* workers and limit: each keeps the invariant Good and takes a state to   *)
(* one it leads to (DriverActorInvariant).                                 *)
(***************************************************************************)
EXTENDS DriverActorInvariant, TLAPS

\* The keys of a descriptor are the pairs of a task and an attempt it has.
LEMMA DescriptorKeys ==
    ASSUME NEW len \in [Task -> Nat]
    PROVE  /\ \A t \in Task : \A a \in 1 .. len[t] : <<t, a>> \in KeysUpTo(len)
           /\ \A k \in KeysUpTo(len) : k[1] \in Task /\ k[2] \in 1 .. len[k[1]] /\ k = <<k[1], k[2]>>
  BY DEF KeysUpTo

-----------------------------------------------------------------------------
(* Attempts.                                                               *)

\* The values a job can have.
LEMMA JobValueFacts ==
    /\ \A x : Inv(x) => x \in JobValue /\ x # NoJob
    /\ \A x \in JobValue : x # NoJob => DescriptorOK(x)
  <1>1. ASSUME NEW x, Inv(x)
        PROVE  x \in JobValue /\ x # NoJob
    <2> x.len \in [Task -> Nat] /\ x \in JobDescriptor(x.len)
      BY <1>1, Zenon DEF Inv, DescriptorOK
    <2> x.state \in JobState
      BY Zenon DEF JobDescriptor
    <2> x # NoJob
      BY DEF NoJob, JobState
    <2>4. QED
      BY Zenon DEF JobValue
  <1>2. ASSUME NEW x \in JobValue, x # NoJob
        PROVE  DescriptorOK(x)
    <2> PICK len \in [Task -> Nat] : x \in JobDescriptor(len)
      BY <1>2, Zenon DEF JobValue
    <2> x.len = len
      BY Zenon DEF JobDescriptor
    <2>3. QED
      BY Zenon DEF DescriptorOK
  <1>3. QED
    BY <1>1, <1>2, Zenon

\* The parts of the key of an attempt.
LEMMA AttemptKeyFacts ==
    /\ \A k \in Key : /\ k[1] \in Job /\ k[2] \in Task /\ k[3] \in 1 .. AttemptLimit
                      /\ k = <<k[1], k[2], k[3]>> /\ StageOf[k[2]] \in Stage
    /\ \A j \in Job, t \in Task, n \in 1 .. AttemptLimit : <<j, t, n>> \in Key
  <1> Key = Job \X Task \X (1 .. AttemptLimit)
    BY ActorAssumption, Zenon DEF AttemptLimit
  <1> \A k \in Key : /\ k[1] \in Job /\ k[2] \in Task /\ k[3] \in 1 .. AttemptLimit
                     /\ k = <<k[1], k[2], k[3]>>
    OBVIOUS
  <1> \A k \in Key : StageOf[k[2]] \in Stage
    BY JobGraphAssumption, Zenon
  <1>4. QED
    BY Zenon

\* Slots, and what else `assigned` may hold.
LEMMA SlotFacts ==
    /\ \A s \in Slot : s[1] \in Worker /\ s[2] \in 1 .. WorkerTaskSlots /\ s = <<s[1], s[2]>>
    /\ \A w \in Worker, i \in 1 .. WorkerTaskSlots : <<w, i>> \in Slot
    /\ Unassigned \notin Slot /\ OnDriver \notin Slot /\ Unassigned # OnDriver
  BY DEF Slot, Unassigned, OnDriver

\* The fields of the state of the actor.
LEMMA FieldFacts ==
    ASSUME NEW d \in DriverRecord
    PROVE  /\ d.jobs \in [Job -> JobValue] /\ d.assigner \in TaskAssigner
           /\ d.pool \in [Worker -> PoolState] /\ d.idleProbes \subseteq Worker
           /\ d.taskProbes \subseteq Key /\ d.sequences \in [Key -> 0 .. 2]
           /\ d.running \subseteq Key /\ d.mail \subseteq Message /\ d.calls \subseteq Calls
           /\ d.assigner.slots \in [Slot -> SUBSET Key] /\ d.assigner.driverTasks \subseteq Key
           /\ d.assigner.assigned \in [Key -> Slot \cup {Unassigned, OnDriver}]
           /\ \A m \in d.mail : m.key \in Key /\ m.status \in Status
           /\ \A c \in d.calls : c.type \in {"RunTask", "StopTask"} => c.key \in Key
  <1> /\ d.jobs \in [Job -> JobValue] /\ d.assigner \in TaskAssigner
      /\ d.pool \in [Worker -> PoolState] /\ d.idleProbes \subseteq Worker
      /\ d.taskProbes \subseteq Key /\ d.sequences \in [Key -> 0 .. 2]
      /\ d.running \subseteq Key /\ d.mail \subseteq Message /\ d.calls \subseteq Calls
    BY Zenon DEF DriverRecord
  <1>2. /\ d.assigner.slots \in [Slot -> SUBSET Key] /\ d.assigner.driverTasks \subseteq Key
        /\ d.assigner.assigned \in [Key -> Slot \cup {Unassigned, OnDriver}]
    BY Zenon DEF TaskAssigner
  <1> \A m \in d.mail : m.key \in Key /\ m.status \in Status
    BY Zenon DEF Message
  <1> \A c \in Calls : c.type \in {"RunTask", "StopTask"} => c.key \in Key
    BY Zenon DEF Calls
  <1>5. QED
    BY <1>2, Zenon

\* What is known of an attempt stays true.
LEMMA LeadsKeeps ==
    ASSUME NEW d \in DriverRecord, NEW e \in DriverRecord, Leads(d, e), NEW k \in Key
    PROVE  /\ Exists(d.jobs, k) => Exists(e.jobs, k)
           /\ Gone(d.assigner, k) => Gone(e.assigner, k)
           /\ Launched(d, k) => Launched(e, k)
           /\ Dropped(d, k) => Dropped(e, k)
  <1>1. k[1] \in Job
    BY AttemptKeyFacts, Zenon
  <1> Exists(d.jobs, k) => /\ Exists(e.jobs, k)
                           /\ Persists(d.jobs[k[1]], e.jobs[k[1]])
                           /\ <<k[2], k[3]>> \in Keys(d.jobs[k[1]])
    BY <1>1 DEF Leads, JobsPersist, Exists, Persists
  <1>3. Gone(d.assigner, k) => Gone(e.assigner, k)
    BY Zenon DEF Leads, Gone
  <1> Launched(d, k) => Launched(e, k)
    BY ZenonT(30) DEF Launched, StateOf, Persists, Leads
  <1> Dropped(d, k) => Dropped(e, k)
    BY <1>3, Zenon DEF Dropped, StateOf, Persists
  <1>6. QED
    BY <1>3, Zenon

\* Persists is transitive.
LEMMA PersistsTransitive ==
    ASSUME NEW i, NEW j, NEW n, Persists(i, j), Persists(j, n)
    PROVE  Persists(i, n)
  BY Zenon DEF Persists

\* Leads is transitive.
LEMMA LeadsTransitive ==
    ASSUME NEW d \in DriverRecord, NEW e \in DriverRecord, NEW f \in DriverRecord,
           Leads(d, e), Leads(e, f)
    PROVE  Leads(d, f)
  <1>1. JobsPersist(d.jobs, f.jobs)
    BY PersistsTransitive, Zenon DEF Leads, JobsPersist
  <1>2. \A k \in Key :
            d.assigner.assigned[k] # Unassigned => f.assigner.assigned[k] = d.assigner.assigned[k]
    BY Zenon DEF Leads
  <1> e.calls \subseteq f.calls /\ e.mail \subseteq f.mail
      /\ d.calls \subseteq f.calls /\ d.mail \subseteq f.mail /\ f.sequences = d.sequences
    BY Zenon DEF Leads
  <1>4. ASSUME NEW s \in Slot, NEW k \in f.assigner.slots[s], k \notin d.assigner.slots[s]
        PROVE  /\ d.assigner.assigned[k] = Unassigned
               /\ Call("RunTask", s[1], k) \in f.calls \/ InMail(f, k, "Failed")
    <2>1. k \in Key
      BY FieldFacts, Zenon
    <2>2. CASE k \in e.assigner.slots[s]
      BY <1>4, <2>2, Zenon DEF Leads, InMail
    <2>3. CASE k \notin e.assigner.slots[s]
      BY <2>1, <2>3, Zenon DEF Leads
    <2>4. QED
      BY <2>2, <2>3, Zenon
  <1> ASSUME NEW k \in f.assigner.driverTasks
      PROVE  \/ k \in d.assigner.driverTasks /\ k \notin d.running
             \/ k \in f.running \/ InMail(f, k, "Failed")
    BY Zenon DEF Leads, InMail
  <1>6. QED
    BY <1>1, <1>2, <1>4, Zenon DEF Leads

\* Messages stay sound, and the state is sound where the new ones are.
LEMMA FlightStaysSound ==
    ASSUME NEW d \in DriverRecord, NEW e \in DriverRecord, Leads(d, e), FlightSound(d),
           \A k \in e.running \ d.running : Launched(e, k) /\ e.assigner.assigned[k] = OnDriver,
           \A m \in e.mail \ d.mail :
                /\ Exists(e.jobs, m.key)
                /\ m.status \in {"Running", "Succeeded"} => Launched(e, m.key)
                /\ m.status = "Canceled" => Dropped(e, m.key),
           \A c \in e.calls \ d.calls :
                /\ c.type = "RunTask" => Launched(e, c.key)
                /\ c.type = "StopTask" => Dropped(e, c.key),
           \A k \in e.taskProbes \ d.taskProbes : Exists(e.jobs, k)
    PROVE  FlightSound(e)
  <1> \A k \in Key : /\ Exists(d.jobs, k) => Exists(e.jobs, k)
                     /\ Launched(d, k) => Launched(e, k)
                     /\ Dropped(d, k) => Dropped(e, k)
    BY LeadsKeeps, Zenon
  <1>2. ASSUME NEW k \in e.running
        PROVE  Launched(e, k) /\ e.assigner.assigned[k] = OnDriver
    <2>1. CASE k \in d.running
      <3> k \in Key /\ Launched(d, k) /\ d.assigner.assigned[k] = OnDriver
        BY <2>1, FieldFacts, Zenon DEF FlightSound
      <3>2. QED
        BY SlotFacts, Zenon DEF Leads
    <2>2. QED
      BY <2>1, Zenon
  <1>3. ASSUME NEW m \in e.mail
        PROVE  /\ Exists(e.jobs, m.key)
               /\ m.status \in {"Running", "Succeeded"} => Launched(e, m.key)
               /\ m.status = "Canceled" => Dropped(e, m.key)
    BY FieldFacts, Zenon DEF FlightSound
  <1> ASSUME NEW c \in e.calls
      PROVE  /\ c.type = "RunTask" => Launched(e, c.key)
             /\ c.type = "StopTask" => Dropped(e, c.key)
    BY FieldFacts, Zenon DEF FlightSound
  <1> ASSUME NEW k \in e.taskProbes
      PROVE  Exists(e.jobs, k)
    BY FieldFacts, Zenon DEF FlightSound
  <1>6. QED
    BY <1>2, <1>3, Zenon DEF FlightSound

\* The slots stay sound when some are cleared, with their workers, and the
\* workers of the others stay active.
LEMMA SlotsStaySound ==
    ASSUME NEW d \in DriverRecord, NEW e \in DriverRecord, SlotSound(d),
           e.jobs = d.jobs, e.assigner.assigned = d.assigner.assigned,
           e.assigner.driverTasks = d.assigner.driverTasks,
           \A s \in Slot :
                /\ e.assigner.resource[s[1]] = "Absent" => d.assigner.resource[s[1]] = "Absent"
                /\ \/ e.assigner.slots[s] = {}
                   \/ /\ e.assigner.slots[s] = d.assigner.slots[s]
                      /\ d.assigner.resource[s[1]] = "Active" => e.assigner.resource[s[1]] = "Active"
    PROVE  SlotSound(e)
  <1>1. Shareable({})
    BY Zenon DEF Shareable
  <1> ASSUME NEW s \in Slot
      PROVE  /\ Shareable(e.assigner.slots[s])
             /\ \A k \in e.assigner.slots[s] :
                  e.assigner.assigned[k] = s /\ e.assigner.resource[s[1]] = "Active"
    <2>1. CASE e.assigner.slots[s] = {}
      BY <1>1, <2>1, Zenon
    <2>2. CASE /\ e.assigner.slots[s] = d.assigner.slots[s]
               /\ d.assigner.resource[s[1]] = "Active" => e.assigner.resource[s[1]] = "Active"
      <3> /\ Shareable(d.assigner.slots[s])
          /\ \A k \in d.assigner.slots[s] :
                  d.assigner.assigned[k] = s /\ d.assigner.resource[s[1]] = "Active"
        BY Zenon DEF SlotSound
      <3>2. QED
        BY <2>2, Zenon
    <2>3. QED
      BY <2>1, <2>2, Zenon
  <1> \A k \in Key, s \in Slot : e.assigner.assigned[k] = s => e.assigner.resource[s[1]] # "Absent"
    BY DEF SlotSound
  <1>4. QED
    BY DEF SlotSound

\* Where the jobs only move on, what an operation leaves alone stays sound.
LEMMA RestStaysSound ==
    ASSUME Laws, NEW d \in DriverRecord, NEW e \in DriverRecord,
           JobsPersist(d.jobs, e.jobs), Sound(d)
    PROVE  LET a == d.assigner
               b == e.assigner
           IN  /\ e.pool = d.pool /\ b.resource = a.resource /\ b.requested = a.requested =>
                    PoolSound(e)
               /\ b.queue = a.queue /\ b.assigned = a.assigned => QueueSound(e)
               /\ b.resource = a.resource /\ b.slots = a.slots
                    /\ b.driverTasks = a.driverTasks /\ b.assigned = a.assigned => SlotSound(e)
               /\ b.resource = a.resource /\ b.streams = a.streams
                    /\ b.assigned = a.assigned => StreamsSound(e)
  <1> DEFINE a == d.assigner
             b == e.assigner
  <1>1. \A k \in Key : Exists(d.jobs, k) => Exists(e.jobs, k)
    BY AttemptKeyFacts DEF Exists, JobsPersist, Persists
  <1>2. ASSUME e.pool = d.pool, b.resource = a.resource, b.requested = a.requested
        PROVE  PoolSound(e)
    BY <1>2 DEF Sound, PoolSound, Pending
  <1>3. ASSUME b.queue = a.queue, b.assigned = a.assigned
        PROVE  QueueSound(e)
    <2> \A i \in DOMAIN a.queue : RegionKeys(a.queue[i]) \in SUBSET Key
      <3> a.queue \in Seq(TaskRegion)
        BY FieldFacts, Zenon DEF TaskAssigner
      <3>2. QED
        BY DEF Laws, AssignerLaws, RegionKeyLaw
    <2>2. QED
      BY <1>1, <1>3, Zenon DEF Sound, QueueSound
  <1>4. ASSUME b.resource = a.resource, b.slots = a.slots, b.driverTasks = a.driverTasks,
               b.assigned = a.assigned
        PROVE  SlotSound(e)
    BY <1>1, <1>4 DEF Sound, SlotSound
  <1>5. ASSUME b.resource = a.resource, b.streams = a.streams, b.assigned = a.assigned
        PROVE  StreamsSound(e)
    <2> SUFFICES ASSUME NEW k \in Key, NEW s \in Slot,
                        a.assigned[k] = s, a.resource[s[1]] = "Active",
                        k \notin a.streams[s[1]]
                 PROVE  e.jobs[k[1]].stages[StageOf[k[2]]] = "Inactive"
      BY <1>5, Zenon DEF StreamsSound
    <2>1. d.jobs[k[1]].stages[StageOf[k[2]]] = "Inactive"
      BY Zenon DEF Sound, StreamsSound
    <2> Exists(d.jobs, k)
      BY SlotFacts, Zenon DEF Sound, SlotSound
    <2> k[1] \in Job /\ StageOf[k[2]] \in Stage
      BY AttemptKeyFacts, Zenon
    <2>4. QED
      BY <2>1 DEF Exists, JobsPersist, Persists
  <1>6. QED
    BY <1>2, <1>3, <1>4, <1>5, Zenon

\* Leads, where nothing is assigned.
LEMMA LeadsByLoss ==
    ASSUME NEW d \in DriverRecord, NEW e \in DriverRecord, JobsPersist(d.jobs, e.jobs),
           e.assigner.assigned = d.assigner.assigned,
           \A s \in Slot : e.assigner.slots[s] \subseteq d.assigner.slots[s],
           e.assigner.driverTasks \subseteq d.assigner.driverTasks,
           e.assigner.driverTasks \cap d.running \subseteq e.running,
           d.calls \subseteq e.calls, d.mail \subseteq e.mail, e.sequences = d.sequences
    PROVE  Leads(d, e)
  BY Zenon DEF Leads

\* Jobs that do not change persist.
LEMMA SameJobsPersist ==
    \A jobs : JobsPersist(jobs, jobs)
  BY Zenon DEF JobsPersist, Persists

-----------------------------------------------------------------------------
(* The operations that run_job_action chains.                              *)

\* Where only the jobs and the idle probes change.
LEMMA JobsChange ==
    ASSUME Laws, NEW d, Good(d), NEW e \in DriverRecord, JobsSound(e), JobsPersist(d.jobs, e.jobs),
           e.assigner = d.assigner, e.pool = d.pool, e.taskProbes = d.taskProbes,
           e.sequences = d.sequences, e.running = d.running, e.mail = d.mail, e.calls = d.calls
    PROVE  Good(e) /\ Leads(d, e)
  <1> d \in DriverRecord /\ Sound(d)
    BY Zenon DEF Good
  <1> Leads(d, e)
    BY LeadsByLoss, Zenon
  <1> PoolSound(e) /\ QueueSound(e) /\ SlotSound(e) /\ StreamsSound(e)
    BY RestStaysSound, Zenon
  <1> FlightSound(e)
    BY FlightStaysSound, Zenon DEF Sound
  <1>5. QED
    BY Zenon DEF Good, Sound

\* track_worker_activity: only the idle probes change.
LEMMA TrackEffects ==
    ASSUME NEW d \in DriverRecord, NEW workers
    PROVE  LET e == TrackWorkerActivity(d, workers)
           IN  /\ e \in DriverRecord
               /\ e.jobs = d.jobs /\ e.assigner = d.assigner /\ e.pool = d.pool
               /\ e.taskProbes = d.taskProbes /\ e.sequences = d.sequences
               /\ e.running = d.running /\ e.mail = d.mail /\ e.calls = d.calls
  <1>1. CASE "worker idle" \in Trouble
    <2> DEFINE probes == d.idleProbes \cup (workers \cap Running(d))
    <2>1. probes \subseteq Worker
      BY FieldFacts, Zenon DEF Running
    <2> HIDE DEF probes
    <2>2. /\ [d EXCEPT !.idleProbes = probes] \in DriverRecord
          /\ LET e == [d EXCEPT !.idleProbes = probes]
             IN  /\ e.jobs = d.jobs /\ e.assigner = d.assigner /\ e.pool = d.pool
                 /\ e.taskProbes = d.taskProbes /\ e.sequences = d.sequences
                 /\ e.running = d.running /\ e.mail = d.mail /\ e.calls = d.calls
      BY <2>1, Zenon DEF DriverRecord
    <2> TrackWorkerActivity(d, workers) = [d EXCEPT !.idleProbes = probes]
      BY <1>1, ZenonT(30) DEF TrackWorkerActivity, probes
    <2>4. QED
      BY <2>2, Zenon
  <1>2. CASE "worker idle" \notin Trouble
    BY <1>2, ZenonT(30) DEF TrackWorkerActivity
  <1>3. QED
    BY <1>1, <1>2, ZenonT(30)

\* Tracking the activity of workers is an operation of the actor.
LEMMA TrackGood ==
    ASSUME Laws, NEW d, Good(d), NEW workers
    PROVE  Good(TrackWorkerActivity(d, workers)) /\ Leads(d, TrackWorkerActivity(d, workers))
  <1> DEFINE e == TrackWorkerActivity(d, workers)
  <1> d \in DriverRecord /\ JobsSound(d)
    BY Zenon DEF Good, Sound
  <1> /\ e \in DriverRecord
      /\ e.jobs = d.jobs /\ e.assigner = d.assigner /\ e.pool = d.pool
      /\ e.taskProbes = d.taskProbes /\ e.sequences = d.sequences
      /\ e.running = d.running /\ e.mail = d.mail /\ e.calls = d.calls
    BY TrackEffects, Zenon
  <1> HIDE DEF e
  <1> JobsSound(e) /\ JobsPersist(d.jobs, e.jobs)
    BY SameJobsPersist, Zenon DEF JobsSound
  <1> Good(e) /\ Leads(d, e)
    BY JobsChange, Zenon
  <1>5. QED
    BY Zenon DEF e

\* Nothing new is queued or assigned: what is, exists in `jobs`.
Backed(d, jobs) ==
    /\ \A i \in DOMAIN d.assigner.queue : \A k \in RegionKeys(d.assigner.queue[i]) : Exists(jobs, k)
    /\ \A k \in Key : d.assigner.assigned[k] # Unassigned => Exists(jobs, k)

\* Some regions are taken out of the queue.
LEMMA QueueShrinks ==
    ASSUME Laws, NEW d \in DriverRecord, NEW e \in DriverRecord, JobsPersist(d.jobs, e.jobs), Sound(d),
           NEW f \in [DOMAIN e.assigner.queue -> DOMAIN d.assigner.queue],
           \A i, n \in DOMAIN e.assigner.queue : f[i] = f[n] => i = n,
           \A i \in DOMAIN e.assigner.queue :
                /\ e.assigner.queue[i] = d.assigner.queue[f[i]]
                /\ \A k \in RegionKeys(e.assigner.queue[i]) :
                        e.assigner.assigned[k] = d.assigner.assigned[k]
    PROVE  QueueSound(e)
  <1> DEFINE p == d.assigner.queue
             q == e.assigner.queue
  <1>1. \A k \in Key : Exists(d.jobs, k) => Exists(e.jobs, k)
    BY AttemptKeyFacts DEF Exists, JobsPersist, Persists
  <1>2. \A i \in DOMAIN p : RegionKeys(p[i]) \in SUBSET Key
    <2> p \in Seq(TaskRegion)
      BY FieldFacts, ZenonT(30) DEF TaskAssigner
    <2>2. QED
      BY DEF Laws, AssignerLaws, RegionKeyLaw
  <1>3. Orderly(p)
    BY Zenon DEF Sound, QueueSound
  <1>4. \A i \in DOMAIN p : \A k \in RegionKeys(p[i]) :
            Exists(d.jobs, k) /\ d.assigner.assigned[k] = Unassigned
    BY Zenon DEF Sound, QueueSound
  <1>5. \A i \in DOMAIN q : f[i] \in DOMAIN p /\ q[i] = p[f[i]]
    BY Zenon
  <1>6. Orderly(q)
    <2>1. ASSUME NEW i \in DOMAIN q
          PROVE  RegionSound(q[i])
      BY <1>3, <1>5, Zenon DEF Orderly
    <2>2. ASSUME NEW i \in DOMAIN q, NEW n \in DOMAIN q, n # i
          PROVE  RegionKeys(q[i]) \cap RegionKeys(q[n]) = {}
      <3> f[n] # f[i] /\ f[i] \in DOMAIN p /\ f[n] \in DOMAIN p
        BY <2>2, Zenon
      <3> RegionKeys(p[f[i]]) \cap RegionKeys(p[f[n]]) = {}
        BY <1>3, Zenon DEF Orderly
      <3>3. QED
        BY <1>5, Zenon
    <2>3. QED
      BY <2>1, <2>2, Zenon DEF Orderly
  <1> ASSUME NEW i \in DOMAIN q, NEW k \in RegionKeys(q[i])
      PROVE  Exists(e.jobs, k) /\ e.assigner.assigned[k] = Unassigned
    <2> k \in RegionKeys(p[f[i]]) /\ f[i] \in DOMAIN p
      BY <1>5, Zenon
    <2> e.assigner.assigned[k] = d.assigner.assigned[k]
      BY Zenon
    <2>3. QED
      BY <1>1, <1>2, <1>4, Zenon
  <1>8. QED
    BY <1>6, Zenon DEF QueueSound

\* Some attempts are taken out of their slots.
LEMMA SlotsShrink ==
    ASSUME NEW d \in DriverRecord, NEW e \in DriverRecord, JobsPersist(d.jobs, e.jobs), Sound(d),
           e.assigner.resource = d.assigner.resource, e.assigner.assigned = d.assigner.assigned,
           \A s \in Slot : e.assigner.slots[s] \subseteq d.assigner.slots[s],
           e.assigner.driverTasks \subseteq d.assigner.driverTasks
    PROVE  SlotSound(e)
  <1>1. \A k \in Key : Exists(d.jobs, k) => Exists(e.jobs, k)
    BY AttemptKeyFacts DEF Exists, JobsPersist, Persists
  <1>2. ASSUME NEW s \in Slot
        PROVE  /\ Shareable(e.assigner.slots[s])
               /\ \A k \in e.assigner.slots[s] :
                    e.assigner.assigned[k] = s /\ e.assigner.resource[s[1]] = "Active"
    BY DEF Sound, SlotSound, Shareable
  <1>3. \A k \in e.assigner.driverTasks : e.assigner.assigned[k] = OnDriver
    BY DEF Sound, SlotSound
  <1> \A k \in Key : e.assigner.assigned[k] # Unassigned => Exists(e.jobs, k)
    BY <1>1, Zenon DEF Sound, SlotSound
  <1> \A k \in Key, s \in Slot :
          e.assigner.assigned[k] = s => e.assigner.resource[s[1]] # "Absent"
    BY DEF Sound, SlotSound
  <1>6. QED
    BY <1>2, <1>3, Zenon DEF SlotSound

\* unassign_task frees the slots of attempts.
LEMMA UnassignGood ==
    ASSUME Laws, NEW d, Good(d), NEW keys
    PROVE  LET e == [d EXCEPT !.assigner = UnassignTasks(@, keys)]
           IN  /\ Good(e) /\ Leads(d, e)
               /\ e.jobs = d.jobs /\ e.assigner.assigned = d.assigner.assigned
               /\ \A s \in Slot, k \in keys :
                    d.assigner.assigned[k] = s => k \notin e.assigner.slots[s]
               /\ \A k \in keys : d.assigner.assigned[k] = OnDriver => k \notin e.assigner.driverTasks
  <1> DEFINE b == UnassignTasks(d.assigner, keys)
             e == [d EXCEPT !.assigner = b]
  <1> d \in DriverRecord /\ Sound(d) /\ d.assigner \in TaskAssigner
    BY FieldFacts, Zenon DEF Good
  <1> /\ b \in TaskAssigner
      /\ b.queue = d.assigner.queue /\ b.requested = d.assigner.requested
      /\ b.resource = d.assigner.resource /\ b.streams = d.assigner.streams
      /\ b.assigned = d.assigner.assigned
      /\ \A s \in Slot : b.slots[s] = d.assigner.slots[s] \ {k \in keys : d.assigner.assigned[k] = s}
      /\ b.driverTasks = d.assigner.driverTasks \ {k \in keys : d.assigner.assigned[k] = OnDriver}
    BY DEF Laws, AssignerLaws, UnassignLaw
  <1> HIDE DEF b
  <1> /\ e \in DriverRecord /\ e.assigner = b
      /\ e.jobs = d.jobs /\ e.pool = d.pool
      /\ e.taskProbes = d.taskProbes /\ e.sequences = d.sequences
      /\ e.running = d.running /\ e.mail = d.mail /\ e.calls = d.calls
    BY Zenon DEF DriverRecord
  <1> HIDE DEF e
  <1> JobsSound(e) /\ JobsPersist(d.jobs, e.jobs)
    BY SameJobsPersist, Zenon DEF JobsSound, Sound
  <1>5. Leads(d, e)
    BY LeadsByLoss
  <1>6. PoolSound(e) /\ QueueSound(e) /\ StreamsSound(e)
    BY RestStaysSound, ZenonT(30)
  <1>7. SlotSound(e)
    BY SlotsShrink, Zenon
  <1> FlightSound(e)
    BY <1>5, FlightStaysSound, Zenon DEF Sound
  <1> Good(e)
    BY <1>6, <1>7, Zenon DEF Good, Sound
  <1>10. QED
    BY <1>5 DEF e, b

\* The workers and the slots of an attempt.
LEMMA AssignedToFacts ==
    ASSUME NEW a \in TaskAssigner, NEW k \in Key
    PROVE  /\ AssignedTo(a, k) \subseteq Worker
           /\ \A w \in AssignedTo(a, k) : a.assigned[k] \in Slot /\ a.assigned[k][1] = w
           /\ \A s \in Slot : a.assigned[k] = s => s[1] \in AssignedTo(a, k)
           /\ a.assigned[k] = OnDriver \/ a.assigned[k] = Unassigned => AssignedTo(a, k) = {}
  <1>1. \A w \in Worker, i \in 1 .. WorkerTaskSlots : <<w, i>> \in Slot /\ <<w, i>>[1] = w
    BY Zenon DEF Slot
  <1>2. \A w \in AssignedTo(a, k) : \E i \in 1 .. WorkerTaskSlots : w \in Worker /\ a.assigned[k] = <<w, i>>
    BY Zenon DEF AssignedTo
  <1> \A w \in AssignedTo(a, k) : a.assigned[k] \in Slot /\ a.assigned[k][1] = w
    BY <1>1, <1>2, Zenon
  <1> \A s \in Slot : a.assigned[k] = s => s[1] \in AssignedTo(a, k)
    BY SlotFacts DEF AssignedTo
  <1> a.assigned[k] = OnDriver \/ a.assigned[k] = Unassigned => AssignedTo(a, k) = {}
    BY SlotFacts, Zenon
  <1>6. QED
    BY Zenon DEF AssignedTo

\* The fields of the state after CancelTasks.
LEMMA CancelEffects ==
    ASSUME Laws, NEW d \in DriverRecord, NEW keys \in SUBSET Key
    PROVE  LET e == CancelTasks(d, keys)
               onDriver == keys \cap d.running
           IN  /\ e \in DriverRecord
               /\ e.jobs = d.jobs /\ e.pool = d.pool
               /\ e.taskProbes = d.taskProbes /\ e.sequences = d.sequences
               /\ e.running = d.running \ onDriver
               /\ e.mail = d.mail \cup Mail(onDriver, "Canceled")
               /\ d.calls \subseteq e.calls
               /\ \A c \in e.calls \ d.calls :
                    c.type = "StopTask" /\ c.key \in keys /\ AssignedTo(d.assigner, c.key) # {}
               /\ e.assigner = UnassignTasks(ExcludeTasks(d.assigner, keys), keys)
  <1> DEFINE a == d.assigner
             onDriver == keys \cap d.running
             stops == UNION {{Call("StopTask", w, k) : w \in AssignedTo(a, k) \cap Running(d)} :
                                        k \in keys}
             t == TrackWorkerActivity(d, WorkersOf(a, keys))
             b == UnassignTasks(ExcludeTasks(a, keys), keys)
             e == [t EXCEPT !.assigner = b, !.calls = @ \cup stops, !.running = @ \ onDriver,
                            !.mail = @ \cup Mail(onDriver, "Canceled")]
  <1>1. /\ t \in DriverRecord
        /\ t.jobs = d.jobs /\ t.assigner = d.assigner /\ t.pool = d.pool
        /\ t.taskProbes = d.taskProbes /\ t.sequences = d.sequences
        /\ t.running = d.running /\ t.mail = d.mail /\ t.calls = d.calls
    BY TrackEffects, Zenon
  <1>2. b \in TaskAssigner
    BY FieldFacts, Zenon DEF Laws, AssignerLaws, ExcludeLaw, UnassignLaw
  <1>3. /\ stops \subseteq Calls
        /\ \A c \in stops : c.type = "StopTask" /\ c.key \in keys /\ AssignedTo(a, c.key) # {}
    <2> SUFFICES ASSUME NEW c \in stops
                 PROVE  /\ c \in Calls
                        /\ c.type = "StopTask" /\ c.key \in keys /\ AssignedTo(a, c.key) # {}
      BY Zenon
    <2>1. PICK k \in keys : \E w \in AssignedTo(a, k) \cap Running(d) : c = Call("StopTask", w, k)
      BY Zenon
    <2> PICK w \in AssignedTo(a, k) \cap Running(d) : c = Call("StopTask", w, k)
      BY <2>1, Zenon
    <2>3. w \in Worker /\ k \in Key
      BY Zenon DEF Running
    <2> c = [type |-> "StopTask", worker |-> w, key |-> k]
      BY Zenon DEF Call
    <2> c.type = "StopTask" /\ c.key = k /\ c \in Calls
      BY <2>3 DEF Calls
    <2>6. QED
      BY Zenon
  <1>4. Mail(onDriver, "Canceled") \subseteq Message
    BY DEF Mail, Message, Status
  <1>5. CancelTasks(d, keys) = e
    BY Zenon DEF CancelTasks
  <1> HIDE DEF t, b, stops, onDriver
  <1>6. /\ e.jobs = t.jobs /\ e.pool = t.pool
        /\ e.taskProbes = t.taskProbes /\ e.sequences = t.sequences
        /\ e.running = t.running \ onDriver
        /\ e.mail = t.mail \cup Mail(onDriver, "Canceled")
        /\ e.calls = t.calls \cup stops
        /\ e.assigner = b
    BY <1>1, Zenon DEF DriverRecord
  <1> t.calls \cup stops \subseteq Calls /\ t.running \ onDriver \subseteq Key
      /\ t.mail \cup Mail(onDriver, "Canceled") \subseteq Message
    BY <1>1, <1>3, <1>4, FieldFacts, Zenon
  <1> e \in DriverRecord
    BY <1>1, <1>2, ZenonT(30) DEF DriverRecord
  <1> HIDE DEF e
  <1>9. QED
    BY <1>1, <1>3, <1>5, <1>6, Zenon DEF b, onDriver

\* CancelTask for attempts that the scheduler has canceled, or whose job has
\* ended: they leave the queue and their slots, and are told to stop.
LEMMA CancelGood ==
    ASSUME Laws, NEW d, Good(d), NEW keys \in SUBSET Key,
           \A k \in keys : /\ Exists(d.jobs, k)
                           /\ \/ StateOf(d.jobs, k) = "Canceled"
                              \/ d.jobs[k[1]].state \in {"Succeeded", "Canceled"}
    PROVE  LET e == CancelTasks(d, keys)
           IN  /\ Good(e) /\ Leads(d, e)
               /\ e.jobs = d.jobs
               /\ \A jobs : Backed(d, jobs) => Backed(e, jobs)
  <1> DEFINE a == d.assigner
             x == ExcludeTasks(a, keys)
             b == UnassignTasks(x, keys)
             e == CancelTasks(d, keys)
             onDriver == keys \cap d.running
  <1>1. d \in DriverRecord /\ Sound(d) /\ a \in TaskAssigner
    BY FieldFacts, ZenonT(30) DEF Good
  <1>2. /\ x \in TaskAssigner
        /\ x.requested = a.requested /\ x.resource = a.resource /\ x.slots = a.slots
        /\ x.streams = a.streams /\ x.driverTasks = a.driverTasks /\ x.assigned = a.assigned
        /\ \E f \in [DOMAIN x.queue -> DOMAIN a.queue] :
            /\ \A i, n \in DOMAIN x.queue : f[i] = f[n] => i = n
            /\ \A i \in DOMAIN x.queue : x.queue[i] = a.queue[f[i]]
    BY <1>1 DEF Laws, AssignerLaws, ExcludeLaw
  <1>3. /\ b \in TaskAssigner
        /\ b.queue = x.queue /\ b.requested = a.requested /\ b.resource = a.resource
        /\ b.streams = a.streams /\ b.assigned = a.assigned
        /\ \A s \in Slot : b.slots[s] = a.slots[s] \ {k \in keys : a.assigned[k] = s}
        /\ b.driverTasks = a.driverTasks \ {k \in keys : a.assigned[k] = OnDriver}
    BY <1>2 DEF Laws, AssignerLaws, UnassignLaw
  <1> /\ e \in DriverRecord
      /\ e.jobs = d.jobs /\ e.pool = d.pool
      /\ e.taskProbes = d.taskProbes /\ e.sequences = d.sequences
      /\ e.running = d.running \ onDriver
      /\ e.mail = d.mail \cup Mail(onDriver, "Canceled")
      /\ d.calls \subseteq e.calls
      /\ \A c \in e.calls \ d.calls :
          c.type = "StopTask" /\ c.key \in keys /\ AssignedTo(a, c.key) # {}
      /\ e.assigner = b
    BY <1>1, CancelEffects, ZenonT(30)
  <1> HIDE DEF x, b, e
  <1>5. JobsSound(e) /\ JobsPersist(d.jobs, e.jobs)
    BY <1>1, SameJobsPersist, ZenonT(30) DEF JobsSound, Sound
  <1>6. \A k \in onDriver : a.assigned[k] = OnDriver
    BY <1>1, Zenon DEF Sound, FlightSound
  <1>7. Leads(d, e)
    <2> e.assigner.driverTasks \cap d.running \subseteq e.running
      BY <1>3, <1>6, Zenon
    <2> d.mail \subseteq e.mail
      BY Zenon
    <2>3. QED
      BY <1>1, <1>3, <1>5, LeadsByLoss
  <1>8. ASSUME NEW k \in keys, a.assigned[k] # Unassigned
        PROVE  Dropped(e, k)
    <2> ASSUME NEW s \in Slot
        PROVE  k \notin b.slots[s]
      BY <1>1, <1>3 DEF Sound, SlotSound
    <2>2. QED
      BY <1>3, <1>8, Zenon DEF Dropped, Gone
  <1>9. FlightSound(e)
    <2>1. ASSUME NEW m \in e.mail \ d.mail
          PROVE  m.status = "Canceled" /\ Exists(e.jobs, m.key) /\ Dropped(e, m.key)
      <3>1. PICK k \in onDriver : m = [key |-> k, status |-> "Canceled"]
        BY Zenon DEF Mail
      <3> m.key = k /\ m.status = "Canceled" /\ k \in keys /\ a.assigned[k] # Unassigned
        BY <3>1, <1>6, SlotFacts, Zenon
      <3>3. QED
        BY <1>8, ZenonT(30)
    <2> ASSUME NEW c \in e.calls \ d.calls
        PROVE  c.type = "StopTask" /\ Dropped(e, c.key)
      <3> c.type = "StopTask" /\ c.key \in keys /\ AssignedTo(a, c.key) # {}
        BY Zenon
      <3> a.assigned[c.key] # Unassigned
        BY <1>1, AssignedToFacts, Zenon
      <3>3. QED
        BY <1>8, Zenon
    <2> e.running \ d.running = {} /\ e.taskProbes \ d.taskProbes = {}
      BY Zenon
    <2>4. QED
      BY <1>1, <1>7, <2>1, FlightStaysSound, ZenonT(30) DEF Sound
  <1>10. PoolSound(e) /\ StreamsSound(e)
    BY <1>1, <1>3, <1>5, RestStaysSound, ZenonT(30)
  <1>11. SlotSound(e)
    BY <1>1, <1>3, <1>5, SlotsShrink, ZenonT(30)
  <1> PICK f \in [DOMAIN e.assigner.queue -> DOMAIN a.queue] :
         /\ \A i, n \in DOMAIN e.assigner.queue : f[i] = f[n] => i = n
         /\ \A i \in DOMAIN e.assigner.queue : e.assigner.queue[i] = a.queue[f[i]]
    BY <1>2, <1>3
  <1>13. QueueSound(e)
    BY <1>1, <1>3, <1>5, QueueShrinks, SMTT(30)
  <1> Good(e)
    BY <1>5, <1>9, <1>10, <1>11, <1>13, Zenon DEF Good, Sound
  <1> \A jobs : Backed(d, jobs) => Backed(e, jobs)
    BY <1>3 DEF Backed
  <1>16. QED
    BY <1>7, Zenon DEF e

\* untrack_local_streams for stages that are inactive.
LEMMA CleanUpStreamsGood ==
    ASSUME Laws, NEW d, Good(d), NEW keys \in SUBSET Key,
           \A k \in keys : Exists(d.jobs, k) => d.jobs[k[1]].stages[StageOf[k[2]]] = "Inactive"
    PROVE  LET e == CleanUpStreams(d, keys)
           IN  /\ Good(e) /\ Leads(d, e)
               /\ e.jobs = d.jobs
               /\ \A jobs : Backed(d, jobs) => Backed(e, jobs)
  <1> DEFINE a == d.assigner
             b == UntrackLocalStreams(a, keys)
             t == TrackWorkerActivity(d, UntrackedWorkers(a, keys))
             e == [t EXCEPT !.assigner = b]
  <1>1. d \in DriverRecord /\ Sound(d) /\ a \in TaskAssigner
    BY FieldFacts, ZenonT(30) DEF Good
  <1>2. /\ t \in DriverRecord
        /\ t.jobs = d.jobs /\ t.assigner = d.assigner /\ t.pool = d.pool
        /\ t.taskProbes = d.taskProbes /\ t.sequences = d.sequences
        /\ t.running = d.running /\ t.mail = d.mail /\ t.calls = d.calls
    BY <1>1, TrackEffects, Zenon
  <1>3. /\ b \in TaskAssigner
        /\ b.queue = a.queue /\ b.requested = a.requested /\ b.resource = a.resource
        /\ b.slots = a.slots /\ b.driverTasks = a.driverTasks /\ b.assigned = a.assigned
        /\ \A w \in Worker : b.streams[w] = a.streams[w] \ keys
    BY <1>1 DEF Laws, AssignerLaws, UntrackLaw
  <1>4. CleanUpStreams(d, keys) = e
    BY <1>2, Zenon DEF CleanUpStreams
  <1> HIDE DEF b, t
  <1> /\ e \in DriverRecord /\ e.assigner = b
      /\ e.jobs = d.jobs /\ e.pool = d.pool
      /\ e.taskProbes = d.taskProbes /\ e.sequences = d.sequences
      /\ e.running = d.running /\ e.mail = d.mail /\ e.calls = d.calls
    BY <1>2, <1>3, Zenon DEF DriverRecord
  <1> HIDE DEF e
  <1>6. JobsSound(e) /\ JobsPersist(d.jobs, e.jobs)
    BY <1>1, SameJobsPersist, Zenon DEF JobsSound, Sound
  <1>7. Leads(d, e)
    BY <1>1, <1>3, <1>6, LeadsByLoss, Zenon
  <1>8. PoolSound(e) /\ QueueSound(e) /\ SlotSound(e)
    BY <1>1, <1>3, <1>6, RestStaysSound, ZenonT(30)
  <1>9. StreamsSound(e)
    <2> SUFFICES ASSUME NEW k \in Key, NEW s \in Slot,
                        a.assigned[k] = s, a.resource[s[1]] = "Active",
                        k \notin b.streams[s[1]]
                 PROVE  d.jobs[k[1]].stages[StageOf[k[2]]] = "Inactive"
      BY <1>3 DEF StreamsSound
    <2>1. Exists(d.jobs, k)
      BY <1>1, SlotFacts, Zenon DEF Sound, SlotSound
    <2>2. CASE k \in keys
      BY <2>1, <2>2, Zenon
    <2>3. CASE k \notin keys
      <3> k \notin a.streams[s[1]]
        BY <2>3, <1>3, SlotFacts, Zenon
      <3>2. QED
        BY <1>1, Zenon DEF Sound, StreamsSound
    <2>4. QED
      BY <2>2, <2>3, Zenon
  <1>10. FlightSound(e)
    BY <1>1, <1>7, FlightStaysSound, ZenonT(30) DEF Sound
  <1> Good(e)
    BY <1>6, <1>8, <1>9, <1>10, Zenon DEF Good, Sound
  <1> \A jobs : Backed(d, jobs) => Backed(e, jobs)
    BY <1>3, Zenon DEF Backed
  <1>13. QED
    BY <1>4, <1>7, Zenon

\* build_task_region makes a sound region of the new attempts of a region.
LEMMA BuildEffects ==
    ASSUME Laws, NEW d, NEW j \in Job, NEW r \in Region,
           \A t \in Task : RegionOf[t] = r => d.jobs[j].len[t] \in 1 .. AttemptLimit
    PROVE  LET b == BuildTaskRegion(d, j, r)
           IN  /\ b \in TaskRegion /\ RegionSound(b)
               /\ \A k \in RegionKeys(b) :
                    \E t \in Task : RegionOf[t] = r /\ k = <<j, t, d.jobs[j].len[t]>>
  <1> DEFINE len == d.jobs[j].len
             keys(tasks) == {<<j, t, len[t]>> : t \in tasks}
             S == RegionSets[r]
             sets == [i \in DOMAIN S |-> keys(S[i])]
             own == keys(RegionDriver[r])
             b == BuildTaskRegion(d, j, r)
  <1>1. b = [sets |-> sets, driver |-> own]
    BY Zenon DEF BuildTaskRegion
  <1>2. S \in Seq(SUBSET Task) /\ RegionDriver[r] \in SUBSET Task
    BY RegionAssumption, Zenon
  <1>3. DOMAIN S = 1 .. Len(S) /\ Len(S) \in Nat /\ \A i \in DOMAIN S : S[i] \in SUBSET Task
    BY <1>2
  <1>4. /\ \A t \in RegionDriver[r] : t \in Task /\ RegionOf[t] = r
        /\ \A i \in DOMAIN S : \A t \in S[i] : t \in Task /\ RegionOf[t] = r /\ t \notin RegionDriver[r]
    BY <1>2, <1>3, RegionAssumption, Zenon
  <1>5. \A t \in Task : RegionOf[t] = r => <<j, t, len[t]>> \in Key
    BY AttemptKeyFacts, Zenon
  <1>6. own \in SUBSET Key /\ \A i \in DOMAIN S : keys(S[i]) \in SUBSET Key
    BY <1>4, <1>5
  <1>7. sets \in Seq(SUBSET Key)
    BY <1>3, <1>6
  <1>8. b \in TaskRegion /\ b.sets = sets /\ b.driver = own
    BY <1>1, <1>6, <1>7 DEF TaskRegion
  <1>9. ASSUME NEW k \in RegionKeys(b)
        PROVE  \E t \in Task : RegionOf[t] = r /\ k = <<j, t, len[t]>>
    <2> k \in own \/ \E i \in DOMAIN S : k \in keys(S[i])
      BY <1>8 DEF Laws, AssignerLaws, RegionKeyLaw
    <2>2. QED
      BY <1>4, Zenon
  <1> ASSUME NEW i \in DOMAIN sets
      PROVE  /\ Shareable(sets[i])
             /\ sets[i] \cap own = {}
             /\ \A n \in DOMAIN sets : n # i => sets[i] \cap sets[n] = {}
    <2>1. i \in DOMAIN S /\ sets[i] = keys(S[i])
      BY Zenon
    <2>2. Shareable(keys(S[i]))
      <3> SUFFICES ASSUME NEW k \in keys(S[i]), NEW o \in keys(S[i]), k # o
                   PROVE  k[1] = o[1] /\ StageOf[k[2]] # StageOf[o[2]]
        BY Zenon DEF Shareable
      <3> PICK t \in S[i] : k = <<j, t, len[t]>>
        BY Zenon
      <3> PICK u \in S[i] : o = <<j, u, len[u]>>
        BY Zenon
      <3> t # u
        BY Zenon
      <3> StageOf[t] # StageOf[u]
        BY <2>1, RegionAssumption
      <3>5. QED
        BY Zenon
    <2>3. keys(S[i]) \cap own = {}
      BY <2>1, <1>4
    <2>4. ASSUME NEW n \in DOMAIN S, n # i
          PROVE  keys(S[i]) \cap keys(S[n]) = {}
      <3> S[i] \cap S[n] = {}
        BY <2>1, <2>4, RegionAssumption, Zenon
      <3>2. QED
        OBVIOUS
    <2>5. QED
      BY <2>1, <2>2, <2>3, <2>4, ZenonT(30)
  <1> HIDE DEF b, sets, own, keys
  <1> RegionSound(b)
    BY <1>8, Zenon DEF RegionSound
  <1>12. QED
    BY <1>8, <1>9, Zenon DEF b

\* The elements of a concatenation.
LEMMA ConcatFacts ==
    ASSUME NEW S, NEW p \in Seq(S), NEW b \in Seq(S)
    PROVE  \A i \in DOMAIN (p \o b) :
                \/ i \in DOMAIN p /\ (p \o b)[i] = p[i]
                \/ \E m \in DOMAIN b : i = Len(p) + m /\ (p \o b)[i] = b[m]
  <1> SUFFICES ASSUME NEW i \in DOMAIN (p \o b), i \notin DOMAIN p
               PROVE  \E m \in DOMAIN b : i = Len(p) + m /\ (p \o b)[i] = b[m]
    OBVIOUS
  <1> i - Len(p) \in DOMAIN b
    OBVIOUS
  <1> (p \o b)[i] = b[i - Len(p)] /\ i = Len(p) + (i - Len(p))
    OBVIOUS
  <1>3. QED
    BY Zenon

\* ScheduleTaskRegion for regions whose new attempts are neither queued nor
\* assigned yet.
LEMMA EnqueueGood ==
    ASSUME Laws, NEW d, Good(d), NEW j \in Job, d.jobs[j] # NoJob,
           NEW regions \in SUBSET Region,
           NEW old, Backed(d, old),
           \A t \in Task : RegionOf[t] \in regions =>
                d.jobs[j].len[t] \in 1 .. AttemptLimit /\ ~ Exists(old, <<j, t, d.jobs[j].len[t]>>)
    PROVE  LET e == EnqueueTaskRegions(d, j, regions)
           IN  Good(e) /\ Leads(d, e) /\ e.jobs = d.jobs
  <1> DEFINE a == d.assigner
             order == InOrder(regions)
             built == [i \in DOMAIN order |-> BuildTaskRegion(d, j, order[i])]
             b == EnqueueTasks(a, built)
             probes == UNION {RegionKeys(built[i]) : i \in DOMAIN built}
             e == [d EXCEPT !.assigner = b, !.taskProbes = @ \cup probes]
             len == d.jobs[j].len
             p == a.queue
             New(k, i) == \E t \in Task : RegionOf[t] = order[i] /\ k = <<j, t, len[t]>>
  <1>1. d \in DriverRecord /\ Sound(d) /\ a \in TaskAssigner /\ p \in Seq(TaskRegion)
    BY FieldFacts, Zenon DEF Good, TaskAssigner
  <1>2. IsFiniteSet(regions) /\ regions \in SUBSET Int
    BY RegionAssumption, ZenonT(30) DEF Laws, SetLaws, SubsetLaw
  <1>3. /\ Cardinality(regions) \in Nat /\ order \in [1 .. Cardinality(regions) -> regions]
        /\ \A i, n \in 1 .. Cardinality(regions) : order[i] = order[n] => i = n
    BY <1>2, Zenon DEF Laws, AssignerLaws, InOrderLaw
  <1>4. DOMAIN order = 1 .. Cardinality(regions) /\ \A i \in DOMAIN order : order[i] \in regions
    BY <1>3, Zenon
  <1> HIDE DEF order
  <1>5. ASSUME NEW i \in DOMAIN order
        PROVE  /\ built[i] \in TaskRegion /\ RegionSound(built[i])
               /\ \A k \in RegionKeys(built[i]) : New(k, i)
    BY <1>4, BuildEffects, ZenonT(30)
  <1>6. DOMAIN built = DOMAIN order
    BY Zenon
  <1> HIDE DEF built
  <1>7. built \in Seq(TaskRegion)
    <2> built = [i \in 1 .. Cardinality(regions) |-> BuildTaskRegion(d, j, order[i])]
      BY <1>4, Zenon DEF built
    <2> built \in [1 .. Cardinality(regions) -> TaskRegion]
      BY <1>4, <1>5, ZenonT(30)
    <2>3. QED
      BY <1>3
  <1>8. ASSUME NEW i \in DOMAIN order, NEW k, New(k, i)
        PROVE  /\ k \in Key /\ ~ Exists(old, k) /\ Exists(d.jobs, k)
    <2>1. PICK t \in Task : RegionOf[t] = order[i] /\ k = <<j, t, len[t]>>
      BY <1>8, ZenonT(30)
    <2>2. len[t] \in 1 .. AttemptLimit /\ ~ Exists(old, k)
      BY <2>1, <1>4, Zenon
    <2>3. d.jobs[j].len \in [Task -> Nat]
      BY <1>1, FieldFacts, JobValueFacts, ZenonT(30) DEF DescriptorOK
    <2> <<t, len[t]>> \in Keys(d.jobs[j])
      BY <2>2, <2>3, DescriptorKeys DEF Keys
    <2> k \in Key
      BY <2>1, <2>2, AttemptKeyFacts, Zenon
    <2>6. QED
      BY <2>1, <2>2, ZenonT(30) DEF Exists
  <1>9. /\ b \in TaskAssigner
        /\ b.queue = p \o built
        /\ b.requested = a.requested /\ b.resource = a.resource
        /\ b.slots = a.slots /\ b.driverTasks = a.driverTasks
        /\ b.streams = a.streams /\ b.assigned = a.assigned
    BY <1>1, <1>7, ZenonT(30) DEF Laws, AssignerLaws, EnqueueLaw
  <1>10. \A k \in probes : k \in Key /\ Exists(d.jobs, k)
    BY <1>5, <1>6, <1>8
  <1>11. EnqueueTaskRegions(d, j, regions) = e
    BY Zenon DEF EnqueueTaskRegions, order, built
  <1> HIDE DEF b, probes, New
  <1>12. /\ e \in DriverRecord /\ e.assigner = b
         /\ e.jobs = d.jobs /\ e.pool = d.pool
         /\ e.taskProbes = d.taskProbes \cup probes /\ e.sequences = d.sequences
         /\ e.running = d.running /\ e.mail = d.mail /\ e.calls = d.calls
    BY <1>1, <1>9, <1>10, ZenonT(30) DEF DriverRecord
  <1> HIDE DEF e
  <1>13. JobsSound(e) /\ JobsPersist(d.jobs, e.jobs)
    BY <1>1, <1>12, SameJobsPersist, ZenonT(30) DEF JobsSound, Sound
  <1>14. Leads(d, e)
    BY <1>1, <1>9, <1>12, <1>13, LeadsByLoss, ZenonT(30)
  <1>15. PoolSound(e) /\ SlotSound(e) /\ StreamsSound(e)
    BY <1>1, <1>9, <1>12, <1>13, RestStaysSound, ZenonT(30)
  <1>16. FlightSound(e)
    BY <1>1, <1>10, <1>12, <1>14, FlightStaysSound, ZenonT(30) DEF Sound
  <1> DEFINE q == p \o built
  <1>17. \A i \in DOMAIN q :
                \/ i \in DOMAIN p /\ q[i] = p[i]
                \/ \E m \in DOMAIN order : i = Len(p) + m /\ q[i] = built[m]
    BY <1>1, <1>6, <1>7, ConcatFacts
  <1> HIDE DEF q
  <1>18. /\ Orderly(p)
         /\ \A i \in DOMAIN p : \A k \in RegionKeys(p[i]) :
                Exists(d.jobs, k) /\ a.assigned[k] = Unassigned /\ Exists(old, k)
    BY <1>1, ZenonT(30) DEF Sound, QueueSound, Backed
  <1>19. ASSUME NEW i \in DOMAIN q, NEW k \in RegionKeys(q[i])
         PROVE  Exists(d.jobs, k) /\ a.assigned[k] = Unassigned
    <2>1. CASE i \in DOMAIN p /\ q[i] = p[i]
      BY <2>1, <1>18, Zenon
    <2>2. CASE \E m \in DOMAIN order : q[i] = built[m]
      <3> k \in Key /\ Exists(d.jobs, k) /\ ~ Exists(old, k)
        BY <2>2, <1>5, <1>8, Zenon
      <3>2. QED
        BY Zenon DEF Backed
    <2>3. QED
      BY <1>17, <2>1, <2>2, Zenon
  <1>20. ASSUME NEW i \in DOMAIN q
         PROVE  RegionSound(q[i])
    BY <1>5, <1>17, <1>18, ZenonT(30) DEF Orderly
  <1>21. ASSUME NEW i \in DOMAIN q, NEW n \in DOMAIN q, n # i, NEW k,
                k \in RegionKeys(q[i]), k \in RegionKeys(q[n])
         PROVE  FALSE
    <2>1. CASE i \in DOMAIN p /\ q[i] = p[i] /\ n \in DOMAIN p /\ q[n] = p[n]
      BY <2>1, <1>18, <1>21, ZenonT(30) DEF Orderly
    <2>2. ASSUME NEW x \in DOMAIN p, NEW m \in DOMAIN order,
                 k \in RegionKeys(p[x]), k \in RegionKeys(built[m])
          PROVE  FALSE
      BY <2>2, <1>5, <1>8, <1>18, ZenonT(30)
    <2>3. ASSUME NEW m \in DOMAIN order, NEW x \in DOMAIN order, m # x,
                 k \in RegionKeys(built[m]), k \in RegionKeys(built[x])
          PROVE  FALSE
      <3> USE <2>3
      <3>1. PICK t \in Task : RegionOf[t] = order[m] /\ k = <<j, t, len[t]>>
        BY <1>5, ZenonT(30) DEF New
      <3>2. PICK u \in Task : RegionOf[u] = order[x] /\ k = <<j, u, len[u]>>
        BY <1>5, Zenon DEF New
      <3> order[m] = order[x]
        BY <3>1, <3>2
      <3>4. QED
        BY <1>3, <1>4, ZenonT(30)
    <2>4. QED
      BY <1>17, <1>21, <2>1, <2>2, <2>3, ZenonT(30)
  <1> QueueSound(e)
    <2> e.assigner.queue = q /\ e.assigner.assigned = a.assigned /\ e.jobs = d.jobs
      BY <1>9, <1>12, Zenon DEF q
    <2> Orderly(q)
      BY <1>20, <1>21, Zenon DEF Orderly
    <2>3. QED
      BY <1>19, Zenon DEF QueueSound
  <1>23. QED
    BY <1>11, <1>12, <1>13, <1>14, <1>15, <1>16, ZenonT(30) DEF Good, Sound

-----------------------------------------------------------------------------
(* refresh_job, clean_up_job and update_task of the actor.                 *)

\* The attempts of a job as keys of the driver.
LEMMA JobAttempts ==
    ASSUME NEW x, Inv(x), NEW j \in Job, NEW k \in Keys(x)
    PROVE  /\ AttemptKey(j, k) \in Key
           /\ AttemptKey(j, k)[1] = j
           /\ <<AttemptKey(j, k)[2], AttemptKey(j, k)[3]>> = k
  <1>1. x.len \in [Task -> Nat]
    BY Zenon DEF Inv, DescriptorOK
  <1> k[1] \in Task /\ k[2] \in 1 .. x.len[k[1]] /\ k = <<k[1], k[2]>>
    BY <1>1, DescriptorKeys, Zenon DEF Keys
  <1>3. x.len[k[1]] <= AttemptLimit /\ x.len[k[1]] \in Nat /\ AttemptLimit \in Nat
    BY <1>1, JobGraphAssumption, Zenon DEF Inv, Bounded, AttemptLimit
  <1> k[2] \in 1 .. AttemptLimit
    BY <1>3
  <1> AttemptKey(j, k) \in Key
    BY AttemptKeyFacts, Zenon DEF AttemptKey
  <1>6. QED
    BY Zenon DEF AttemptKey

\* One job changes.
LEMMA JobChange ==
    ASSUME Laws, NEW d, Good(d), NEW j \in Job, NEW x, Inv(x),
           d.jobs[j] = NoJob \/ Persists(d.jobs[j], x)
    PROVE  LET e == [d EXCEPT !.jobs[j] = x]
           IN  /\ Good(e) /\ Leads(d, e)
               /\ e.jobs = [d.jobs EXCEPT ![j] = x] /\ e.jobs[j] = x
               /\ e.assigner = d.assigner
  <1> DEFINE jobs == [d.jobs EXCEPT ![j] = x]
             e == [d EXCEPT !.jobs = jobs]
  <1> d \in DriverRecord /\ JobsSound(d) /\ d.jobs \in [Job -> JobValue]
    BY FieldFacts, Zenon DEF Good, Sound
  <1>2. x \in JobValue /\ x # NoJob
    BY JobValueFacts, Zenon
  <1> /\ jobs \in [Job -> JobValue] /\ jobs[j] = x
      /\ \A i \in Job : i # j => jobs[i] = d.jobs[i]
    BY <1>2, Zenon
  <1>4. [d EXCEPT !.jobs[j] = x] = e
    BY Zenon DEF DriverRecord
  <1> HIDE DEF jobs
  <1> /\ e \in DriverRecord /\ e.jobs = jobs
      /\ e.assigner = d.assigner /\ e.pool = d.pool /\ e.taskProbes = d.taskProbes
      /\ e.sequences = d.sequences /\ e.running = d.running /\ e.mail = d.mail /\ e.calls = d.calls
    BY Zenon DEF DriverRecord
  <1> HIDE DEF e
  <1>6. JobsSound(e)
    BY Zenon DEF JobsSound
  <1> JobsPersist(d.jobs, e.jobs)
    BY <1>2, SameJobsPersist, Zenon DEF JobsPersist
  <1> Good(e) /\ Leads(d, e)
    BY <1>6, JobsChange, Zenon
  <1>9. QED
    BY <1>4, Zenon DEF jobs

\* What is queued and assigned in a sound state exists.
LEMMA GoodIsBacked ==
    ASSUME NEW d, Good(d), NEW e, e.assigner = d.assigner
    PROVE  Backed(e, d.jobs)
  BY Zenon DEF Good, Sound, QueueSound, SlotSound, Backed

\* refresh_job of the actor.
LEMMA RefreshGood ==
    ASSUME Laws, NEW d, Good(d), NEW j \in Job, d.jobs[j] # NoJob
    PROVE  LET e == DriverRefreshJob(d, j)
           IN  /\ Good(e) /\ Leads(d, e)
               /\ e.jobs = [d.jobs EXCEPT ![j] = RefreshJob(d.jobs[j])]
  <1> DEFINE old == d.jobs[j]
             new == RefreshJob(old)
             canceled == IF old.state = "Running" THEN CanceledKeys(old) ELSE {}
             cleaned == {s \in Stage : old.stages[s] # new.stages[s]}
             scheduled == {RegionOf[t] : t \in {u \in Task : old.len[u] # new.len[u]}}
             d0 == [d EXCEPT !.jobs[j] = new]
             d1 == CancelTasks(d0, AttemptKeys(j, canceled))
             d2 == FetchJobOutput(d1, AttemptKeys(j, new.fetched \ old.fetched))
             d3 == CleanUpStreams(d2, StageKeys(j, cleaned))
             e == EnqueueTaskRegions(d3, j, scheduled)
  <1>1. d \in DriverRecord /\ Inv(old)
    BY Zenon DEF Good, Sound, JobsSound
  <1>2. /\ Inv(new) /\ Persists(old, new)
        /\ \A k \in canceled : k \in Keys(old) /\ k \in Keys(new) /\ new.attempts[k] = "Canceled"
    BY <1>1 DEF Persists, Laws, SchedulerLaws, RefreshLaw
  <1>3. DescriptorOK(old) /\ DescriptorOK(new) /\ new # NoJob
    BY <1>1, <1>2, JobValueFacts, Zenon DEF Inv
  <1>4. /\ \A s \in cleaned : new.stages[s] = "Inactive"
        /\ cleaned \subseteq Stage
    <2> \A s \in Stage : old.stages[s] \in StageState /\ new.stages[s] \in StageState
      BY <1>3, Zenon DEF DescriptorOK, JobDescriptor
    <2>2. QED
      BY <1>2, Zenon DEF Persists, StageState
  <1>5. /\ scheduled \subseteq Region
        /\ \A t \in Task : RegionOf[t] \in scheduled =>
                new.len[t] \in 1 .. AttemptLimit /\ ~ Exists(d.jobs, <<j, t, new.len[t]>>)
    <2>1. scheduled \subseteq Region
      BY JobGraphAssumption, Zenon
    <2>2. ASSUME NEW t \in Task, RegionOf[t] \in scheduled
          PROVE  new.len[t] \in 1 .. AttemptLimit /\ ~ Exists(d.jobs, <<j, t, new.len[t]>>)
      <3>1. old.len \in [Task -> Nat] /\ new.len \in [Task -> Nat]
        BY <1>3, Zenon DEF DescriptorOK
      <3>2. PICK u \in Task : old.len[u] # new.len[u] /\ RegionOf[u] = RegionOf[t]
        BY <2>2, Zenon
      <3>3. old.len[u] = old.len[t] /\ new.len[u] = new.len[t]
        BY <1>1, <1>2, <3>2, ZenonT(30) DEF Inv, Lockstep, TasksOf
      <3>4. old.len[t] <= new.len[t]
        <4>1. CASE old.len[t] = 0
          BY <3>1, <4>1
        <4>2. CASE old.len[t] # 0
          <5>1. <<t, old.len[t]>> \in Keys(old)
            BY <3>1, <4>2, DescriptorKeys DEF Keys
          <5> <<t, old.len[t]>> \in KeysUpTo(new.len)
            BY <5>1, <1>2, ZenonT(30) DEF Persists, Keys
          <5> old.len[t] \in 1 .. new.len[t]
            BY <3>1, DescriptorKeys, Zenon
          <5>4. QED
            OBVIOUS
        <4>3. QED
          BY <4>1, <4>2, Zenon
      <3>5. new.len[t] > old.len[t]
        BY <3>1, <3>2, <3>3, <3>4
      <3>6. new.len[t] <= AttemptLimit /\ AttemptLimit \in Nat
        BY <1>2, JobGraphAssumption, ZenonT(30) DEF Inv, Bounded, AttemptLimit
      <3>7. new.len[t] \in 1 .. AttemptLimit
        BY <3>1, <3>5, <3>6
      <3> <<t, new.len[t]>> \notin Keys(old)
        <4> SUFFICES ASSUME <<t, new.len[t]>> \in KeysUpTo(old.len) PROVE FALSE
          BY Zenon DEF Keys
        <4> new.len[t] \in 1 .. old.len[t]
          BY <3>1, DescriptorKeys, Zenon
        <4>3. QED
          BY <3>1, <3>5
      <3>9. QED
        BY <3>7, Zenon DEF Exists
    <2>3. QED
      BY <2>1, <2>2, Zenon
  <1>6. DriverRefreshJob(d, j) = e
    BY Zenon DEF DriverRefreshJob
  <1> HIDE DEF old, new, canceled, cleaned, scheduled
  <1>7. /\ Good(d0) /\ Leads(d, d0)
        /\ d0.jobs = [d.jobs EXCEPT ![j] = new] /\ d0.jobs[j] = new
        /\ d0.assigner = d.assigner
    BY <1>2, JobChange DEF old
  <1>8. Backed(d0, d.jobs)
    BY <1>7, GoodIsBacked, Zenon
  <1> HIDE DEF d0
  <1>9. /\ AttemptKeys(j, canceled) \in SUBSET Key
        /\ \A k \in AttemptKeys(j, canceled) : Exists(d0.jobs, k) /\ StateOf(d0.jobs, k) = "Canceled"
    <2> SUFFICES ASSUME NEW c \in canceled
                 PROVE  /\ AttemptKey(j, c) \in Key
                        /\ Exists(d0.jobs, AttemptKey(j, c))
                        /\ StateOf(d0.jobs, AttemptKey(j, c)) = "Canceled"
      BY Zenon DEF AttemptKeys
    <2> c \in Keys(new) /\ new.attempts[c] = "Canceled"
      BY <1>2, Zenon
    <2>2. QED
      BY <1>2, <1>3, <1>7, JobAttempts DEF Exists, StateOf
  <1>10. /\ Good(d1) /\ Leads(d0, d1) /\ d1.jobs = d0.jobs /\ Backed(d1, d.jobs)
    BY <1>7, <1>8, <1>9, CancelGood, ZenonT(30)
  <1> HIDE DEF d1
  <1>11. /\ Good(d2) /\ Leads(d1, d2) /\ d2.jobs = d0.jobs /\ Backed(d2, d.jobs)
    <2>1. d1 \in DriverRecord
      BY <1>10, ZenonT(30) DEF Good
    <2> d2.jobs = d1.jobs /\ d2.assigner = d1.assigner /\ Good(d2) /\ Leads(d1, d2)
      BY <1>10, <2>1, TrackEffects, TrackGood, ZenonT(30) DEF FetchJobOutput
    <2>3. QED
      BY <1>10, ZenonT(30) DEF Backed
  <1> HIDE DEF d2
  <1> /\ Good(d3) /\ Leads(d2, d3) /\ d3.jobs = d0.jobs /\ Backed(d3, d.jobs)
    <2> StageKeys(j, cleaned) \in SUBSET Key
      BY Zenon DEF StageKeys, JobKeys
    <2> \A k \in StageKeys(j, cleaned) : d2.jobs[k[1]].stages[StageOf[k[2]]] = "Inactive"
      BY <1>4, <1>7, <1>11, Zenon DEF StageKeys, JobKeys
    <2>3. QED
      BY <1>11, CleanUpStreamsGood, ZenonT(30)
  <1> HIDE DEF d3
  <1> Good(e) /\ Leads(d3, e) /\ e.jobs = d0.jobs
    <2> d3.jobs[j] = new
      BY <1>7, Zenon
    <2>2. QED
      BY <1>3, <1>5, EnqueueGood, ZenonT(30)
  <1> HIDE DEF e
  <1> Leads(d, e)
    <2> /\ d0 \in DriverRecord /\ d1 \in DriverRecord /\ d2 \in DriverRecord
        /\ d3 \in DriverRecord /\ e \in DriverRecord
      BY <1>7, <1>10, <1>11, ZenonT(30) DEF Good
    <2>2. Leads(d, d1)
      BY <1>1, <1>7, <1>10, LeadsTransitive, Zenon
    <2> Leads(d, d2)
      BY <1>1, <1>11, <2>2, LeadsTransitive, Zenon
    <2> Leads(d, d3)
      BY <1>1, LeadsTransitive, Zenon
    <2>5. QED
      BY <1>1, LeadsTransitive, Zenon
  <1>15. QED
    BY <1>6, <1>7, Zenon DEF new, old

\* clean_up_job of the actor, for a job that has not been cleaned up.
LEMMA CleanUpGood ==
    ASSUME Laws, NEW d, Good(d), NEW j \in Job, d.jobs[j] # NoJob,
           d.jobs[j].state \notin {"Succeeded", "Canceled"}
    PROVE  LET e == DriverCleanUpJob(d, j)
           IN  /\ Good(e) /\ Leads(d, e)
               /\ e.jobs = [d.jobs EXCEPT ![j] = CleanUpJob(d.jobs[j])]
  <1> DEFINE old == d.jobs[j]
             new == CleanUpJob(old)
             live == {k \in Keys(old) : old.attempts[k] \notin Terminal}
             d0 == [d EXCEPT !.jobs[j] = new]
             d1 == CancelTasks(d0, AttemptKeys(j, live))
             e == CleanUpStreams(d1, JobKeys(j))
  <1>1. d \in DriverRecord /\ Inv(old)
    BY Zenon DEF Good, Sound, JobsSound
  <1>2. /\ Inv(new) /\ Persists(old, new) /\ Keys(new) = Keys(old)
        /\ new.state \in {"Succeeded", "Canceled"}
        /\ \A s \in Stage : new.stages[s] = "Inactive"
    BY <1>1, Zenon DEF Keys, Laws, SchedulerLaws, CleanUpLaw, CleanUpEndsLaw
  <1>3. new # NoJob
    BY <1>2, JobValueFacts, Zenon
  <1>4. DriverCleanUpJob(d, j) = e
    BY Zenon DEF DriverCleanUpJob
  <1>5. \A k \in live : k \in Keys(new)
    BY <1>2, Zenon
  <1> HIDE DEF old, new, live
  <1>6. /\ Good(d0) /\ Leads(d, d0)
        /\ d0.jobs = [d.jobs EXCEPT ![j] = new] /\ d0.jobs[j] = new
    BY <1>2, JobChange DEF old
  <1> HIDE DEF d0
  <1>7. /\ AttemptKeys(j, live) \in SUBSET Key
        /\ \A k \in AttemptKeys(j, live) :
            Exists(d0.jobs, k) /\ d0.jobs[k[1]].state \in {"Succeeded", "Canceled"}
    <2> SUFFICES ASSUME NEW c \in live
                 PROVE  /\ AttemptKey(j, c) \in Key
                        /\ Exists(d0.jobs, AttemptKey(j, c))
                        /\ d0.jobs[AttemptKey(j, c)[1]].state \in {"Succeeded", "Canceled"}
      BY Zenon DEF AttemptKeys
    <2>1. QED
      BY <1>2, <1>3, <1>5, <1>6, JobAttempts DEF Exists
  <1> Good(d1) /\ Leads(d0, d1) /\ d1.jobs = d0.jobs
    BY <1>6, <1>7, CancelGood, ZenonT(30)
  <1> HIDE DEF d1
  <1> Good(e) /\ Leads(d1, e) /\ e.jobs = d0.jobs
    <2> JobKeys(j) \in SUBSET Key /\ \A k \in JobKeys(j) : k[1] = j /\ StageOf[k[2]] \in Stage
      BY AttemptKeyFacts, Zenon DEF JobKeys
    <2> \A k \in JobKeys(j) : d1.jobs[k[1]].stages[StageOf[k[2]]] = "Inactive"
      BY <1>2, <1>6
    <2>3. QED
      BY CleanUpStreamsGood, ZenonT(30)
  <1> HIDE DEF e
  <1> Leads(d, e)
    <2> d0 \in DriverRecord /\ d1 \in DriverRecord /\ e \in DriverRecord
      BY <1>6, Zenon DEF Good
    <2> Leads(d, d1)
      BY <1>1, <1>6, LeadsTransitive, Zenon
    <2>3. QED
      BY <1>1, LeadsTransitive, Zenon
  <1>11. QED
    BY <1>4, <1>6, Zenon DEF new, old

\* update_task for attempts of any jobs.
LEMMA UpdatedJobsFacts ==
    ASSUME Laws, NEW d \in DriverRecord, JobsSound(d), NEW keys \in SUBSET Key,
           NEW s \in TaskState, s # "Created"
    PROVE  LET jobs == UpdatedJobs(d.jobs, keys, s)
           IN  /\ jobs \in [Job -> JobValue]
               /\ \A j \in Job : jobs[j] # NoJob => d.jobs[j] # NoJob /\ Inv(jobs[j])
               /\ JobsPersist(d.jobs, jobs)
               /\ \A j \in Job : d.jobs[j] # NoJob =>
                    jobs[j].state = d.jobs[j].state /\ jobs[j].len = d.jobs[j].len
               /\ \A k \in keys : Exists(d.jobs, k) => StateOf(jobs, k) # "Created"
  <1> DEFINE jobs == UpdatedJobs(d.jobs, keys, s)
             own(j) == {<<k[2], k[3]>> : k \in {x \in keys : x[1] = j}}
  <1>1. \A j \in Job : jobs[j] = IF d.jobs[j] = NoJob THEN NoJob ELSE UpdateTasks(d.jobs[j], own(j), s)
    BY Zenon DEF UpdatedJobs
  <1>2. DOMAIN jobs = Job /\ jobs = [j \in Job |-> jobs[j]]
    BY Zenon DEF UpdatedJobs
  <1> HIDE DEF jobs
  <1>3. ASSUME NEW j \in Job, d.jobs[j] # NoJob
        PROVE  /\ Inv(jobs[j]) /\ Persists(d.jobs[j], jobs[j])
               /\ jobs[j].state = d.jobs[j].state /\ jobs[j].len = d.jobs[j].len
               /\ \A k \in Keys(d.jobs[j]) : k \in own(j) => jobs[j].attempts[k] # "Created"
    <2> USE <1>3
    <2> Inv(d.jobs[j])
      BY Zenon DEF JobsSound
    <2> HIDE DEF own
    <2> jobs[j] = UpdateTasks(d.jobs[j], own(j), s)
      BY <1>1, Zenon
    <2>3. QED
      BY DEF Laws, SchedulerLaws, UpdateLaw
  <1>4. \A j \in Job : d.jobs[j] = NoJob => jobs[j] = NoJob
    BY <1>1, ZenonT(30)
  <1>5. \A j \in Job : d.jobs[j] # NoJob => jobs[j] \in JobValue /\ jobs[j] # NoJob
    BY <1>3, JobValueFacts, Zenon
  <1>6. jobs \in [Job -> JobValue]
    <2> \A j \in Job : jobs[j] \in JobValue
      BY <1>4, <1>5, Zenon DEF JobValue
    <2>2. QED
      BY <1>2, Zenon
  <1>7. JobsPersist(d.jobs, jobs)
    BY <1>3, <1>5, ZenonT(30) DEF JobsPersist
  <1>8. ASSUME NEW k \in keys, Exists(d.jobs, k)
        PROVE  StateOf(jobs, k) # "Created"
    <2>1. k[1] \in Job /\ <<k[2], k[3]>> \in own(k[1])
      BY AttemptKeyFacts, Zenon
    <2> d.jobs[k[1]] # NoJob /\ <<k[2], k[3]>> \in Keys(d.jobs[k[1]])
      BY <1>8, ZenonT(30) DEF Exists
    <2> HIDE DEF own
    <2>3. QED
      BY <2>1, <1>3, ZenonT(30) DEF StateOf
  <1>9. QED
    BY <1>3, <1>4, <1>6, <1>7, <1>8, ZenonT(30) DEF jobs

\* update_task of the scheduler for some attempts is an operation of the actor.
LEMMA UpdateGood ==
    ASSUME Laws, NEW d, Good(d), NEW keys \in SUBSET Key, NEW s \in TaskState, s # "Created"
    PROVE  LET e == UpdateJobTasks(d, keys, s)
           IN  /\ Good(e) /\ Leads(d, e)
               /\ e.jobs = UpdatedJobs(d.jobs, keys, s) /\ e.assigner = d.assigner
  <1> DEFINE jobs == UpdatedJobs(d.jobs, keys, s)
             e == [d EXCEPT !.jobs = jobs]
  <1>1. d \in DriverRecord /\ JobsSound(d)
    BY Zenon DEF Good, Sound
  <1> /\ jobs \in [Job -> JobValue]
      /\ \A j \in Job : jobs[j] # NoJob => Inv(jobs[j])
      /\ JobsPersist(d.jobs, jobs)
    BY <1>1, UpdatedJobsFacts, ZenonT(30)
  <1>3. UpdateJobTasks(d, keys, s) = e
    BY Zenon DEF UpdateJobTasks
  <1> HIDE DEF jobs
  <1> /\ e \in DriverRecord /\ e.jobs = jobs
      /\ e.assigner = d.assigner /\ e.pool = d.pool /\ e.taskProbes = d.taskProbes
      /\ e.sequences = d.sequences /\ e.running = d.running /\ e.mail = d.mail /\ e.calls = d.calls
    BY <1>1, Zenon DEF DriverRecord
  <1> HIDE DEF e
  <1> Good(e) /\ Leads(d, e)
    BY JobsChange, Zenon DEF JobsSound
  <1>6. QED
    BY <1>3, Zenon DEF jobs

-----------------------------------------------------------------------------
(* run_tasks and scale_up_workers.                                         *)

\* What run_tasks does: the attempts `keys` are assigned; those that have a
\* definition are scheduled, and are run on the driver (`direct`), sent to a
\* worker (`started`) or failed.
RunsTasks(d, e, keys, defined, direct, started, failed) ==
    /\ Good(d) /\ e \in DriverRecord
    /\ Assigns(d.assigner, e.assigner, keys)
    /\ e.jobs = UpdatedJobs(d.jobs, defined, "Scheduled")
    /\ e.pool = d.pool /\ e.taskProbes = d.taskProbes /\ e.sequences = d.sequences
    /\ e.running = d.running \cup direct
    /\ e.mail = d.mail \cup Mail(direct, "Running") \cup Mail(failed, "Failed")
    /\ e.calls = d.calls \cup
        UNION {{Call("RunTask", w, k) : w \in AssignedTo(e.assigner, k)} : k \in started}
    /\ defined \subseteq keys /\ \A k \in defined : d.jobs[k[1]].state = "Running"
    /\ \A k \in direct : k \in defined /\ e.assigner.assigned[k] = OnDriver
    /\ started \subseteq defined /\ failed \subseteq keys
    /\ \A k \in keys : e.assigner.assigned[k] = OnDriver => k \in direct \/ k \in failed
    /\ \A k \in keys : AssignedTo(e.assigner, k) \cap Running(d) # {} => k \in started \/ k \in failed

\* What that means for the attempts and the jobs.
RunFacts(d, e, keys, defined) ==
    /\ \A k \in keys :
        /\ k \in Key /\ Exists(d.jobs, k) /\ d.assigner.assigned[k] = Unassigned
        /\ e.assigner.assigned[k] # Unassigned
    /\ \A k \in Key \ keys : e.assigner.assigned[k] = d.assigner.assigned[k]
    /\ \A s \in VacantSlots(d.assigner) :
        s \in Slot /\ d.assigner.resource[s[1]] = "Active" /\ s[1] \in Running(d)
    /\ JobsSound(e) /\ JobsPersist(d.jobs, e.jobs)
    /\ \A k \in Key : Exists(d.jobs, k) => Exists(e.jobs, k)
    /\ \A k \in defined : Launched(e, k)

\* The attempts were queued, and now they are placed; the jobs go on.
LEMMA RunTasksFacts ==
    ASSUME Laws, NEW d, NEW e, NEW keys, NEW defined, NEW direct, NEW started, NEW failed,
           RunsTasks(d, e, keys, defined, direct, started, failed)
    PROVE  RunFacts(d, e, keys, defined)
  <1>1. d \in DriverRecord /\ Sound(d) /\ d.assigner \in TaskAssigner /\ JobsSound(d)
    BY FieldFacts, ZenonT(30) DEF RunsTasks, Good, Sound
  <1>2. \A i \in DOMAIN d.assigner.queue : \A k \in RegionKeys(d.assigner.queue[i]) :
            Exists(d.jobs, k) /\ d.assigner.assigned[k] = Unassigned
    BY <1>1, Zenon DEF Sound, QueueSound
  <1>3. /\ keys \subseteq Key
        /\ \A k \in keys : \E i \in DOMAIN d.assigner.queue : k \in RegionKeys(d.assigner.queue[i])
        /\ \A k \in Key \ keys : e.assigner.assigned[k] = d.assigner.assigned[k]
        /\ \A k \in keys : e.assigner.assigned[k] = OnDriver
                           \/ e.assigner.assigned[k] \in VacantSlots(d.assigner)
    BY DEF RunsTasks, Assigns
  <1>4. \A k \in keys : Exists(d.jobs, k) /\ d.assigner.assigned[k] = Unassigned
    BY <1>2, <1>3, Zenon
  <1>5. \A s \in VacantSlots(d.assigner) :
            s \in Slot /\ d.assigner.resource[s[1]] = "Active" /\ s[1] \in Running(d)
    BY <1>1, SlotFacts, Zenon DEF VacantSlots, Active, Running, Sound, PoolSound
  <1>6. \A k \in keys : k \in Key /\ e.assigner.assigned[k] # Unassigned
    BY <1>3, <1>5, SlotFacts, Zenon
  <1>7. /\ defined \in SUBSET Key /\ defined \subseteq keys
        /\ e.jobs = UpdatedJobs(d.jobs, defined, "Scheduled")
        /\ "Scheduled" \in TaskState /\ "Scheduled" # "Created"
    BY <1>3, Zenon DEF RunsTasks, TaskState
  <1> /\ \A j \in Job : e.jobs[j] # NoJob => Inv(e.jobs[j])
      /\ JobsPersist(d.jobs, e.jobs)
      /\ \A k \in defined : Exists(d.jobs, k) => StateOf(e.jobs, k) # "Created"
    <2> DEFINE jobs == UpdatedJobs(d.jobs, defined, "Scheduled")
    <2>1. defined \in SUBSET Key /\ "Scheduled" \in TaskState /\ "Scheduled" # "Created"
      BY <1>7, Zenon
    <2>2. /\ \A j \in Job : jobs[j] # NoJob => Inv(jobs[j])
          /\ JobsPersist(d.jobs, jobs)
          /\ \A k \in defined : Exists(d.jobs, k) => StateOf(jobs, k) # "Created"
      BY <1>1, <2>1, UpdatedJobsFacts, Zenon
    <2> HIDE DEF jobs
    <2>3. e.jobs = jobs
      BY <1>7, Zenon DEF jobs
    <2>4. QED
      BY <2>2, <2>3, Zenon
  <1> \A k \in Key : Exists(d.jobs, k) => Exists(e.jobs, k)
    BY AttemptKeyFacts DEF Exists, JobsPersist, Persists
  <1> \A k \in defined : Launched(e, k)
    BY <1>4, <1>6, <1>7, ZenonT(30) DEF Launched
  <1>11. QED
    BY <1>3, <1>4, <1>5, <1>6, ZenonT(30) DEF RunFacts, JobsSound

\* run_tasks tells the scheduler what it has placed, and forgets nothing.
LEMMA RunTasksLeads ==
    ASSUME Laws, NEW d, NEW e, NEW keys, NEW defined, NEW direct, NEW started, NEW failed,
           RunsTasks(d, e, keys, defined, direct, started, failed), RunFacts(d, e, keys, defined)
    PROVE  Leads(d, e) /\ Schedules(d, e)
  <1>1. /\ \A k \in keys : k \in Key /\ Exists(d.jobs, k) /\ d.assigner.assigned[k] = Unassigned
        /\ \A k \in Key \ keys : e.assigner.assigned[k] = d.assigner.assigned[k]
        /\ \A s \in VacantSlots(d.assigner) : s[1] \in Running(d)
    BY Zenon DEF RunFacts
  <1>2. Schedules(d, e)
    <2> /\ defined \in SUBSET Key /\ e.jobs = UpdatedJobs(d.jobs, defined, "Scheduled")
        /\ \A k \in defined : k \in keys /\ d.jobs[k[1]].state = "Running"
      BY <1>1, Zenon DEF RunsTasks
    <2>2. QED
      BY <1>1, ZenonT(30) DEF Schedules
  <1>3. \A k \in failed : InMail(e, k, "Failed")
    BY Zenon DEF RunsTasks, InMail, Mail
  <1>4. \A k \in started : \A w \in AssignedTo(e.assigner, k) : Call("RunTask", w, k) \in e.calls
    BY DEF RunsTasks
  <1>5. ASSUME NEW s \in Slot, NEW k \in e.assigner.slots[s], k \notin d.assigner.slots[s]
        PROVE  /\ d.assigner.assigned[k] = Unassigned
               /\ Call("RunTask", s[1], k) \in e.calls \/ InMail(e, k, "Failed")
    <2> /\ s \in VacantSlots(d.assigner) /\ k \in keys /\ e.assigner.assigned[k] = s
        /\ e.assigner \in TaskAssigner
      BY <1>5, Zenon DEF RunsTasks, Assigns
    <2> s[1] \in AssignedTo(e.assigner, k)
      BY <1>1, AssignedToFacts
    <2> k \in started \/ k \in failed
      BY <1>1, Zenon DEF RunsTasks
    <2>4. QED
      BY <1>1, <1>3, <1>4, Zenon
  <1>6. ASSUME NEW k \in e.assigner.driverTasks
        PROVE  \/ k \in d.assigner.driverTasks /\ k \notin d.running
               \/ k \in e.running \/ InMail(e, k, "Failed")
    <2>1. k \in d.assigner.driverTasks \/ (k \in keys /\ e.assigner.assigned[k] = OnDriver)
      BY Zenon DEF RunsTasks, Assigns
    <2> e.running = d.running \cup direct
      BY Zenon DEF RunsTasks
    <2> k \in keys /\ e.assigner.assigned[k] = OnDriver => k \in direct \/ k \in failed
      BY Zenon DEF RunsTasks
    <2>4. QED
      BY <1>3, <2>1, Zenon
  <1>7. \A k \in Key : d.assigner.assigned[k] # Unassigned
                            => e.assigner.assigned[k] = d.assigner.assigned[k]
    BY <1>1, Zenon
  <1> /\ d.calls \subseteq e.calls /\ d.mail \subseteq e.mail /\ e.sequences = d.sequences
      /\ JobsPersist(d.jobs, e.jobs)
    BY Zenon DEF RunsTasks, RunFacts
  <1> Leads(d, e)
    BY <1>5, <1>6, <1>7, ZenonT(30) DEF Leads
  <1>10. QED
    BY <1>2, Zenon

\* The regions that stay in the queue are those whose attempts are not assigned.
LEMMA RunTasksQueue ==
    ASSUME Laws, NEW d, NEW e, NEW keys, NEW defined, NEW direct, NEW started, NEW failed,
           RunsTasks(d, e, keys, defined, direct, started, failed), RunFacts(d, e, keys, defined)
    PROVE  QueueSound(e) /\ PoolSound(e)
  <1>1. /\ d \in DriverRecord /\ e \in DriverRecord /\ Sound(d) /\ JobsPersist(d.jobs, e.jobs)
        /\ e.pool = d.pool
    BY Zenon DEF RunsTasks, RunFacts, Good
  <1>2. /\ e.assigner.resource = d.assigner.resource /\ e.assigner.requested = d.assigner.requested
        /\ d.assigner.queue \in Seq(TaskRegion)
    BY <1>1, FieldFacts, Zenon DEF RunsTasks, Assigns, TaskAssigner
  <1>3. PoolSound(e)
    BY <1>1, <1>2, RestStaysSound, ZenonT(30)
  <1>4. PICK f \in [DOMAIN e.assigner.queue -> DOMAIN d.assigner.queue] :
            /\ \A i, n \in DOMAIN e.assigner.queue : f[i] = f[n] => i = n
            /\ \A i \in DOMAIN e.assigner.queue :
                /\ e.assigner.queue[i] = d.assigner.queue[f[i]]
                /\ RegionKeys(e.assigner.queue[i]) \cap keys = {}
    BY ZenonT(30) DEF RunsTasks, Assigns
  <1>5. ASSUME NEW i \in DOMAIN e.assigner.queue, NEW k \in RegionKeys(e.assigner.queue[i])
        PROVE  e.assigner.assigned[k] = d.assigner.assigned[k]
    <2>1. e.assigner.queue[i] \in TaskRegion
      BY <1>2, <1>4
    <2> k \in Key
      BY <2>1, ZenonT(30) DEF Laws, AssignerLaws, RegionKeyLaw
    <2> k \notin keys
      BY <1>4, Zenon
    <2>4. QED
      BY Zenon DEF RunFacts
  <1> \A i \in DOMAIN e.assigner.queue :
          /\ e.assigner.queue[i] = d.assigner.queue[f[i]]
          /\ \A k \in RegionKeys(e.assigner.queue[i]) :
                  e.assigner.assigned[k] = d.assigner.assigned[k]
    BY <1>4, <1>5, ZenonT(30)
  <1> QueueSound(e)
    BY <1>1, <1>4, QueueShrinks, ZenonT(30)
  <1>8. QED
    BY <1>3, Zenon

\* A slot is taken by attempts that are assigned to it and may share it, and the
\* worker tracks the outputs of its attempts.
LEMMA RunTasksSlots ==
    ASSUME Laws, NEW d, NEW e, NEW keys, NEW defined, NEW direct, NEW started, NEW failed,
           RunsTasks(d, e, keys, defined, direct, started, failed), RunFacts(d, e, keys, defined)
    PROVE  SlotSound(e) /\ StreamsSound(e)
  <1> DEFINE a == d.assigner
             b == e.assigner
  <1>1. /\ \A s \in Slot : /\ Shareable(a.slots[s]) /\ a.slots[s] \subseteq Key
                           /\ \A k \in a.slots[s] : a.assigned[k] = s /\ a.resource[s[1]] = "Active"
        /\ a.driverTasks \subseteq Key /\ \A k \in a.driverTasks : a.assigned[k] = OnDriver
        /\ \A k \in Key : a.assigned[k] # Unassigned => Exists(d.jobs, k)
        /\ \A k \in Key, s \in Slot : a.assigned[k] = s => a.resource[s[1]] # "Absent"
    <2> d \in DriverRecord /\ SlotSound(d)
      BY Zenon DEF RunsTasks, Good, Sound
    <2> a.slots \in [Slot -> SUBSET Key] /\ a.driverTasks \subseteq Key
      BY FieldFacts, Zenon
    <2> \A s \in Slot : a.slots[s] \subseteq Key
      BY Zenon
    <2>4. QED
      BY ZenonT(30) DEF SlotSound
  <1>2. /\ b.resource = a.resource
        /\ \A s \in Slot :
             \/ b.slots[s] = a.slots[s]
             \/ /\ s \in VacantSlots(a) /\ Shareable(b.slots[s])
                /\ \A k \in b.slots[s] : k \in keys /\ b.assigned[k] = s
        /\ \A k \in b.driverTasks : k \in a.driverTasks \/ (k \in keys /\ b.assigned[k] = OnDriver)
        /\ \A w \in Worker : a.streams[w] \subseteq b.streams[w]
        /\ \A k \in keys, s \in Slot :
             b.assigned[k] = s /\ a.resource[s[1]] = "Active" => k \in b.streams[s[1]]
        /\ \A k \in keys : b.assigned[k] = OnDriver \/ b.assigned[k] \in VacantSlots(a)
    BY ZenonT(30) DEF RunsTasks, Assigns
  <1>3. /\ \A k \in keys : k \in Key /\ Exists(d.jobs, k) /\ a.assigned[k] = Unassigned
        /\ \A k \in Key \ keys : b.assigned[k] = a.assigned[k]
        /\ \A s \in VacantSlots(a) : s \in Slot /\ a.resource[s[1]] = "Active"
        /\ \A k \in Key : Exists(d.jobs, k) => Exists(e.jobs, k)
    BY Zenon DEF RunFacts
  <1> HIDE DEF a, b
  <1>4. \A k \in Key : a.assigned[k] # Unassigned => b.assigned[k] = a.assigned[k]
    BY <1>3, Zenon
  <1>5. ASSUME NEW s \in Slot
        PROVE  /\ Shareable(b.slots[s])
               /\ \A k \in b.slots[s] : b.assigned[k] = s /\ b.resource[s[1]] = "Active"
    <2>1. CASE b.slots[s] = a.slots[s]
      BY <1>1, <1>2, <1>4, <2>1, SlotFacts
    <2>2. CASE b.slots[s] # a.slots[s]
      <3>1. /\ s \in VacantSlots(a) /\ Shareable(b.slots[s])
            /\ \A k \in b.slots[s] : k \in keys /\ b.assigned[k] = s
        BY <1>2, <2>2, Zenon
      <3>2. a.resource[s[1]] = "Active"
        BY <1>3, <3>1, Zenon
      <3> b.resource = a.resource
        BY <1>2, Zenon
      <3>4. QED
        BY <3>1, <3>2, Zenon
    <2>3. QED
      BY <2>1, <2>2, Zenon
  <1>6. \A k \in b.driverTasks : b.assigned[k] = OnDriver
    BY <1>1, <1>2, <1>4, SlotFacts, Zenon
  <1>7. \A k \in Key : b.assigned[k] # Unassigned => Exists(e.jobs, k)
    BY <1>1, <1>3, Zenon
  <1>8. ASSUME NEW k \in Key, NEW s \in Slot, b.assigned[k] = s
        PROVE  b.resource[s[1]] # "Absent"
    <2> USE <1>8
    <2>1. CASE k \in keys
      BY <1>2, <1>3, <2>1, SlotFacts, Zenon
    <2>2. CASE k \notin keys
      BY <1>1, <1>2, <1>3, <2>2
    <2>3. QED
      BY <2>1, <2>2, Zenon
  <1>9. SlotSound(e)
    BY <1>5, <1>6, <1>7, <1>8, ZenonT(30) DEF SlotSound, b
  <1>10. ASSUME NEW k \in Key, NEW s \in Slot, b.assigned[k] = s, b.resource[s[1]] = "Active",
                k \notin b.streams[s[1]]
         PROVE  e.jobs[k[1]].stages[StageOf[k[2]]] = "Inactive"
    <2>1. k \notin keys /\ a.assigned[k] = s /\ a.resource[s[1]] = "Active" /\ k \notin a.streams[s[1]]
      BY <1>2, <1>3, <1>10, SlotFacts
    <2>2. d.jobs[k[1]].stages[StageOf[k[2]]] = "Inactive"
      BY <2>1, ZenonT(30) DEF RunsTasks, Good, Sound, StreamsSound, a
    <2>3. d.jobs[k[1]] # NoJob
      BY <1>1, <2>1, SlotFacts, Zenon DEF Exists
    <2> k[1] \in Job /\ StageOf[k[2]] \in Stage
      BY AttemptKeyFacts, Zenon
    <2> Persists(d.jobs[k[1]], e.jobs[k[1]])
      BY <2>3, Zenon DEF RunFacts, JobsPersist
    <2>6. QED
      BY <2>2, Zenon DEF Persists
  <1> StreamsSound(e)
    BY <1>10, ZenonT(30) DEF StreamsSound, b
  <1>12. QED
    BY <1>9, Zenon

\* What run_tasks sends out is about attempts that are placed, or have failed.
LEMMA RunTasksFlight ==
    ASSUME Laws, NEW d, NEW e, NEW keys, NEW defined, NEW direct, NEW started, NEW failed,
           RunsTasks(d, e, keys, defined, direct, started, failed), RunFacts(d, e, keys, defined),
           Leads(d, e)
    PROVE  FlightSound(e)
  <1>1. /\ \A k \in defined : Launched(e, k)
        /\ \A k \in keys : Exists(e.jobs, k)
    BY Zenon DEF RunFacts
  <1>2. d \in DriverRecord /\ e \in DriverRecord /\ FlightSound(d)
    BY Zenon DEF RunsTasks, Good, Sound
  <1>3. ASSUME NEW k \in e.running \ d.running
        PROVE  Launched(e, k) /\ e.assigner.assigned[k] = OnDriver
    BY <1>1, Zenon DEF RunsTasks
  <1>4. ASSUME NEW m \in e.mail \ d.mail
        PROVE  /\ Exists(e.jobs, m.key)
               /\ m.status \in {"Running", "Succeeded"} => Launched(e, m.key)
               /\ m.status = "Canceled" => Dropped(e, m.key)
    <2>1. \/ \E k \in direct : m = [key |-> k, status |-> "Running"]
          \/ \E k \in failed : m = [key |-> k, status |-> "Failed"]
      BY Zenon DEF RunsTasks, Mail
    <2>2. \A k \in direct : k \in defined
      BY Zenon DEF RunsTasks
    <2>3. failed \subseteq keys
      BY Zenon DEF RunsTasks
    <2>4. CASE \E k \in direct : m = [key |-> k, status |-> "Running"]
      BY <1>1, <2>2, <2>4 DEF Launched
    <2>5. CASE \E k \in failed : m = [key |-> k, status |-> "Failed"]
      BY <1>1, <2>3, <2>5
    <2>6. QED
      BY <2>1, <2>4, <2>5, Zenon
  <1>5. ASSUME NEW c \in e.calls \ d.calls
        PROVE  c.type = "RunTask" /\ Launched(e, c.key)
    <2>1. PICK k \in started : \E w \in AssignedTo(e.assigner, k) : c = Call("RunTask", w, k)
      <3> e.calls = d.calls \cup
              UNION {{Call("RunTask", w, k) : w \in AssignedTo(e.assigner, k)} : k \in started}
        BY Zenon DEF RunsTasks
      <3>2. QED
        BY Zenon
    <2> c.type = "RunTask" /\ c.key = k
      BY <2>1 DEF Call
    <2> k \in defined
      BY Zenon DEF RunsTasks
    <2>4. QED
      BY <1>1, Zenon
  <1> \A c \in e.calls \ d.calls : /\ c.type = "RunTask" => Launched(e, c.key)
                                   /\ c.type = "StopTask" => Dropped(e, c.key)
    BY <1>5, Zenon
  <1> e.taskProbes \ d.taskProbes = {}
    BY Zenon DEF RunsTasks
  <1>8. QED
    BY <1>2, <1>3, <1>4, FlightStaysSound, ZenonT(30)

\* run_tasks with any placement.
LEMMA RunTasksGood ==
    ASSUME Laws, NEW d, Good(d), NEW p \in Placements(d.assigner), NEW invalid
    PROVE  LET e == RunTasksWith(d, p, invalid)
           IN  Good(e) /\ Leads(d, e) /\ Schedules(d, e)
  <1> DEFINE a == d.assigner
             assigned == AssignedKeys(a)
             b == TrackStreams(AssignTasks(a, p), assigned)
             defined == {k \in assigned : HasDefinition(d, b, k)}
             onDriver == {k \in defined : b.assigned[k] = OnDriver}
             started == {k \in defined : AssignedTo(b, k) \cap Running(d) # {}}
             failed == (onDriver \cap invalid) \cup (assigned \ defined)
                            \cup ((defined \ onDriver) \ started)
             e == RunTasksWith(d, p, invalid)
  <1>1. d \in DriverRecord /\ Sound(d) /\ a \in TaskAssigner /\ JobsSound(d)
    BY FieldFacts, ZenonT(30) DEF Good, Sound
  <1>2. Orderly(a.queue)
    BY <1>1, Zenon DEF Sound, QueueSound
  <1>3. Assigns(a, b, assigned)
    BY <1>1, <1>2, ZenonT(30) DEF Laws, AssignerLaws, AssignLaw
  <1>4. /\ e \in DriverRecord
        /\ e.assigner = b
        /\ e.jobs = UpdatedJobs(d.jobs, defined, "Scheduled")
        /\ e.pool = d.pool /\ e.taskProbes = d.taskProbes /\ e.sequences = d.sequences
        /\ e.running = d.running \cup (onDriver \ invalid)
        /\ e.mail = d.mail \cup Mail(onDriver \ invalid, "Running") \cup Mail(failed, "Failed")
        /\ e.calls = d.calls \cup
            UNION {{Call("RunTask", w, k) : w \in AssignedTo(b, k)} : k \in started}
    <2> DEFINE t == TrackWorkerActivity(d, WorkersOf(b, defined))
               jobs == UpdatedJobs(d.jobs, defined, "Scheduled")
               run == d.running \cup (onDriver \ invalid)
               mail == d.mail \cup Mail(onDriver \ invalid, "Running") \cup Mail(failed, "Failed")
               calls == d.calls \cup
                        UNION {{Call("RunTask", w, k) : w \in AssignedTo(b, k)} : k \in started}
               f == [t EXCEPT !.assigner = b, !.jobs = jobs, !.running = run,
                              !.mail = mail, !.calls = calls]
    <2>1. e = [t EXCEPT !.assigner = b, !.jobs = UpdatedJobs(@, defined, "Scheduled"),
                        !.running = @ \cup (onDriver \ invalid),
                        !.mail = @ \cup Mail(onDriver \ invalid, "Running") \cup Mail(failed, "Failed"),
                        !.calls = @ \cup UNION {{Call("RunTask", w, k) : w \in AssignedTo(b, k)} :
                                                    k \in started}]
      BY Zenon DEF RunTasksWith
    <2>2. b \in TaskAssigner /\ assigned \subseteq Key
      BY <1>3, ZenonT(30) DEF Assigns
    <2>3. defined \in SUBSET Key /\ onDriver \subseteq Key /\ started \subseteq Key /\ failed \subseteq Key
      BY <2>2, Zenon
    <2> HIDE DEF assigned, b, defined, onDriver, started, failed, e
    <2>4. /\ t \in DriverRecord
          /\ t.jobs = d.jobs /\ t.assigner = d.assigner /\ t.pool = d.pool
          /\ t.taskProbes = d.taskProbes /\ t.sequences = d.sequences
          /\ t.running = d.running /\ t.mail = d.mail /\ t.calls = d.calls
      BY <1>1, TrackEffects, Zenon
    <2>5. jobs \in [Job -> JobValue]
      BY <1>1, <2>3, UpdatedJobsFacts, ZenonT(30) DEF TaskState
    <2>6. run \subseteq Key
      BY <1>1, <2>3, FieldFacts, ZenonT(30)
    <2>7. mail \subseteq Message
      <3> \A keys \in SUBSET Key :
              Mail(keys, "Running") \subseteq Message /\ Mail(keys, "Failed") \subseteq Message
        BY DEF Mail, Message, Status
      <3> d.mail \subseteq Message
        BY <1>1, FieldFacts, Zenon
      <3>3. QED
        BY <2>3, ZenonT(30)
    <2>8. calls \subseteq Calls
      <3>1. ASSUME NEW k \in started, NEW w \in AssignedTo(b, k)
            PROVE  Call("RunTask", w, k) \in Calls
        BY <2>3, Zenon DEF AssignedTo, Call, Calls
      <3> d.calls \subseteq Calls
        BY <1>1, FieldFacts, ZenonT(30)
      <3>3. QED
        BY <3>1
    <2> HIDE DEF t
    <2>9. e = f
      BY <2>1, <2>4, Zenon
    <2> HIDE DEF jobs, run, mail, calls
    <2> /\ f \in DriverRecord
        /\ f.assigner = b /\ f.jobs = jobs
        /\ f.pool = d.pool /\ f.taskProbes = d.taskProbes /\ f.sequences = d.sequences
        /\ f.running = run /\ f.mail = mail /\ f.calls = calls
      BY <2>2, <2>4, <2>5, <2>6, <2>7, <2>8, Zenon DEF DriverRecord
    <2> HIDE DEF f
    <2>11. QED
      BY <2>9, ZenonT(30) DEF jobs, run, mail, calls
  <1>5. /\ defined \subseteq assigned /\ \A k \in defined : d.jobs[k[1]].state = "Running"
        /\ \A k \in onDriver \ invalid : k \in defined /\ b.assigned[k] = OnDriver
        /\ started \subseteq defined /\ failed \subseteq assigned
        /\ \A k \in assigned : b.assigned[k] = OnDriver => k \in onDriver \ invalid \/ k \in failed
        /\ \A k \in assigned : AssignedTo(b, k) \cap Running(d) # {} => k \in started \/ k \in failed
    <2> \A k \in defined : d.jobs[k[1]].state = "Running"
      BY Zenon DEF HasDefinition
    <2> HIDE DEF assigned, b
    <2>2. QED
      BY ZenonT(30)
  <1> HIDE DEF assigned, b, defined, onDriver, started, failed, e
  <1>6. RunsTasks(d, e, assigned, defined, onDriver \ invalid, started, failed)
    <2>1. e.assigner = b
      BY <1>4, ZenonT(30)
    <2>2. e.calls = d.calls \cup
            UNION {{Call("RunTask", w, k) : w \in AssignedTo(e.assigner, k)} : k \in started}
      BY <1>4, <2>1
    <2> /\ \A k \in onDriver \ invalid : k \in defined /\ e.assigner.assigned[k] = OnDriver
        /\ \A k \in assigned : e.assigner.assigned[k] = OnDriver
                                      => k \in onDriver \ invalid \/ k \in failed
        /\ \A k \in assigned : AssignedTo(e.assigner, k) \cap Running(d) # {}
                                      => k \in started \/ k \in failed
      BY <1>5, <2>1, Zenon
    <2> Assigns(d.assigner, e.assigner, assigned)
      BY <1>3, <2>1, Zenon
    <2>5. QED
      BY <1>4, <1>5, <2>2, ZenonT(30) DEF RunsTasks
  <1>7. RunFacts(d, e, assigned, defined)
    BY <1>6, RunTasksFacts, Zenon
  <1>8. Leads(d, e) /\ Schedules(d, e)
    BY <1>6, <1>7, RunTasksLeads, Zenon
  <1>9. QueueSound(e) /\ PoolSound(e) /\ SlotSound(e) /\ StreamsSound(e)
    BY <1>6, <1>7, RunTasksQueue, RunTasksSlots, Zenon
  <1>10. FlightSound(e)
    BY <1>6, <1>7, <1>8, RunTasksFlight, Zenon
  <1> JobsSound(e) /\ e \in DriverRecord
    BY <1>4, <1>7, ZenonT(30) DEF RunFacts
  <1>12. QED
    BY <1>8, <1>9, <1>10, ZenonT(30) DEF Good, Sound, e

\* scale_up_workers: as many workers are started as are requested.
LEMMA ScaleUpGood ==
    ASSUME Laws, NEW d, Good(d), WorkersSuffice(d)
    PROVE  LET e == ScaleUpWorkers(d)
           IN  /\ Good(e) /\ Leads(d, e) /\ e.jobs = d.jobs
  <1> DEFINE n == RequiredWorkers(d.assigner)
             b == RequestWorkers(d.assigner)
             unused == {w \in Worker : d.pool[w] = "None"}
             started == {w \in unused : Cardinality({v \in unused : v <= w}) <= n}
             pool == [w \in Worker |-> IF w \in started THEN "Pending" ELSE d.pool[w]]
             e == [d EXCEPT !.assigner = b, !.pool = pool]
  <1>1. d \in DriverRecord /\ Sound(d) /\ d.assigner \in TaskAssigner /\ d.pool \in [Worker -> PoolState]
    BY FieldFacts, Zenon DEF Good
  <1>2. n \in Nat /\ n <= Cardinality(unused)
    BY <1>1, Zenon DEF WorkersSuffice, Laws, AssignerLaws, RequiredLaw
  <1>3. IsFiniteSet(Worker) /\ Worker \subseteq Int
    BY Zenon DEF Laws, AssignerLaws, WorkersLaw
  <1>4. unused \in SUBSET Int /\ IsFiniteSet(unused)
    BY <1>3, Zenon DEF Laws, SetLaws, SubsetLaw
  <1>5. IsFiniteSet(started) /\ Cardinality(started) = n
    BY <1>2, <1>4, ZenonT(30) DEF Rank, Laws, AssignerLaws, FirstOnesLaw
  <1>6. /\ b \in TaskAssigner
        /\ b.requested = d.assigner.requested + n
        /\ b.resource = d.assigner.resource
        /\ b.queue = d.assigner.queue /\ b.slots = d.assigner.slots /\ b.streams = d.assigner.streams
        /\ b.driverTasks = d.assigner.driverTasks /\ b.assigned = d.assigner.assigned
    BY <1>1, Zenon DEF Laws, AssignerLaws, RequestLaw
  <1>7. pool \in [Worker -> PoolState]
    BY <1>1, Zenon DEF PoolState
  <1>8. ScaleUpWorkers(d) = e
    BY <1>1, Zenon DEF ScaleUpWorkers, StartWorkers, DriverRecord
  <1>9. \A w \in started : w \in Worker /\ d.pool[w] = "None" /\ pool[w] = "Pending"
    BY Zenon
  <1>10. \A w \in Worker : w \notin started => pool[w] = d.pool[w]
    BY Zenon
  <1> HIDE DEF n, b, pool, started, unused
  <1>11. /\ e \in DriverRecord /\ e.assigner = b /\ e.pool = pool
         /\ e.jobs = d.jobs /\ e.taskProbes = d.taskProbes /\ e.sequences = d.sequences
         /\ e.running = d.running /\ e.mail = d.mail /\ e.calls = d.calls
    BY <1>1, <1>6, <1>7, ZenonT(30) DEF DriverRecord
  <1> HIDE DEF e
  <1>12. JobsSound(e) /\ JobsPersist(d.jobs, e.jobs)
    BY <1>1, <1>11, SameJobsPersist, Zenon DEF JobsSound, Sound
  <1>13. Leads(d, e)
    BY <1>1, <1>6, <1>11, <1>12, LeadsByLoss, Zenon
  <1>14. QueueSound(e) /\ SlotSound(e) /\ StreamsSound(e)
    BY <1>1, <1>6, <1>11, <1>12, RestStaysSound, ZenonT(30)
  <1>15. FlightSound(e)
    BY <1>1, <1>11, <1>13, FlightStaysSound, ZenonT(30) DEF Sound
  <1> PoolSound(e)
    <2>1. /\ \A w \in Worker :
            /\ d.assigner.resource[w] = "Active" <=> d.pool[w] = "Running"
            /\ d.pool[w] \in {"None", "Pending", "Failed"} => d.assigner.resource[w] = "Absent"
          /\ d.assigner.requested <= Cardinality(Pending(d))
      BY <1>1, ZenonT(30) DEF Sound, PoolSound
    <2>2. ASSUME NEW w \in Worker
          PROVE  /\ b.resource[w] = "Active" <=> pool[w] = "Running"
                 /\ pool[w] \in {"None", "Pending", "Failed"} => b.resource[w] = "Absent"
      <3>1. CASE w \in started
        BY <1>6, <1>9, <2>1, <3>1, ZenonT(30)
      <3>2. CASE w \notin started
        BY <1>6, <1>10, <2>1, <3>2
      <3>3. QED
        BY <3>1, <3>2, Zenon
    <2>3. Pending(e) = Pending(d) \cup started /\ Pending(d) \cap started = {}
      BY <1>9, <1>10, <1>11 DEF Pending
    <2>4. IsFiniteSet(Pending(d)) /\ Cardinality(Pending(d)) \in Nat
      BY <1>3, Zenon DEF Pending, Laws, SetLaws, SubsetLaw, CardinalityLaw
    <2>5. Cardinality(Pending(e)) = Cardinality(Pending(d)) + n
      <3>1. Cardinality(Pending(d) \cup started) =
                Cardinality(Pending(d)) + Cardinality(started) - Cardinality(Pending(d) \cap started)
        BY <1>5, <2>4, Zenon DEF Laws, SetLaws, PairUnionLaw
      <3>2. Cardinality({}) = 0
        BY Zenon DEF Laws, SetLaws, EmptyLaw
      <3> Cardinality(Pending(d) \cap started) = 0 /\ Cardinality(Pending(e)) = Cardinality(Pending(d) \cup started)
        BY <2>3, <3>2, Zenon
      <3> \A c, m : c \in Nat /\ m = c + n - 0 => m = c + n
        BY <1>2
      <3>5. QED
        BY <1>5, <2>4, <3>1, Zenon
    <2> d.assigner.requested \in Nat
      BY <1>1, Zenon DEF TaskAssigner
    <2> b.requested <= Cardinality(Pending(e))
      BY <1>2, <1>6, <2>1, <2>4, <2>5
    <2>8. QED
      BY <1>11, <2>2, Zenon DEF PoolSound
  <1>17. QED
    BY <1>8, <1>11, <1>12, <1>13, <1>14, <1>15, Zenon DEF Good, Sound

\* run_tasks, and run_tasks with scale_up_workers.
LEMMA RunGood ==
    ASSUME Laws, NEW d, Good(d)
    PROVE  /\ \A e \in RunTasks(d) : Good(e) /\ Leads(d, e) /\ Schedules(d, e)
           /\ \A e \in RunTasksAndScaleUp(d) : Good(e) /\ Leads(d, e) /\ Schedules(d, e)
  <1>1. \A e \in RunTasks(d) : Good(e) /\ Leads(d, e) /\ Schedules(d, e)
    BY RunTasksGood DEF RunTasks
  <1> ASSUME NEW e \in RunTasksAndScaleUp(d)
      PROVE  Good(e) /\ Leads(d, e) /\ Schedules(d, e)
    <2>1. PICK x \in RunTasks(d) : WorkersSuffice(x) /\ e = ScaleUpWorkers(x)
      BY Zenon DEF RunTasksAndScaleUp
    <2> Good(x) /\ Leads(d, x) /\ Schedules(d, x)
      BY <1>1, Zenon
    <2> Good(e) /\ Leads(x, e) /\ e.jobs = x.jobs
      BY <2>1, ScaleUpGood, Zenon
    <2> Leads(d, e)
      BY LeadsTransitive, Zenon DEF Good
    <2> Schedules(d, e)
      BY Zenon DEF Schedules
    <2>6. QED
      BY Zenon
  <1>3. QED
    BY <1>1, Zenon
-----------------------------------------------------------------------------
(* Workers come and go.                                                    *)

\* One pending worker less.
LEMMA OnePendingLess ==
    ASSUME Laws, NEW d \in DriverRecord, NEW e \in DriverRecord, NEW w \in Pending(d),
           Pending(e) = Pending(d) \ {w}, d.assigner.requested <= Cardinality(Pending(d)),
           e.assigner.requested = Minus(d.assigner.requested, 1)
    PROVE  e.assigner.requested <= Cardinality(Pending(e))
  <1> IsFiniteSet(Pending(d)) /\ Cardinality(Pending(d)) \in Nat
    BY Zenon DEF Pending, Laws, SetLaws, SubsetLaw, CardinalityLaw, AssignerLaws, WorkersLaw
  <1>2. Cardinality(Pending(e)) = Cardinality(Pending(d)) - 1
    BY ZenonT(30) DEF Laws, SetLaws, RemoveLaw
  <1> Cardinality(Pending(e)) \in Nat
    BY Zenon DEF Laws, SetLaws, SubsetLaw, CardinalityLaw
  <1> d.assigner.requested \in Nat
    BY FieldFacts, Zenon DEF TaskAssigner
  <1>5. QED
    BY <1>2 DEF Minus

\* A pending worker registers.
LEMMA RegisterGood ==
    ASSUME Laws, NEW d, Good(d), NEW w \in Worker, d.pool[w] = "Pending"
    PROVE  LET e == [d EXCEPT !.pool[w] = "Running", !.assigner = ActivateWorker(@, w)]
           IN  Good(e) /\ Leads(d, e) /\ e.jobs = d.jobs
  <1> DEFINE b == ActivateWorker(d.assigner, w)
             pool == [d.pool EXCEPT ![w] = "Running"]
             e == [d EXCEPT !.pool = pool, !.assigner = b]
  <1>1. d \in DriverRecord /\ Sound(d) /\ d.assigner \in TaskAssigner /\ d.pool \in [Worker -> PoolState]
    BY FieldFacts, ZenonT(30) DEF Good
  <1>2. /\ b \in TaskAssigner
        /\ b.requested = Minus(d.assigner.requested, 1)
        /\ \A v \in Worker : b.resource[v] =
                IF v = w /\ d.assigner.resource[v] = "Absent" THEN "Active" ELSE d.assigner.resource[v]
        /\ b.queue = d.assigner.queue /\ b.slots = d.assigner.slots /\ b.streams = d.assigner.streams
        /\ b.driverTasks = d.assigner.driverTasks /\ b.assigned = d.assigner.assigned
    <2>1. Activated(d.assigner, w, b)
      BY <1>1, Zenon DEF Laws, AssignerLaws, WorkerLaw
    <2> HIDE DEF b
    <2>2. QED
      BY <2>1, Zenon DEF Activated
  <1>3. d.assigner.resource[w] = "Absent"
    BY <1>1, ZenonT(30) DEF Sound, PoolSound
  <1>4. /\ b.resource[w] = "Active"
        /\ \A v \in Worker : v # w => b.resource[v] = d.assigner.resource[v]
    BY <1>2, <1>3, ZenonT(30)
  <1>5. /\ pool \in [Worker -> PoolState] /\ pool[w] = "Running"
        /\ \A v \in Worker : v # w => pool[v] = d.pool[v]
    BY <1>1, Zenon DEF PoolState
  <1>6. [d EXCEPT !.pool[w] = "Running", !.assigner = ActivateWorker(@, w)] = e
    BY <1>1, Zenon DEF DriverRecord
  <1> HIDE DEF b, pool
  <1>7. /\ e \in DriverRecord /\ e.assigner = b /\ e.pool = pool
        /\ e.jobs = d.jobs /\ e.taskProbes = d.taskProbes /\ e.sequences = d.sequences
        /\ e.running = d.running /\ e.mail = d.mail /\ e.calls = d.calls
    BY <1>1, <1>2, <1>5, ZenonT(30) DEF DriverRecord
  <1> HIDE DEF e
  <1>8. JobsSound(e) /\ JobsPersist(d.jobs, e.jobs)
    BY <1>1, <1>7, SameJobsPersist, Zenon DEF JobsSound, Sound
  <1>9. Leads(d, e)
    BY <1>1, <1>2, <1>7, <1>8, LeadsByLoss, ZenonT(30)
  <1>10. QueueSound(e)
    BY <1>1, <1>2, <1>7, <1>8, RestStaysSound, ZenonT(30)
  <1>11. FlightSound(e)
    BY <1>1, <1>7, <1>9, FlightStaysSound, ZenonT(30) DEF Sound
  <1>12. PoolSound(e)
    <2> /\ \A v \in Worker :
          /\ d.assigner.resource[v] = "Active" <=> d.pool[v] = "Running"
          /\ d.pool[v] \in {"None", "Pending", "Failed"} => d.assigner.resource[v] = "Absent"
        /\ d.assigner.requested <= Cardinality(Pending(d))
      BY <1>1, Zenon DEF Sound, PoolSound
    <2> Pending(e) = Pending(d) \ {w} /\ w \in Pending(d)
      BY <1>5, <1>7 DEF Pending
    <2> e.assigner.requested <= Cardinality(Pending(e))
      BY <1>1, <1>2, <1>7, OnePendingLess, ZenonT(30)
    <2>4. QED
      BY <1>4, <1>5, <1>7 DEF PoolSound
  <1>13. SlotSound(e)
    <2>1. SlotSound(d)
      BY <1>1, Zenon DEF Sound
    <2> \A s \in Slot : /\ b.resource[s[1]] = "Absent" => d.assigner.resource[s[1]] = "Absent"
                        /\ d.assigner.resource[s[1]] = "Active" => b.resource[s[1]] = "Active"
      BY <1>3, <1>4, SlotFacts, ZenonT(30)
    <2>3. QED
      BY <1>1, <1>2, <1>7, <2>1, SlotsStaySound, ZenonT(30)
  <1> StreamsSound(e)
    <2> SUFFICES ASSUME NEW k \in Key, NEW s \in Slot,
                        d.assigner.assigned[k] = s, b.resource[s[1]] = "Active",
                        k \notin d.assigner.streams[s[1]]
                 PROVE  d.jobs[k[1]].stages[StageOf[k[2]]] = "Inactive"
      BY <1>2, <1>7, ZenonT(30) DEF StreamsSound
    <2>1. s[1] \in Worker /\ d.assigner.resource[s[1]] # "Absent"
      BY <1>1, SlotFacts DEF Sound, SlotSound
    <2> d.assigner.resource[s[1]] = "Active"
      BY <1>3, <1>4, <2>1, Zenon
    <2>3. QED
      BY <1>1, ZenonT(30) DEF Sound, StreamsSound
  <1>15. QED
    BY <1>6, <1>7, <1>8, <1>9, <1>10, <1>11, <1>12, <1>13, Zenon DEF Good, Sound

\* A pending worker is found late.
LEMMA FailedToStartGood ==
    ASSUME Laws, NEW d, Good(d), NEW w \in Worker, d.pool[w] = "Pending"
    PROVE  LET e == [d EXCEPT !.pool[w] = "Failed", !.assigner = TrackWorkerFailedToStart(@)]
           IN  Good(e) /\ Leads(d, e) /\ e.jobs = d.jobs
  <1> DEFINE b == TrackWorkerFailedToStart(d.assigner)
             pool == [d.pool EXCEPT ![w] = "Failed"]
             e == [d EXCEPT !.pool = pool, !.assigner = b]
  <1> d \in DriverRecord /\ Sound(d) /\ d.assigner \in TaskAssigner /\ d.pool \in [Worker -> PoolState]
    BY FieldFacts, Zenon DEF Good
  <1>2. /\ b \in TaskAssigner
        /\ b.requested = Minus(d.assigner.requested, 1)
        /\ b.resource = d.assigner.resource
        /\ b.queue = d.assigner.queue /\ b.slots = d.assigner.slots /\ b.streams = d.assigner.streams
        /\ b.driverTasks = d.assigner.driverTasks /\ b.assigned = d.assigner.assigned
    <2>1. NotStarted(d.assigner, b)
      BY Zenon DEF Laws, AssignerLaws, WorkerLaw
    <2> HIDE DEF b
    <2>2. QED
      BY <2>1, Zenon DEF NotStarted
  <1>3. /\ pool \in [Worker -> PoolState] /\ pool[w] = "Failed"
        /\ \A v \in Worker : v # w => pool[v] = d.pool[v]
    BY ZenonT(30) DEF PoolState
  <1>4. [d EXCEPT !.pool[w] = "Failed", !.assigner = TrackWorkerFailedToStart(@)] = e
    BY Zenon DEF DriverRecord
  <1> HIDE DEF b, pool
  <1> /\ e \in DriverRecord /\ e.assigner = b /\ e.pool = pool
      /\ e.jobs = d.jobs /\ e.taskProbes = d.taskProbes /\ e.sequences = d.sequences
      /\ e.running = d.running /\ e.mail = d.mail /\ e.calls = d.calls
    BY <1>2, <1>3, ZenonT(30) DEF DriverRecord
  <1> HIDE DEF e
  <1>6. JobsSound(e) /\ JobsPersist(d.jobs, e.jobs)
    BY SameJobsPersist, Zenon DEF JobsSound, Sound
  <1>7. Leads(d, e)
    BY <1>2, <1>6, LeadsByLoss, ZenonT(30)
  <1>8. QueueSound(e) /\ SlotSound(e) /\ StreamsSound(e)
    BY <1>2, <1>6, RestStaysSound, ZenonT(30)
  <1>9. FlightSound(e)
    BY <1>7, FlightStaysSound, Zenon DEF Sound
  <1> PoolSound(e)
    <2> /\ \A v \in Worker :
          /\ d.assigner.resource[v] = "Active" <=> d.pool[v] = "Running"
          /\ d.pool[v] \in {"None", "Pending", "Failed"} => d.assigner.resource[v] = "Absent"
        /\ d.assigner.requested <= Cardinality(Pending(d))
      BY Zenon DEF Sound, PoolSound
    <2> Pending(e) = Pending(d) \ {w} /\ w \in Pending(d)
      BY <1>3 DEF Pending
    <2> e.assigner.requested <= Cardinality(Pending(e))
      BY <1>2, OnePendingLess, ZenonT(30)
    <2>4. QED
      BY <1>2, <1>3 DEF PoolSound
  <1>11. QED
    BY <1>4, <1>6, <1>7, <1>8, <1>9, Zenon DEF Good, Sound

\* A running worker is stopped and its slots and streams are given up.
LEMMA DeactivateGood ==
    ASSUME Laws, NEW d, Good(d), NEW w \in Running(d), NEW probes \in SUBSET Worker
    PROVE  LET e == [StopWorker(d, w) EXCEPT !.idleProbes = probes,
                                             !.assigner = DeactivateWorker(@, w)]
           IN  /\ Good(e) /\ Leads(d, e) /\ e.jobs = d.jobs
               /\ \A k \in FindWorkerTasks(d.assigner, w) : Gone(e.assigner, k)
  <1> DEFINE a == d.assigner
             b == DeactivateWorker(a, w)
             pool == [d.pool EXCEPT ![w] = "Completed"]
             stop == [type |-> "StopWorker", worker |-> w]
             calls == d.calls \cup {stop}
             e == [d EXCEPT !.pool = pool, !.calls = calls, !.idleProbes = probes, !.assigner = b]
  <1>1. d \in DriverRecord /\ Sound(d) /\ a \in TaskAssigner /\ d.pool \in [Worker -> PoolState]
    BY FieldFacts, ZenonT(30) DEF Good
  <1>2. w \in Worker /\ d.pool[w] = "Running" /\ w \in Active(a)
    BY <1>1, Zenon DEF Running, Active, Sound, PoolSound
  <1>3. /\ b \in TaskAssigner
        /\ b.requested = a.requested
        /\ \A v \in Worker : b.resource[v] = IF v = w THEN "Inactive" ELSE a.resource[v]
        /\ \A s \in Slot : b.slots[s] = IF s[1] = w THEN {} ELSE a.slots[s]
        /\ \A v \in Worker : b.streams[v] = IF v = w THEN {} ELSE a.streams[v]
        /\ b.queue = a.queue /\ b.driverTasks = a.driverTasks /\ b.assigned = a.assigned
    <2>1. Deactivated(a, w, b)
      BY <1>1, <1>2, Zenon DEF Laws, AssignerLaws, WorkerLaw
    <2> HIDE DEF b
    <2>2. QED
      BY <2>1, Zenon DEF Deactivated
  <1>4. /\ pool \in [Worker -> PoolState] /\ pool[w] = "Completed"
        /\ \A v \in Worker : v # w => pool[v] = d.pool[v]
    BY <1>1, <1>2, Zenon DEF PoolState
  <1>5. calls \subseteq Calls /\ stop.type = "StopWorker"
    <2>1. stop \in Calls /\ stop.type = "StopWorker"
      BY <1>2, Zenon DEF Calls
    <2> d.calls \subseteq Calls
      BY <1>1, FieldFacts, Zenon
    <2>3. QED
      BY <2>1, Zenon
  <1>6. [StopWorker(d, w) EXCEPT !.idleProbes = probes, !.assigner = DeactivateWorker(@, w)] = e
    BY <1>1, Zenon DEF StopWorker, DriverRecord
  <1> HIDE DEF b, pool, calls
  <1>7. /\ e \in DriverRecord /\ e.assigner = b /\ e.pool = pool /\ e.calls = calls
        /\ e.jobs = d.jobs /\ e.taskProbes = d.taskProbes /\ e.sequences = d.sequences
        /\ e.running = d.running /\ e.mail = d.mail
    BY <1>1, <1>3, <1>4, <1>5, ZenonT(30) DEF DriverRecord
  <1> HIDE DEF e, stop
  <1>8. JobsSound(e) /\ JobsPersist(d.jobs, e.jobs)
    BY <1>1, <1>7, SameJobsPersist, ZenonT(30) DEF JobsSound, Sound
  <1>9. \A s \in Slot : b.slots[s] \subseteq a.slots[s]
    BY <1>3, ZenonT(30)
  <1>10. Leads(d, e)
    BY <1>1, <1>3, <1>7, <1>8, <1>9, LeadsByLoss, ZenonT(30) DEF calls
  <1>11. QueueSound(e)
    BY <1>1, <1>3, <1>7, <1>8, RestStaysSound, ZenonT(30)
  <1>12. FlightSound(e)
    <2> \A c \in e.calls \ d.calls : c.type = "StopWorker"
      BY <1>5, <1>7, Zenon DEF calls
    <2>2. QED
      BY <1>1, <1>7, <1>10, FlightStaysSound, ZenonT(30) DEF Sound
  <1>13. PoolSound(e)
    <2> /\ \A v \in Worker :
          /\ a.resource[v] = "Active" <=> d.pool[v] = "Running"
          /\ d.pool[v] \in {"None", "Pending", "Failed"} => a.resource[v] = "Absent"
        /\ a.requested <= Cardinality(Pending(d))
      BY <1>1, ZenonT(30) DEF Sound, PoolSound
    <2> Pending(e) = Pending(d)
      BY <1>2, <1>4, <1>7, Zenon DEF Pending
    <2>3. QED
      BY <1>3, <1>4, <1>7 DEF PoolSound
  <1>14. SlotSound(e)
    <2>1. SlotSound(d)
      BY <1>1, Zenon DEF Sound
    <2>2. \A s \in Slot : s[1] \in Worker
      BY SlotFacts, Zenon
    <2>3. ASSUME NEW s \in Slot
          PROVE  /\ b.resource[s[1]] = "Absent" => a.resource[s[1]] = "Absent"
                 /\ \/ b.slots[s] = {}
                    \/ /\ b.slots[s] = a.slots[s]
                       /\ a.resource[s[1]] = "Active" => b.resource[s[1]] = "Active"
      BY <1>3, <2>2, Zenon
    <2>4. e.assigner.assigned = a.assigned /\ e.assigner.driverTasks = a.driverTasks
      BY <1>3, <1>7, Zenon
    <2>5. ASSUME NEW s \in Slot
          PROVE  /\ e.assigner.resource[s[1]] = "Absent" => d.assigner.resource[s[1]] = "Absent"
                 /\ \/ e.assigner.slots[s] = {}
                    \/ /\ e.assigner.slots[s] = d.assigner.slots[s]
                       /\ d.assigner.resource[s[1]] = "Active" =>
                              e.assigner.resource[s[1]] = "Active"
      BY <1>7, <2>3, Zenon
    <2>6. QED
      BY <1>1, <1>7, <2>1, <2>4, <2>5, SlotsStaySound, Zenon
  <1>15. StreamsSound(e)
    <2> SUFFICES ASSUME NEW k \in Key, NEW s \in Slot,
                        a.assigned[k] = s, b.resource[s[1]] = "Active",
                        k \notin b.streams[s[1]]
                 PROVE  d.jobs[k[1]].stages[StageOf[k[2]]] = "Inactive"
      BY <1>3, <1>7 DEF StreamsSound
    <2>1. s[1] \in Worker
      BY SlotFacts, Zenon
    <2> s[1] # w /\ a.resource[s[1]] = "Active" /\ k \notin a.streams[s[1]]
      BY <1>3, <2>1, Zenon
    <2>3. QED
      BY <1>1, Zenon DEF Sound, StreamsSound
  <1> ASSUME NEW k \in FindWorkerTasks(a, w)
      PROVE  Gone(e.assigner, k)
    <2>1. PICK s \in Slot : s[1] = w /\ k \in a.slots[s]
      BY Zenon DEF FindWorkerTasks
    <2>2. a.assigned[k] = s
      BY <1>1, <2>1, ZenonT(30) DEF Sound, SlotSound
    <2>3. ASSUME NEW t \in Slot, k \in b.slots[t] PROVE FALSE
      <3> k \in a.slots[t] /\ t[1] # w
        BY <1>3, <2>3, ZenonT(30)
      <3> a.assigned[k] = t
        BY <1>1, ZenonT(30) DEF Sound, SlotSound
      <3>3. QED
        BY <2>1, <2>2, Zenon
    <2>4. QED
      BY <1>3, <1>7, <2>2, <2>3, SlotFacts DEF Gone
  <1>17. QED
    BY <1>6, <1>7, <1>8, <1>10, <1>11, <1>12, <1>13, <1>14, <1>15, ZenonT(30) DEF Good, Sound
-----------------------------------------------------------------------------
(* The handlers that chain operations.                                     *)

\* handle_update_task frees the slot of an attempt that has ended.
LEMMA UpdateTaskGood ==
    ASSUME Laws, NEW d, Good(d), NEW k \in Key, Exists(d.jobs, k), NEW status \in Status,
           NEW e \in HandleUpdateTask(d, k, status)
    PROVE  /\ Good(e) /\ Leads(d, e) /\ UpdatesJobs(d, e, k, status)
           /\ status \in {"Succeeded", "Failed"} =>
                Leaves(e, k) /\ (d.assigner.assigned[k] # Unassigned => Gone(e.assigner, k))
  <1> DEFINE u == UpdateJobTasks(d, {k}, status)
  <1>1. status \in TaskState /\ status # "Created" /\ {k} \in SUBSET Key /\ k[1] \in Job
    BY AttemptKeyFacts, Zenon DEF Status, TaskState
  <1>2. Good(u) /\ Leads(d, u) /\ u.jobs = UpdatedJobs(d.jobs, {k}, status) /\ u.assigner = d.assigner
    BY <1>1, UpdateGood, Zenon
  <1>3. d \in DriverRecord /\ u \in DriverRecord
    BY <1>2, Zenon DEF Good
  <1>4. u.jobs[k[1]] # NoJob
    BY <1>1, <1>2, ZenonT(30) DEF Leads, JobsPersist, Exists
  <1> HIDE DEF u
  <1>5. CASE status = "Running"
    <2>1. e = DriverRefreshJob(u, k[1])
      BY <1>5, Zenon DEF HandleUpdateTask, u
    <2> /\ Good(e) /\ Leads(u, e)
        /\ e.jobs = [u.jobs EXCEPT ![k[1]] = RefreshJob(u.jobs[k[1]])]
      BY <1>1, <1>2, <1>4, <2>1, RefreshGood, ZenonT(30)
    <2>3. Leads(d, e)
      BY <1>2, <1>3, LeadsTransitive, ZenonT(30) DEF Good
    <2> UpdatesJobs(d, e, k, status)
      BY <1>2, <1>5, ZenonT(30) DEF UpdatesJobs
    <2>5. QED
      BY <1>5, <2>3, ZenonT(30)
  <1>6. CASE status = "Canceled"
    <2> USE <1>6
    <2> e = u
      BY Zenon DEF HandleUpdateTask, u
    <2>2. QED
      BY <1>2, ZenonT(30) DEF UpdatesJobs
  <1>7. CASE status \in {"Succeeded", "Failed"}
    <2> DEFINE x == [u EXCEPT !.assigner = UnassignTasks(@, {k})]
               r == DriverRefreshJob(x, k[1])
    <2>1. e \in RunTasksAndScaleUp(r)
      BY <1>7, Zenon DEF HandleUpdateTask, u
    <2>2. /\ Good(x) /\ Leads(u, x) /\ x.jobs = u.jobs
          /\ x.assigner.assigned = u.assigner.assigned
          /\ \A s \in Slot : u.assigner.assigned[k] = s => k \notin x.assigner.slots[s]
          /\ u.assigner.assigned[k] = OnDriver => k \notin x.assigner.driverTasks
      BY <1>2, UnassignGood, Zenon
    <2> HIDE DEF x
    <2>3. /\ Good(r) /\ Leads(x, r)
          /\ r.jobs = [x.jobs EXCEPT ![k[1]] = RefreshJob(x.jobs[k[1]])]
      <3>1. Good(x) /\ x.jobs[k[1]] # NoJob
        BY <1>4, <2>2, Zenon
      <3>2. QED
        BY <1>1, <3>1, RefreshGood, Zenon
    <2> HIDE DEF r
    <2>4. Good(e) /\ Leads(r, e) /\ Schedules(r, e)
      BY <2>1, <2>3, RunGood, Zenon
    <2>5. x \in DriverRecord /\ r \in DriverRecord /\ e \in DriverRecord
      BY <2>2, <2>3, <2>4, ZenonT(30) DEF Good
    <2>6. Leads(x, e)
      BY <2>3, <2>4, <2>5, LeadsTransitive, Zenon
    <2>7. Leads(d, e)
      <3> Leads(d, x)
        BY <1>2, <1>3, <2>2, <2>5, LeadsTransitive, Zenon
      <3>2. QED
        BY <1>3, <2>5, <2>6, LeadsTransitive, Zenon
    <2>8. UpdatesJobs(d, e, k, status)
      BY <1>2, <1>7, <2>2, <2>3, <2>4, ZenonT(30) DEF UpdatesJobs
    <2>9. /\ \A s \in Slot : k \notin x.assigner.slots[s]
          /\ k \notin x.assigner.driverTasks
      <3>1. SlotSound(x)
        BY <2>2, Zenon DEF Good, Sound
      <3>2. /\ \A s \in Slot : \A i \in x.assigner.slots[s] : x.assigner.assigned[i] = s
            /\ \A i \in x.assigner.driverTasks : x.assigner.assigned[i] = OnDriver
        BY <3>1, Zenon DEF SlotSound
      <3> x.assigner.assigned[k] = u.assigner.assigned[k]
        BY <2>2, Zenon
      <3>4. QED
        BY <2>2, <3>2, ZenonT(30)
    <2>10. Leaves(e, k)
      BY <2>6, <2>9, ZenonT(30) DEF Leads, Leaves
    <2>11. ASSUME d.assigner.assigned[k] # Unassigned
           PROVE  Gone(e.assigner, k)
      <3>1. x.assigner.assigned[k] # Unassigned
        BY <1>2, <2>2, <2>11, Zenon
      <3> Gone(x.assigner, k)
        BY <2>9, <3>1, Zenon DEF Gone
      <3>3. QED
        BY <2>5, <2>6, LeadsKeeps, ZenonT(30)
    <2>12. QED
      BY <2>4, <2>7, <2>8, <2>10, <2>11, Zenon
  <1>8. QED
    BY <1>5, <1>6, <1>7, Zenon DEF Status

\* The states after one more job is refreshed.
RefreshedWith(states, j) == UNION {RunTasksAndScaleUp(DriverRefreshJob(e, j)) : e \in states}

RefreshStep(d, f, jobs) ==
    IF jobs = {} THEN {d} ELSE UNION {RefreshedWith(f[jobs \ {j}], j) : j \in jobs}

SetsUpTo(n) == {S \in SUBSET Job : Cardinality(S) <= n}

\* The recursion of RefreshJobs is well founded: there is such a function.
LEMMA RefreshJobsExists ==
    ASSUME Laws, NEW d
    PROVE  RefreshJobs(d) = [jobs \in SUBSET Job |-> RefreshStep(d, RefreshJobs(d), jobs)]
  <1> DEFINE Solves(f, n) == f = [S \in SetsUpTo(n) |-> RefreshStep(d, f, S)]
             Bad == {n \in Nat : ~ \E f : Solves(f, n)}
  <1>1. \A S \in SUBSET Job : IsFiniteSet(S) /\ Cardinality(S) \in Nat /\ Cardinality(S) <= Cardinality(Job)
    BY ActorAssumption, ZenonT(30) DEF Laws, SetLaws, SubsetLaw, CardinalityLaw
  <1>2. Cardinality(Job) \in Nat
    BY ActorAssumption, ZenonT(30) DEF Laws, SetLaws, CardinalityLaw
  <1>3. \A S \in SUBSET Job : \A j \in S :
            S \ {j} \in SUBSET Job /\ Cardinality(S \ {j}) = Cardinality(S) - 1
    BY <1>1, ZenonT(30) DEF Laws, SetLaws, RemoveLaw
  <1>4. ASSUME NEW n \in Nat, NEW f, Solves(f, n)
        PROVE  \E g : Solves(g, n + 1)
    <2> DEFINE g == [S \in SetsUpTo(n + 1) |-> RefreshStep(d, f, S)]
    <2>1. SetsUpTo(n) \subseteq SetsUpTo(n + 1)
      BY <1>1 DEF SetsUpTo
    <2>2. \A S \in SetsUpTo(n) : f[S] = RefreshStep(d, f, S)
      BY <1>4, Zenon
    <2>3. \A S \in SetsUpTo(n + 1) : g[S] = RefreshStep(d, f, S)
      BY Zenon
    <2> HIDE DEF g
    <2>4. \A S \in SetsUpTo(n) : g[S] = f[S]
      BY <2>1, <2>2, <2>3, Zenon
    <2> ASSUME NEW S \in SetsUpTo(n + 1)
        PROVE  RefreshStep(d, f, S) = RefreshStep(d, g, S)
      <3>1. \A j \in S : S \ {j} \in SetsUpTo(n)
        BY <1>1, <1>3 DEF SetsUpTo
      <3>2. \A j \in S : f[S \ {j}] = g[S \ {j}]
        BY <2>4, <3>1, Zenon
      <3>3. \A j \in S : RefreshedWith(f[S \ {j}], j) = RefreshedWith(g[S \ {j}], j)
        BY <3>2, Zenon
      <3> {RefreshedWith(f[S \ {j}], j) : j \in S} = {RefreshedWith(g[S \ {j}], j) : j \in S}
        BY <3>3, Zenon
      <3>5. QED
        BY ZenonT(30) DEF RefreshStep
    <2> g = [S \in SetsUpTo(n + 1) |-> RefreshStep(d, g, S)]
      BY Zenon DEF g
    <2>7. QED
      BY Zenon
  <1>5. \E f : Solves(f, 0)
    <2> DEFINE f == [S \in SetsUpTo(0) |-> {d}]
    <2>1. ASSUME NEW S \in SetsUpTo(0)
          PROVE  S = {}
      <3> IsFiniteSet(S) /\ Cardinality(S) = 0
        BY <1>1 DEF SetsUpTo
      <3>2. QED
        BY Zenon DEF Laws, SetLaws, EmptyLaw
    <2> \A S \in SetsUpTo(0) : RefreshStep(d, f, S) = {d}
      BY <2>1, Zenon DEF RefreshStep
    <2> f = [S \in SetsUpTo(0) |-> RefreshStep(d, f, S)]
      BY Zenon
    <2>4. QED
      BY Zenon
  <1>6. Bad = {}
    <2> SUFFICES ASSUME Bad # {} PROVE FALSE
      BY Zenon
    <2>1. PICK m \in Bad : \A n \in Bad : m <= n
      BY ZenonT(30) DEF Laws, SetLaws, LeastLaw
    <2> HIDE DEF Solves
    <2> m \in Nat /\ ~ \E f : Solves(f, m)
      BY Zenon
    <2>3. m # 0
      BY <1>5, Zenon
    <2> m - 1 \in Nat /\ m - 1 \notin Bad
      BY <2>1, <2>3
    <2>5. PICK f : Solves(f, m - 1)
      BY Zenon
    <2> \E g : Solves(g, (m - 1) + 1)
      BY <1>4, <2>5, Zenon
    <2> (m - 1) + 1 = m
      OBVIOUS
    <2>8. QED
      BY Zenon
  <1>7. SetsUpTo(Cardinality(Job)) = SUBSET Job
    BY <1>1, Zenon DEF SetsUpTo
  <1> \E f : f = [jobs \in SUBSET Job |-> RefreshStep(d, f, jobs)]
    <2> HIDE DEF Solves
    <2>1. PICK f : Solves(f, Cardinality(Job))
      BY <1>2, <1>6, Zenon
    <2> f = [S \in SetsUpTo(Cardinality(Job)) |-> RefreshStep(d, f, S)]
      BY <2>1, Zenon DEF Solves
    <2> f = [S \in SUBSET Job |-> RefreshStep(d, f, S)]
      BY <1>7, Zenon
    <2>4. QED
      BY Zenon
  <1> RefreshJobs(d) = CHOOSE f : f = [jobs \in SUBSET Job |-> RefreshStep(d, f, jobs)]
    BY Zenon DEF RefreshJobs, RefreshStep, RefreshedWith
  <1>10. QED
    BY Zenon

\* A job without news stays as it is.
LEMMA SameJobsForward ==
    ASSUME NEW d, Good(d)
    PROVE  JobsForward(d.jobs, d.jobs)
  <1> \A x : Inv(x) => Forward(x, x)
    BY Zenon DEF Forward, Inv
  <1>2. QED
    BY Zenon DEF JobsForward, Good, Sound, JobsSound

\* run_tasks launches attempts.
LEMMA SchedulesForward ==
    ASSUME Laws, NEW d, Good(d), NEW e, Schedules(d, e)
    PROVE  JobsForward(d.jobs, e.jobs)
  <1>1. PICK keys \in SUBSET Key : e.jobs = UpdatedJobs(d.jobs, keys, "Scheduled")
    BY Zenon DEF Schedules
  <1> ASSUME NEW j \in Job
      PROVE  IF d.jobs[j] = NoJob THEN e.jobs[j] = NoJob ELSE Forward(d.jobs[j], e.jobs[j])
    <2> DEFINE own == {<<k[2], k[3]>> : k \in {x \in keys : x[1] = j}}
    <2> e.jobs[j] = IF d.jobs[j] = NoJob THEN NoJob ELSE UpdateTasks(d.jobs[j], own, "Scheduled")
      BY <1>1, Zenon DEF UpdatedJobs
    <2> HIDE DEF own
    <2> d.jobs[j] # NoJob => Inv(d.jobs[j])
      BY Zenon DEF Good, Sound, JobsSound
    <2>3. QED
      BY ZenonT(30) DEF Laws, SchedulerLaws, ScheduleLaw
  <1>3. QED
    BY Zenon DEF JobsForward

\* Jobs are refreshed one after the other.
LEMMA RefreshJobsGood ==
    ASSUME Laws, NEW d, Good(d), NEW jobs \in SUBSET Job, \A j \in jobs : d.jobs[j] # NoJob,
           NEW last \in RefreshJobs(d)[jobs]
    PROVE  Good(last) /\ Leads(d, last) /\ JobsRefreshed(d.jobs, last.jobs, jobs)
  <1> DEFINE f == RefreshJobs(d)
             Fine(S) == \A e \in f[S] : /\ Good(e) /\ Leads(d, e)
                                       /\ JobsRefreshed(d.jobs, e.jobs, S)
             Bad == {n \in Nat : \E S \in SUBSET jobs : Cardinality(S) = n /\ ~ Fine(S)}
  <1>1. d \in DriverRecord /\ Leads(d, d)
    <2> d \in DriverRecord
      BY Zenon DEF Good
    <2>2. QED
      BY SameJobsPersist, LeadsByLoss, Zenon
  <1>2. \A S \in SUBSET Job : f[S] = RefreshStep(d, f, S)
    BY RefreshJobsExists, Zenon
  <1> HIDE DEF f
  <1>3. ASSUME NEW S \in SUBSET jobs, \A j \in S : Fine(S \ {j})
        PROVE  Fine(S)
    <2>1. CASE S = {}
      <3> USE <2>1
      <3> f[S] = {d}
        BY <1>2, ZenonT(30) DEF RefreshStep
      <3> JobsRefreshed(d.jobs, d.jobs, S)
        BY SameJobsForward, Zenon DEF JobsForward, JobsRefreshed
      <3>3. QED
        BY <1>1, Zenon
    <2>2. CASE S # {}
      <3>1. f[S] = UNION {RefreshedWith(f[S \ {j}], j) : j \in S}
        BY <1>2, <2>2, ZenonT(30) DEF RefreshStep
      <3> ASSUME NEW e \in f[S]
          PROVE  Good(e) /\ Leads(d, e) /\ JobsRefreshed(d.jobs, e.jobs, S)
        <4>1. PICK j \in S : e \in RefreshedWith(f[S \ {j}], j)
          BY <3>1, Zenon
        <4>2. PICK x \in f[S \ {j}] : e \in RunTasksAndScaleUp(DriverRefreshJob(x, j))
          BY <4>1, Zenon DEF RefreshedWith
        <4>3. Good(x) /\ Leads(d, x) /\ JobsRefreshed(d.jobs, x.jobs, S \ {j})
          BY <1>3, ZenonT(30)
        <4>4. j \in Job /\ x.jobs[j] # NoJob
          BY <4>3, Zenon DEF Leads, JobsPersist
        <4> DEFINE y == DriverRefreshJob(x, j)
        <4>5. Good(y) /\ Leads(x, y) /\ y.jobs = [x.jobs EXCEPT ![j] = RefreshJob(x.jobs[j])]
          BY <4>3, <4>4, RefreshGood, ZenonT(30)
        <4> HIDE DEF y
        <4>6. Good(e) /\ Leads(y, e) /\ Schedules(y, e)
          BY <4>2, <4>5, RunGood, ZenonT(30) DEF y
        <4>7. Leads(x, e)
          BY <4>3, <4>5, <4>6, LeadsTransitive, ZenonT(30) DEF Good
        <4>8. Leads(d, e)
          BY <1>1, <4>3, <4>6, <4>7, LeadsTransitive, ZenonT(30) DEF Good
        <4>9. JobsForward(y.jobs, e.jobs)
          BY <4>5, <4>6, SchedulesForward, ZenonT(30)
        <4>10. x.jobs \in [Job -> JobValue]
          BY <4>3, FieldFacts, Zenon DEF Good
        <4>11. ASSUME NEW i \in Job
               PROVE  IF d.jobs[i] = NoJob THEN e.jobs[i] = NoJob
                      ELSE IF i \in S THEN Forward(RefreshJob(d.jobs[i]), e.jobs[i])
                      ELSE Forward(d.jobs[i], e.jobs[i])
          <5>1. CASE i # j
            <6>1. y.jobs[i] = x.jobs[i]
              BY <4>5, <4>10, <5>1, ZenonT(30)
            <6>2. CASE d.jobs[i] = NoJob
              BY <4>3, <4>9, <6>1, <6>2, Zenon DEF JobsRefreshed, JobsForward
            <6>3. CASE d.jobs[i] # NoJob
              <7>1. x.jobs[i] # NoJob
                BY <4>3, <6>3, ZenonT(30) DEF Leads, JobsPersist
              <7>2. Forward(x.jobs[i], e.jobs[i])
                BY <4>9, <6>1, <7>1, ZenonT(30) DEF JobsForward
              <7> IF i \in S THEN Forward(RefreshJob(d.jobs[i]), x.jobs[i])
                             ELSE Forward(d.jobs[i], x.jobs[i])
                BY <4>3, <5>1, <6>3, ZenonT(30) DEF JobsRefreshed
              <7>4. QED
                BY <6>3, <7>2, ZenonT(30) DEF Laws, SchedulerLaws, ForwardLaw
            <6>4. QED
              BY <6>2, <6>3, ZenonT(30)
          <5>2. CASE i = j
            <6>1. d.jobs[j] # NoJob /\ i \in S
              BY <5>2, Zenon
            <6>2. y.jobs[j] = RefreshJob(x.jobs[j])
              BY <4>4, <4>5, <4>10, ZenonT(30)
            <6>3. Forward(d.jobs[j], x.jobs[j])
              BY <4>3, <4>4, <6>1, Zenon DEF JobsRefreshed
            <6>4. Inv(d.jobs[j]) /\ Inv(x.jobs[j])
              BY <4>3, <4>4, <6>1, ZenonT(30) DEF Good, Sound, JobsSound
            <6>5. Forward(RefreshJob(d.jobs[j]), RefreshJob(x.jobs[j]))
              BY <6>3, <6>4, ZenonT(30) DEF Laws, SchedulerLaws, RefreshForwardLaw
            <6>6. RefreshJob(x.jobs[j]) # NoJob
              BY <6>4, JobValueFacts, ZenonT(30) DEF Laws, SchedulerLaws, RefreshLaw
            <6> Forward(RefreshJob(x.jobs[j]), e.jobs[j])
              BY <4>4, <4>9, <6>2, <6>6, Zenon DEF JobsForward
            <6>8. QED
              BY <5>2, <6>1, <6>5, ZenonT(30) DEF Laws, SchedulerLaws, ForwardLaw
          <5>3. QED
            BY <5>1, <5>2, ZenonT(30)
        <4> JobsRefreshed(d.jobs, e.jobs, S)
          BY <4>11, ZenonT(30) DEF JobsRefreshed
        <4>13. QED
          BY <4>6, <4>8, Zenon
      <3>3. QED
        BY Zenon
    <2>3. QED
      BY <2>1, <2>2, ZenonT(30)
  <1> HIDE DEF Fine
  <1>4. \A S \in SUBSET jobs : IsFiniteSet(S) /\ Cardinality(S) \in Nat
    BY ActorAssumption, ZenonT(30) DEF Laws, SetLaws, SubsetLaw, CardinalityLaw
  <1> Bad = {}
    <2> SUFFICES ASSUME Bad # {} PROVE FALSE
      BY Zenon
    <2>1. PICK m \in Bad : \A n \in Bad : m <= n
      BY Zenon DEF Laws, SetLaws, LeastLaw
    <2>2. PICK S \in SUBSET jobs : Cardinality(S) = m /\ ~ Fine(S)
      BY Zenon
    <2>3. PICK j \in S : ~ Fine(S \ {j})
      BY <1>3, <2>2, ZenonT(30)
    <2> Cardinality(S \ {j}) = m - 1 /\ Cardinality(S \ {j}) \in Nat /\ m \in Nat
      BY <1>4, <2>2, Zenon DEF Laws, SetLaws, RemoveLaw
    <2>5. Cardinality(S \ {j}) \in Bad
      BY <2>3, ZenonT(30)
    <2> m <= Cardinality(S \ {j})
      <3> HIDE DEF Bad
      <3>1. QED
        BY <2>1, <2>5, Zenon
    <2> \A c : c = m - 1 /\ c \in Nat /\ m \in Nat => ~ (m <= c)
      OBVIOUS
    <2>8. QED
      BY Zenon
  <1> Fine(jobs)
    BY <1>4, Zenon
  <1>7. QED
    BY Zenon DEF Fine, f

\* What the operations of the actor do.
LEMMA ActorLawsHold == ASSUME Laws PROVE ActorLaws
  <1>2. JobValueLaw
    BY JobValueFacts, Zenon DEF JobValueLaw
  <1>3. AttemptKeyLaw
    BY AttemptKeyFacts, Zenon DEF AttemptKeyLaw
  <1>4. SlotLaw
    BY SlotFacts, Zenon DEF SlotLaw
  <1>5. FieldLaw
    BY FieldFacts, Zenon DEF FieldLaw
  <1>6. LeadsKeepsLaw
    BY LeadsKeeps, Zenon DEF LeadsKeepsLaw
  <1>7. LeadsTransitiveLaw
    BY LeadsTransitive, Zenon DEF LeadsTransitiveLaw
  <1>8. RestStaysSoundLaw
    BY RestStaysSound, Zenon DEF RestStaysSoundLaw
  <1>9. LeadsByLossLaw
    BY LeadsByLoss, Zenon DEF LeadsByLossLaw
  <1>10. SameJobsPersistLaw
    BY SameJobsPersist, Zenon DEF SameJobsPersistLaw
  <1>11. JobsChangeLaw
    BY JobsChange, Zenon DEF JobsChangeLaw
  <1>12. TrackLaw
    BY TrackEffects, Zenon DEF TrackLaw
  <1>13. TrackGoodLaw
    BY TrackGood, Zenon DEF TrackGoodLaw
  <1>14. AssignedToLaw
    BY AssignedToFacts, Zenon DEF AssignedToLaw
  <1>15. JobChangeLaw
    BY JobChange DEF JobChangeLaw
  <1>16. RefreshGoodLaw
    BY RefreshGood, Zenon DEF RefreshGoodLaw
  <1>17. CleanUpGoodLaw
    BY CleanUpGood, Zenon DEF CleanUpGoodLaw
  <1>18. UpdateGoodLaw
    BY UpdateGood, Zenon DEF UpdateGoodLaw
  <1>19. ScaleUpGoodLaw
    BY ScaleUpGood, Zenon DEF ScaleUpGoodLaw
  <1>20. RunGoodLaw
    BY RunGood, Zenon DEF RunGoodLaw
  <1>21. RegisterGoodLaw
    BY RegisterGood, Zenon DEF RegisterGoodLaw
  <1>22. FailedToStartGoodLaw
    BY FailedToStartGood, Zenon DEF FailedToStartGoodLaw
  <1>23. DeactivateGoodLaw
    BY DeactivateGood, Zenon DEF DeactivateGoodLaw
  <1>24. UpdateTaskGoodLaw
    BY UpdateTaskGood, Zenon DEF UpdateTaskGoodLaw
  <1>25. SchedulesForwardLaw
    BY SchedulesForward, Zenon DEF SchedulesForwardLaw
  <1>26. RefreshJobsGoodLaw
    BY RefreshJobsGood, Zenon DEF RefreshJobsGoodLaw
  <1>27. QED
    BY <1>2, <1>3, <1>4, <1>5, <1>6, <1>7, <1>8, <1>9, <1>10, <1>11, <1>12, <1>13, <1>14,
       <1>15, <1>16, <1>17, <1>18, <1>19, <1>20, <1>21, <1>22, <1>23, <1>24, <1>25, <1>26, Zenon DEF
       ActorLaws
=============================================================================
