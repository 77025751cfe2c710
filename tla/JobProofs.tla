------------------------------ MODULE JobProofs ------------------------------
(***************************************************************************)
(* Proofs about jobs: the methods of the job scheduler (JobScheduler) and  *)
(* of the task assigner (TaskAssigner), the lifecycle of a job             *)
(* (JobLifecycle), and the topology of a job (JobTopology), for every job  *)
(* graph, number of workers and limit.                                     *)
(*                                                                         *)
(* The theorems about the lifecycle follow from the lemmas about the       *)
(* methods of the scheduler.                                               *)
(*                                                                         *)
(* Of the topology: the regions partition the tasks, pipelined tasks are   *)
(* in one region, and the task sets of a region share slots as they        *)
(* should.  The pipelined components are the heart of it.  The             *)
(* breadth-first search from a stage takes as many rounds as there are     *)
(* stages: it then has come to a standstill, and what it reached is the    *)
(* least closed set with that stage.                                       *)
(***************************************************************************)
EXTENDS JobLifecycle, JobTopology, JobSchedulerInvariant, TaskAssignerInvariant, TLAPS

\* The keys of a descriptor are the pairs of a task and an attempt it has.
LEMMA KeyFacts ==
    ASSUME NEW len \in [Task -> Nat]
    PROVE  /\ \A t \in Task : \A a \in 1 .. len[t] : <<t, a>> \in KeysUpTo(len)
           /\ \A k \in KeysUpTo(len) : k[1] \in Task /\ k[2] \in 1 .. len[k[1]] /\ k = <<k[1], k[2]>>
  BY DEF KeysUpTo

\* The latest attempt of a task that has one is an attempt.
LEMMA LatestKeyIsKey ==
    ASSUME NEW j, DescriptorOK(j), NEW t \in Task, j.len[t] > 0
    PROVE  LatestKey(j, t) \in Keys(j)
  BY KeyFacts DEF DescriptorOK, LatestKey, Keys

\* Evolves is transitive.
LEMMA EvolvesTransitive ==
    ASSUME NEW i, NEW j, NEW n, Evolves(i, j), Evolves(j, n), DescriptorOK(i), DescriptorOK(j)
    PROVE  Evolves(i, n)
  <1> \A t \in Task : RegionOf[t] \in Region
    BY JobGraphAssumption, Zenon
  <1>2. QED
    BY Zenon DEF Evolves

\* A change of the attempts only, that keeps those that have ended and takes
\* no attempt back to before its launch, keeps the invariant.
LEMMA ChangeOfAttempts ==
    ASSUME NEW j, Inv(j),
           NEW f \in [Keys(j) -> TaskState],
           \A k \in Keys(j) : j.attempts[k] \in Terminal => f[k] = j.attempts[k],
           \A k \in Keys(j) : j.attempts[k] \notin {"Created", "Scheduled"}
                                => f[k] \notin {"Created", "Scheduled"}
    PROVE  LET n == [j EXCEPT !.attempts = f] IN Inv(n) /\ Evolves(j, n)
  <1> DEFINE n == [j EXCEPT !.attempts = f]
  <1>1. DescriptorOK(j)
    BY Zenon DEF Inv
  <1> /\ DescriptorOK(n)
      /\ n.len = j.len /\ n.state = j.state /\ n.regions = j.regions
      /\ n.fetched = j.fetched /\ n.stages = j.stages /\ n.attempts = f
      /\ Keys(n) = Keys(j)
    BY <1>1, Zenon DEF DescriptorOK, JobDescriptor, Keys
  <1>3. \A t \in Task : LatestIn(j, t, {"Succeeded"}) => LatestIn(n, t, {"Succeeded"})
    BY <1>1, LatestKeyIsKey, Zenon DEF LatestIn, LatestKey, Terminal
  <1>4. Lockstep(n) /\ Bounded(n)
    BY DEF Inv, Lockstep, Bounded
  <1>5. EarlierEnded(n)
    BY Zenon DEF Inv, EarlierEnded
  <1>6. RegionsSound(n) /\ Complete(n)
    BY <1>3, Zenon DEF Inv, RegionsSound, Complete, LatestKey
  <1> OutputSound(n)
    <2> \A k \in j.fetched : k \in Keys(j)
      BY <1>1, Zenon DEF DescriptorOK, JobDescriptor, Keys
    <2>2. QED
      BY Zenon DEF Inv, OutputSound
  <1> Evolves(j, n)
    BY Zenon DEF Evolves
  <1>9. QED
    BY <1>4, <1>5, <1>6, Zenon DEF Inv

\* update_task keeps the invariant: consolidate never leaves a terminal state
\* and never goes back to before the launch.
LEMMA UpdateTasksInv ==
    ASSUME NEW j, Inv(j), NEW keys, NEW s \in TaskState
    PROVE  Inv(UpdateTasks(j, keys, s)) /\ Evolves(j, UpdateTasks(j, keys, s))
  <1> DEFINE f == [k \in Keys(j) |-> IF k \in keys THEN Consolidate(j.attempts[k], s)
                                                   ELSE j.attempts[k]]
  <1> \A k \in Keys(j) : j.attempts[k] \in TaskState
    BY Zenon DEF Inv, DescriptorOK, JobDescriptor, Keys
  <1>2. f \in [Keys(j) -> TaskState]
    BY Zenon DEF Consolidate
  <1> \A k \in Keys(j) :
          /\ j.attempts[k] \in Terminal => f[k] = j.attempts[k]
          /\ j.attempts[k] \notin {"Created", "Scheduled"} => f[k] \notin {"Created", "Scheduled"}
    BY Zenon DEF Consolidate, TaskState, Terminal
  <1> UpdateTasks(j, keys, s) = [j EXCEPT !.attempts = f]
    BY Zenon DEF UpdateTasks
  <1> HIDE DEF f
  <1>5. QED
    BY <1>2, ChangeOfAttempts

\* cascade_cancel_task_attempts keeps the invariant: it ends attempts only.
LEMMA CascadeCancelInv ==
    ASSUME NEW j, Inv(j)
    PROVE  Inv(CascadeCancelTaskAttempts(j)) /\ Evolves(j, CascadeCancelTaskAttempts(j))
  <1> DEFINE f == [k \in Keys(j) |-> IF k \in CanceledKeys(j) THEN "Canceled" ELSE j.attempts[k]]
  <1>1. \A k \in Keys(j) : j.attempts[k] \in TaskState
    BY Zenon DEF Inv, DescriptorOK, JobDescriptor, Keys
  <1>2. f \in [Keys(j) -> TaskState]
    BY <1>1, Zenon DEF TaskState
  <1> \A k \in Keys(j) :
          /\ j.attempts[k] \in Terminal => f[k] = j.attempts[k]
          /\ j.attempts[k] \notin {"Created", "Scheduled"} => f[k] \notin {"Created", "Scheduled"}
    BY Zenon DEF CanceledKeys
  <1> CascadeCancelTaskAttempts(j) = [j EXCEPT !.attempts = f]
    BY Zenon DEF CascadeCancelTaskAttempts
  <1> HIDE DEF f
  <1>5. QED
    BY <1>2, ChangeOfAttempts

\* Every launched attempt of a final task that is the latest is in the output.
OutputExtended(j) ==
    \A t \in FinalTask : LatestIn(j, t, {"Running", "Succeeded"}) => LatestKey(j, t) \in j.fetched

\* extend_job_output keeps the invariant, and afterwards the output has every
\* latest attempt of the final stage that runs or has succeeded.
LEMMA ExtendJobOutputInv ==
    ASSUME NEW j, Inv(j)
    PROVE  LET n == ExtendJobOutput(j)
           IN  Inv(n) /\ Evolves(j, n) /\ OutputExtended(n) /\ n.state = j.state
  <1> DEFINE n == ExtendJobOutput(j)
  <1>1. DescriptorOK(j)
    BY Zenon DEF Inv
  <1>2. \A k \in ExtendedKeys(j) :
            k \in Keys(j) /\ k[1] \in FinalTask /\ j.attempts[k] \in {"Running", "Succeeded"}
    <2> SUFFICES ASSUME NEW t \in FinalTask, LatestIn(j, t, {"Running", "Succeeded"}),
                        NEW k, k = LatestKey(j, t)
                 PROVE  k \in Keys(j) /\ k[1] \in FinalTask /\ j.attempts[k] \in {"Running", "Succeeded"}
      BY Zenon DEF ExtendedKeys
    <2> t \in Task
      BY Zenon DEF FinalTask
    <2>2. QED
      BY <1>1, LatestKeyIsKey, Zenon DEF LatestIn, LatestKey
  <1> /\ n.len = j.len /\ n.state = j.state /\ n.regions = j.regions
      /\ n.stages = j.stages /\ n.attempts = j.attempts /\ Keys(n) = Keys(j)
      /\ n.fetched = j.fetched \cup ExtendedKeys(j)
    BY <1>1, Zenon DEF DescriptorOK, JobDescriptor, Keys, ExtendJobOutput
  <1>4. DescriptorOK(n)
    BY <1>1, <1>2, Zenon DEF DescriptorOK, JobDescriptor, Keys, ExtendJobOutput
  <1>5. Lockstep(n) /\ Bounded(n) /\ EarlierEnded(n) /\ RegionsSound(n)
    BY DEF Inv, Lockstep, Bounded, EarlierEnded, RegionsSound, LatestIn, LatestKey
  <1>6. Complete(n)
    BY Zenon DEF Inv, Complete, LatestIn, LatestKey
  <1>7. OutputSound(n)
    BY <1>2, Zenon DEF Inv, OutputSound
  <1> Evolves(j, n)
    BY Zenon DEF Evolves
  <1> OutputExtended(n)
    BY Zenon DEF OutputExtended, ExtendedKeys, LatestIn, LatestKey
  <1>10. QED
    BY <1>4, <1>5, <1>6, <1>7, Zenon DEF Inv

\* clean_up_job_by_stage touches the states of the stages only.
LEMMA CleanUpJobByStageInv ==
    ASSUME NEW j, Inv(j)
    PROVE  LET n == CleanUpJobByStage(j)
           IN  /\ Inv(n) /\ Evolves(j, n) /\ n.state = j.state
               /\ OutputExtended(j) => OutputExtended(n)
  <1> DEFINE n == CleanUpJobByStage(j)
  <1>1. DescriptorOK(j)
    BY Zenon DEF Inv
  <1> /\ n.len = j.len /\ n.state = j.state /\ n.regions = j.regions
      /\ n.fetched = j.fetched /\ n.attempts = j.attempts /\ Keys(n) = Keys(j)
    BY <1>1, Zenon DEF DescriptorOK, JobDescriptor, Keys, CleanUpJobByStage
  <1>3. DescriptorOK(n)
    BY <1>1, Zenon DEF DescriptorOK, JobDescriptor, Keys, CleanUpJobByStage, StageState
  <1>4. Lockstep(n) /\ Bounded(n) /\ EarlierEnded(n) /\ RegionsSound(n) /\ OutputSound(n)
    BY DEF Inv, Lockstep, Bounded, EarlierEnded, RegionsSound, OutputSound, LatestIn, LatestKey
  <1>5. Complete(n)
    BY Zenon DEF Inv, Complete, LatestIn, LatestKey
  <1> Evolves(j, n)
    BY Zenon DEF Evolves
  <1> OutputExtended(j) => OutputExtended(n)
    BY Zenon DEF OutputExtended, LatestIn, LatestKey
  <1>8. QED
    BY <1>3, <1>4, <1>5, Zenon DEF Inv

\* The recorded states of the regions are those of their tasks.
RegionsCurrent(j) ==
    \A t \in Task :
        /\ Exhausted(j, t) => j.regions[RegionOf[t]] = "Failed"
        /\ j.regions[RegionOf[t]] # "Succeeded" =>
            \E u \in TasksOf(RegionOf[t]) : ~ LatestIn(j, u, {"Succeeded"}) \/ Exhausted(j, u)

\* update_task_regions keeps the invariant, and brings the regions up to date.
LEMMA UpdateTaskRegionsInv ==
    ASSUME NEW j, Inv(j)
    PROVE  LET n == UpdateTaskRegions(j)
           IN  /\ Inv(n) /\ Evolves(j, n) /\ RegionsCurrent(n) /\ n.state = j.state
               /\ OutputExtended(j) => OutputExtended(n)
  <1> DEFINE n == UpdateTaskRegions(j)
  <1>1. DescriptorOK(j) /\ \A t \in Task : RegionOf[t] \in Region
    BY JobGraphAssumption, Zenon DEF Inv
  <1> /\ n.len = j.len /\ n.state = j.state /\ n.stages = j.stages
      /\ n.fetched = j.fetched /\ n.attempts = j.attempts /\ Keys(n) = Keys(j)
      /\ n.regions = [r \in Region |->
              IF \E t \in TasksOf(r) : Exhausted(j, t) THEN "Failed"
              ELSE IF \A t \in TasksOf(r) : LatestIn(j, t, {"Succeeded"}) THEN "Succeeded"
              ELSE "Running"]
    BY <1>1, Zenon DEF DescriptorOK, JobDescriptor, Keys, UpdateTaskRegions
  <1>3. DescriptorOK(n)
    BY <1>1, Zenon DEF DescriptorOK, JobDescriptor, Keys, UpdateTaskRegions, RegionState
  <1>4. Lockstep(n) /\ Bounded(n) /\ EarlierEnded(n) /\ OutputSound(n)
    BY DEF Inv, Lockstep, Bounded, EarlierEnded, OutputSound
  <1>5. Complete(n)
    BY Zenon DEF Inv, Complete, LatestIn, LatestKey
  <1>6. \A t \in Task : \A S : LatestIn(n, t, S) <=> LatestIn(j, t, S)
    BY Zenon DEF LatestIn, LatestKey
  <1>7. \A t \in Task : Exhausted(n, t) <=> Exhausted(j, t)
    BY <1>6, Zenon DEF Exhausted
  <1>8. RegionsSound(n)
    BY <1>1, <1>6 DEF RegionsSound, TasksOf
  <1>9. RegionsCurrent(n)
    BY <1>1, <1>6, <1>7, Zenon DEF RegionsCurrent, TasksOf
  <1>10. \A r \in Region : j.regions[r] = "Succeeded" => n.regions[r] = "Succeeded"
    <2> \A t \in Task : LatestIn(j, t, {"Succeeded"}) => ~ Exhausted(j, t)
      BY Zenon DEF LatestIn, Exhausted
    <2>2. QED
      BY DEF Inv, RegionsSound, TasksOf
  <1> Evolves(j, n)
    BY <1>10, Zenon DEF Evolves
  <1> OutputExtended(j) => OutputExtended(n)
    BY Zenon DEF OutputExtended, LatestIn, LatestKey
  <1>13. QED
    BY <1>3, <1>4, <1>5, <1>8, <1>9, Zenon DEF Inv

\* The part of refresh_job before the decision about the job.
LEMMA ObservedInv ==
    ASSUME NEW j, Inv(j)
    PROVE  LET n == Observed(j)
           IN  /\ Inv(n) /\ Evolves(j, n) /\ n.state = j.state
               /\ RegionsCurrent(n) /\ OutputExtended(n)
  <1> DEFINE a == CascadeCancelTaskAttempts(j)
             b == ExtendJobOutput(a)
             c == CleanUpJobByStage(b)
             n == UpdateTaskRegions(c)
  <1> Inv(a) /\ Evolves(j, a) /\ a.state = j.state
    BY CascadeCancelInv, Zenon DEF CascadeCancelTaskAttempts, Inv, DescriptorOK, JobDescriptor
  <1> Inv(b) /\ Evolves(a, b) /\ OutputExtended(b) /\ b.state = a.state
    BY ExtendJobOutputInv, Zenon
  <1> Inv(c) /\ Evolves(b, c) /\ OutputExtended(c) /\ c.state = b.state
    BY CleanUpJobByStageInv, Zenon
  <1> Inv(n) /\ Evolves(c, n) /\ OutputExtended(n) /\ RegionsCurrent(n) /\ n.state = c.state
    BY UpdateTaskRegionsInv, Zenon
  <1> HIDE DEF a, b, c, n
  <1> Evolves(j, n)
    BY EvolvesTransitive, Zenon DEF Inv
  <1>6. QED
    BY Zenon DEF Observed, a, b, c, n

\* schedule_task_regions keeps the invariant when the regions are up to date
\* and none has failed: a region that is retried has a task that ended without
\* success and has attempts left, and its tasks are in lockstep.
LEMMA ScheduleTaskRegionsInv ==
    ASSUME NEW j, Inv(j), RegionsCurrent(j), j.state = "Running",
           \A r \in Region : j.regions[r] # "Failed"
    PROVE  LET n == ScheduleTaskRegions(j) IN Inv(n) /\ Evolves(j, n)
  <1> DEFINE n == ScheduleTaskRegions(j)
             scheduled == ScheduledRegions(j)
             len == [t \in Task |-> IF RegionOf[t] \in scheduled THEN j.len[t] + 1 ELSE j.len[t]]
  <1>1. /\ DescriptorOK(j) /\ \A t \in Task : RegionOf[t] \in Region
        /\ MaxAttempts \in Nat
    BY JobGraphAssumption, Zenon DEF Inv
  <1>2. len \in [Task -> Nat] /\ j.len \in [Task -> Nat]
    BY <1>1 DEF DescriptorOK
  <1>3. Keys(j) \subseteq KeysUpTo(len)
    <2> SUFFICES ASSUME NEW k \in Keys(j) PROVE k \in KeysUpTo(len)
      BY Zenon
    <2> k[1] \in Task /\ k[2] \in 1 .. j.len[k[1]] /\ k = <<k[1], k[2]>>
      BY <1>2, KeyFacts, Zenon DEF Keys
    <2> k[2] \in 1 .. len[k[1]]
      BY <1>2
    <2> HIDE DEF len
    <2>3. QED
      BY <1>2, KeyFacts
  <1>4. /\ n.len = len /\ n.state = j.state /\ n.stages = j.stages /\ n.fetched = j.fetched
        /\ n.regions = j.regions /\ Keys(n) = KeysUpTo(len)
        /\ n.attempts = [k \in KeysUpTo(len) |-> IF k \in Keys(j) THEN j.attempts[k] ELSE "Created"]
    BY <1>1, Zenon DEF DescriptorOK, JobDescriptor, Keys, ScheduleTaskRegions
  <1>5. DescriptorOK(n)
    <2> j.attempts \in [Keys(j) -> TaskState] /\ j.fetched \subseteq Keys(j)
      BY <1>1, Zenon DEF DescriptorOK, JobDescriptor, Keys
    <2>2. n.attempts \in [KeysUpTo(len) -> TaskState]
      BY <1>4, Zenon DEF TaskState
    <2> n.fetched \subseteq KeysUpTo(len)
      BY <1>3, <1>4, Zenon
    <2> HIDE DEF len
    <2> n = [j EXCEPT !.len = n.len, !.attempts = n.attempts]
      BY <1>1, <1>4, Zenon DEF DescriptorOK, JobDescriptor, ScheduleTaskRegions
    <2>5. QED
      BY <1>1, <1>2, <1>4, <2>2, Zenon DEF DescriptorOK, JobDescriptor
  <1>6. Lockstep(n)
    <2> ASSUME NEW t \in Task, NEW u \in TasksOf(RegionOf[t])
        PROVE  len[u] = len[t]
      <3> u \in Task /\ RegionOf[u] = RegionOf[t] /\ j.len[u] = j.len[t]
        BY Zenon DEF Inv, Lockstep, TasksOf
      <3>2. QED
        BY Zenon
    <2> HIDE DEF len, n
    <2>2. QED
      BY <1>4, Zenon DEF Lockstep
  <1>7. Bounded(n)
    <2> SUFFICES ASSUME NEW t \in Task, RegionOf[t] \in scheduled
                 PROVE  j.len[t] + 1 <= AttemptLimit
      BY <1>2, <1>4, Zenon DEF Inv, Bounded
    <2>1. PICK u \in TasksOf(RegionOf[t]) : ~ LatestIn(j, u, {"Succeeded"})
      BY <1>1 DEF RegionsCurrent, ScheduledRegions, Exhausted, TasksOf
    <2> u \in Task /\ RegionOf[u] = RegionOf[t] /\ j.len[u] = j.len[t]
      BY <2>1, Zenon DEF TasksOf, Inv, Lockstep
    <2>3. CASE j.len[u] = 0
      BY <1>1, <2>3 DEF AttemptLimit
    <2>4. CASE j.len[u] > 0
      <3>1. j.attempts[LatestKey(j, u)] \in TaskState
        BY <1>1, <2>4, LatestKeyIsKey, Zenon DEF DescriptorOK, JobDescriptor, Keys
      <3>2. LatestIn(j, u, {"Failed", "Canceled"})
        BY <2>1, <2>4, <3>1, Zenon DEF ScheduledRegions, LatestIn, TaskState, Terminal
      <3> ~ Exhausted(j, u)
        BY <1>1, Zenon DEF RegionsCurrent
      <3> j.len[u] < MaxAttempts
        BY <1>1, <1>2, <3>2 DEF Exhausted
      <3>5. QED
        BY <1>1, <1>2 DEF AttemptLimit
    <2>5. QED
      BY <1>2, <2>3, <2>4
  <1>8. EarlierEnded(n)
    <2> SUFFICES ASSUME NEW k \in KeysUpTo(len), k[2] < len[k[1]]
                 PROVE  k \in Keys(j) /\ j.attempts[k] \in Terminal
      BY <1>4, Zenon DEF EarlierEnded
    <2> HIDE DEF len
    <2> k[1] \in Task /\ k[2] \in 1 .. len[k[1]] /\ k = <<k[1], k[2]>>
      BY <1>2, KeyFacts, Zenon
    <2>2. k[2] \in 1 .. j.len[k[1]]
      BY <1>2 DEF len
    <2>3. k \in Keys(j)
      BY <1>2, <2>2, KeyFacts DEF Keys
    <2>4. CASE k[2] < j.len[k[1]]
      BY <2>3, <2>4, Zenon DEF Inv, EarlierEnded
    <2>5. CASE k[2] = j.len[k[1]]
      <3>1. RegionOf[k[1]] \in scheduled
        BY <1>2, <2>5 DEF len
      <3>2. ~ LatestIn(j, k[1], TaskState \ Terminal)
        BY <3>1, Zenon DEF ScheduledRegions, TasksOf
      <3> j.attempts[k] \in TaskState
        BY <1>1, <2>3, Zenon DEF DescriptorOK, JobDescriptor, Keys
      <3> k = LatestKey(j, k[1]) /\ j.len[k[1]] > 0
        BY <1>2, <2>2, <2>5 DEF LatestKey
      <3>5. QED
        BY <3>2, <2>3, Zenon DEF LatestIn
    <2>6. QED
      BY <1>2, <2>2, <2>4, <2>5
  <1>9. \A t \in Task : j.regions[RegionOf[t]] = "Succeeded" => n.len[t] = j.len[t]
    BY <1>4, Zenon DEF ScheduledRegions
  <1>10. RegionsSound(n)
    <2> SUFFICES ASSUME NEW t \in Task, j.regions[RegionOf[t]] = "Succeeded"
                 PROVE  LatestIn(n, t, {"Succeeded"})
      BY <1>4, Zenon DEF RegionsSound
    <2> LatestIn(j, t, {"Succeeded"})
      BY Zenon DEF Inv, RegionsSound
    <2> LatestKey(n, t) = LatestKey(j, t) /\ n.len[t] = j.len[t]
      BY <1>9, Zenon DEF LatestKey
    <2> LatestKey(j, t) \in Keys(j)
      BY <1>1, LatestKeyIsKey, Zenon DEF LatestIn
    <2>4. QED
      BY <1>3, <1>4, Zenon DEF LatestIn
  <1>11. Complete(n)
    BY <1>4, Zenon DEF Complete
  <1> OutputSound(n)
    <2> j.fetched \subseteq Keys(j)
      BY <1>1, Zenon DEF DescriptorOK, JobDescriptor, Keys
    <2>2. QED
      BY <1>3, <1>4, Zenon DEF Inv, OutputSound
  <1> Evolves(j, n)
    BY <1>3, <1>4, <1>9, Zenon DEF Evolves
  <1>14. QED
    BY <1>5, <1>6, <1>7, <1>8, <1>10, <1>11, Zenon DEF Inv

\* refresh_job keeps the invariant.
LEMMA RefreshJobInv ==
    ASSUME NEW j, Inv(j)
    PROVE  Inv(RefreshJob(j)) /\ Evolves(j, RefreshJob(j))
  <1>1. CASE j.state # "Running"
    BY <1>1, Zenon DEF RefreshJob, Evolves
  <1>2. CASE j.state = "Running"
    <2> DEFINE o == Observed(j)
               n == RefreshRunning(o)
    <2>1. /\ Inv(o) /\ Evolves(j, o) /\ o.state = "Running"
          /\ RegionsCurrent(o) /\ OutputExtended(o)
      BY <1>2, ObservedInv, Zenon
    <2> HIDE DEF o
    <2>2. DescriptorOK(o) /\ \A t \in Task : RegionOf[t] \in Region
      BY <2>1, JobGraphAssumption, Zenon DEF Inv
    <2>3. ASSUME \E r \in Region : o.regions[r] = "Failed"
          PROVE  Inv(n) /\ Evolves(o, n)
      <3>1. n = [o EXCEPT !.state = "Failed"]
        BY <2>3, Zenon DEF RefreshRunning
      <3> /\ DescriptorOK(n) /\ n.len = o.len /\ n.state = "Failed" /\ n.regions = o.regions
          /\ n.fetched = o.fetched /\ n.attempts = o.attempts /\ Keys(n) = Keys(o)
        BY <2>2, <3>1, Zenon DEF DescriptorOK, JobDescriptor, Keys, JobState
      <3> Inv(n) /\ Evolves(o, n)
        BY <2>1 DEF Inv, Lockstep, Bounded, EarlierEnded, RegionsSound, Complete,
                         OutputSound, LatestIn, LatestKey, Evolves
      <3>4. QED
        BY Zenon
    <2>4. ASSUME \A r \in Region : o.regions[r] = "Succeeded"
          PROVE  Inv(n) /\ Evolves(o, n)
      <3>1. n = [o EXCEPT !.state = "Draining"]
        BY <2>4, Zenon DEF RefreshRunning
      <3> /\ DescriptorOK(n) /\ n.len = o.len /\ n.state = "Draining" /\ n.regions = o.regions
          /\ n.fetched = o.fetched /\ n.attempts = o.attempts /\ Keys(n) = Keys(o)
        BY <2>2, <3>1, Zenon DEF DescriptorOK, JobDescriptor, Keys, JobState
      <3>3. \A t \in Task : LatestIn(o, t, {"Succeeded"})
        BY <2>1, <2>2, <2>4, Zenon DEF Inv, RegionsSound
      <3> Complete(n)
        BY <2>1, <3>3, Zenon DEF Complete, OutputExtended, LatestIn, LatestKey
      <3> Inv(n) /\ Evolves(o, n)
        BY <2>1 DEF Inv, Lockstep, Bounded, EarlierEnded, RegionsSound,
                               OutputSound, LatestIn, LatestKey, Evolves
      <3>6. QED
        BY Zenon
    <2>5. ASSUME \A r \in Region : o.regions[r] # "Failed",
                 ~ \A r \in Region : o.regions[r] = "Succeeded"
          PROVE  Inv(n) /\ Evolves(o, n)
      <3> USE <2>5
      <3> n = ScheduleTaskRegions(o)
        BY Zenon DEF RefreshRunning
      <3>2. QED
        BY <2>1, ScheduleTaskRegionsInv, Zenon
    <2> HIDE DEF n
    <2> Inv(n) /\ Evolves(o, n)
      BY <2>3, <2>4, <2>5, Zenon
    <2> Evolves(j, n)
      BY <2>1, EvolvesTransitive, Zenon DEF Inv
    <2> RefreshJob(j) = n
      BY <1>2, Zenon DEF RefreshJob, n, o
    <2>9. QED
      BY Zenon
  <1>3. QED
    BY <1>1, <1>2, Zenon

\* clean_up_job keeps the invariant: a job becomes Succeeded from Draining only.
LEMMA CleanUpJobInv ==
    ASSUME NEW j, Inv(j)
    PROVE  Inv(CleanUpJob(j)) /\ Evolves(j, CleanUpJob(j))
  <1> DEFINE n == CleanUpJob(j)
  <1> DescriptorOK(j)
    BY Zenon DEF Inv
  <1> /\ DescriptorOK(n) /\ n.len = j.len /\ n.regions = j.regions
      /\ n.fetched = j.fetched /\ n.attempts = j.attempts /\ Keys(n) = Keys(j)
      /\ n.state = IF j.state = "Draining" THEN "Succeeded" ELSE "Canceled"
    BY Zenon DEF DescriptorOK, JobDescriptor, Keys, JobState, StageState, CleanUpJob
  <1>3. QED
    BY DEF Inv, Lockstep, Bounded, EarlierEnded, RegionsSound, Complete,
                OutputSound, LatestIn, LatestKey, Evolves

\* The stop of the driver keeps the invariant: it cancels live attempts only,
\* and no job succeeds by it.
LEMMA StopJobInv ==
    ASSUME NEW j, Inv(j)
    PROVE  Inv(StopJob(j)) /\ Evolves(j, StopJob(j))
  <1> DEFINE f == [k \in Keys(j) |-> IF j.attempts[k] \in Terminal THEN j.attempts[k] ELSE "Canceled"]
             m == [j EXCEPT !.attempts = f]
             n == StopJob(j)
  <1>1. DescriptorOK(j)
    BY Zenon DEF Inv
  <1>2. f \in [Keys(j) -> TaskState]
    BY <1>1, Zenon DEF DescriptorOK, JobDescriptor, Keys, TaskState
  <1>3. \A k \in Keys(j) :
            /\ j.attempts[k] \in Terminal => f[k] = j.attempts[k]
            /\ j.attempts[k] \notin {"Created", "Scheduled"} => f[k] \notin {"Created", "Scheduled"}
    BY Zenon
  <1> m.len = j.len /\ m.regions = j.regions /\ m.fetched = j.fetched /\ m.attempts = f
      /\ m.state = j.state
    BY <1>1, Zenon DEF DescriptorOK, JobDescriptor
  <1>5. /\ n.len = j.len /\ n.regions = j.regions
        /\ n.fetched = j.fetched /\ n.attempts = f /\ Keys(n) = Keys(j)
        /\ n.state = IF j.state \in {"Running", "Draining"} THEN "Canceled" ELSE j.state
        /\ DescriptorOK(n)
    BY <1>1, <1>2, Zenon DEF DescriptorOK, JobDescriptor, Keys, JobState, StageState, StopJob
  <1> HIDE DEF f
  <1> Inv(m) /\ Evolves(j, m)
    BY <1>2, <1>3, ChangeOfAttempts, Zenon
  <1> HIDE DEF m
  <1> Keys(m) = Keys(j)
    BY Zenon DEF Keys
  <1>8. QED
    BY <1>5 DEF Inv, Lockstep, Bounded, EarlierEnded, RegionsSound, Complete,
                OutputSound, LatestIn, LatestKey, Evolves

\* The descriptor of a job that has just been accepted.
LEMMA AcceptJobInv == Inv(AcceptJob)
  <1> DEFINE j == AcceptJob
             zero == [t \in Task |-> 0]
  <1>1. KeysUpTo(zero) = {}
    BY DEF KeysUpTo
  <1> j.len = zero /\ j.fetched = {} /\ j.attempts \in [{} -> TaskState]
    BY Zenon DEF AcceptJob
  <1>3. /\ j.state = "Running" /\ j.stages = [s \in Stage |-> "Active"]
        /\ j.regions = [r \in Region |-> "Running"]
    BY Zenon DEF AcceptJob
  <1>4. DescriptorOK(j)
    <2> zero \in [Task -> Nat] /\ j.len \in {zero} /\ j.fetched \subseteq KeysUpTo(zero)
        /\ j.attempts \in [KeysUpTo(zero) -> TaskState]
      BY <1>1, Zenon
    <2> j.state \in JobState /\ j.stages \in [Stage -> StageState]
        /\ j.regions \in [Region -> RegionState]
      BY <1>3 DEF JobState, StageState, RegionState
    <2> HIDE DEF zero
    <2> j \in JobDescriptor(zero)
      BY Zenon DEF AcceptJob, JobDescriptor
    <2>4. QED
      BY Zenon DEF DescriptorOK
  <1>5. Keys(j) = {}
    BY <1>1, Zenon DEF Keys
  <1>6. Lockstep(j) /\ Bounded(j)
    BY JobGraphAssumption DEF Lockstep, Bounded, AttemptLimit, TasksOf
  <1> EarlierEnded(j) /\ OutputSound(j)
    BY <1>5, Zenon DEF EarlierEnded, OutputSound
  <1> RegionsSound(j) /\ Complete(j)
    BY <1>3, JobGraphAssumption, Zenon DEF RegionsSound, Complete
  <1>9. QED
    BY <1>4, <1>6, Zenon DEF Inv
-----------------------------------------------------------------------------
(* What the driver relies on when it keeps the keys of attempts in its own *)
(* tables and messages.                                                    *)

\* update_task persists, and an attempt that it updates is not Created any more.
LEMMA UpdateTasksPersists ==
    ASSUME NEW j, Inv(j), NEW keys, NEW s \in TaskState
    PROVE  LET n == UpdateTasks(j, keys, s)
           IN  /\ Persists(j, n) /\ n.state = j.state /\ n.len = j.len /\ Keys(n) = Keys(j)
               /\ s # "Created" => \A k \in Keys(j) : k \in keys => n.attempts[k] # "Created"
  <1> DEFINE n == UpdateTasks(j, keys, s)
             f == [k \in Keys(j) |-> IF k \in keys THEN Consolidate(j.attempts[k], s)
                                                   ELSE j.attempts[k]]
  <1>1. DescriptorOK(j)
    BY Zenon DEF Inv
  <1>2. n = [j EXCEPT !.attempts = f]
    BY Zenon DEF UpdateTasks
  <1>3. \A k \in Keys(j) :
            /\ j.attempts[k] # "Created" => f[k] # "Created"
            /\ j.attempts[k] = "Canceled" => f[k] = "Canceled"
            /\ s # "Created" /\ k \in keys => f[k] # "Created"
    <2> \A k \in Keys(j) : j.attempts[k] \in TaskState
      BY <1>1, Zenon DEF DescriptorOK, JobDescriptor, Keys
    <2>2. QED
      BY Zenon DEF Consolidate, Terminal, TaskState
  <1> HIDE DEF f, n
  <1> n.attempts = f /\ n.len = j.len /\ n.stages = j.stages /\ n.state = j.state
    BY <1>1, <1>2, Zenon DEF DescriptorOK, JobDescriptor
  <1> Keys(n) = Keys(j)
    BY Zenon DEF Keys
  <1>6. QED
    BY <1>3, Zenon DEF Persists, n

\* clean_up_job of the scheduler persists, and leaves no stage active.
LEMMA CleanUpJobPersists ==
    ASSUME NEW j, Inv(j), j.state \notin {"Succeeded", "Canceled"}
    PROVE  LET n == CleanUpJob(j)
           IN  /\ Persists(j, n) /\ n.len = j.len
               /\ n.state \in {"Succeeded", "Canceled"}
               /\ \A s \in Stage : n.stages[s] = "Inactive"
  <1> DEFINE n == CleanUpJob(j)
  <1> /\ n.attempts = j.attempts /\ n.len = j.len /\ Keys(n) = Keys(j)
      /\ n.state \in {"Succeeded", "Canceled"} /\ n.stages = [s \in Stage |-> "Inactive"]
    BY Zenon DEF Inv, DescriptorOK, JobDescriptor, CleanUpJob, Keys
  <1>2. QED
    BY Zenon DEF Persists

\* What refresh_job observes before it decides: the cascade of cancellations
\* and the clean-up of stages.
LEMMA ObservedEffects ==
    ASSUME NEW j, Inv(j)
    PROVE  LET o == Observed(j)
           IN  /\ o.state = j.state /\ o.len = j.len /\ Keys(o) = Keys(j)
               /\ o.attempts = [k \in Keys(j) |-> IF k \in CanceledKeys(j) THEN "Canceled"
                                                                          ELSE j.attempts[k]]
               /\ \A s \in Stage : j.stages[s] = "Inactive" => o.stages[s] = "Inactive"
  <1> DEFINE c == CascadeCancelTaskAttempts(j)
             x == ExtendJobOutput(c)
             y == CleanUpJobByStage(x)
             o == UpdateTaskRegions(y)
  <1> Inv(c) /\ c.state = j.state /\ c.len = j.len /\ c.stages = j.stages
      /\ c.attempts = [k \in Keys(j) |-> IF k \in CanceledKeys(j) THEN "Canceled"
                                                                  ELSE j.attempts[k]]
    BY CascadeCancelInv, Zenon DEF CascadeCancelTaskAttempts, Inv, DescriptorOK, JobDescriptor
  <1> HIDE DEF c
  <1> Inv(x) /\ x.state = c.state /\ x.len = c.len /\ x.stages = c.stages /\ x.attempts = c.attempts
    BY ExtendJobOutputInv, Zenon DEF ExtendJobOutput, Inv, DescriptorOK, JobDescriptor
  <1> HIDE DEF x
  <1> /\ Inv(y) /\ y.state = x.state /\ y.len = x.len /\ y.attempts = x.attempts
      /\ \A s \in Stage : x.stages[s] = "Inactive" => y.stages[s] = "Inactive"
    BY CleanUpJobByStageInv, Zenon DEF CleanUpJobByStage, Inv, DescriptorOK, JobDescriptor
  <1> HIDE DEF y
  <1> o.state = y.state /\ o.len = y.len /\ o.attempts = y.attempts /\ o.stages = y.stages
    BY Zenon DEF UpdateTaskRegions, Inv, DescriptorOK, JobDescriptor
  <1> Observed(j) = o
    BY Zenon DEF Observed, o, y, x, c
  <1> HIDE DEF o
  <1> Keys(o) = Keys(j)
    BY Zenon DEF Keys
  <1>7. QED
    OBVIOUS

\* refresh_job persists, and the attempts it cancels are recorded as canceled.
LEMMA RefreshJobPersists ==
    ASSUME NEW j, Inv(j)
    PROVE  LET n == RefreshJob(j)
           IN  /\ Persists(j, n)
               /\ j.state = "Running" =>
                    \A k \in CanceledKeys(j) : k \in Keys(j) /\ n.attempts[k] = "Canceled"
               /\ j.state # "Running" => n = j
  <1>1. CASE j.state # "Running"
    BY <1>1, Zenon DEF RefreshJob, Persists
  <1>2. CASE j.state = "Running"
    <2> DEFINE o == Observed(j)
               n == RefreshRunning(o)
    <2>1. /\ Inv(o) /\ o.state = j.state /\ o.len = j.len /\ Keys(o) = Keys(j)
          /\ o.attempts = [k \in Keys(j) |-> IF k \in CanceledKeys(j) THEN "Canceled"
                                                                      ELSE j.attempts[k]]
          /\ \A s \in Stage : j.stages[s] = "Inactive" => o.stages[s] = "Inactive"
      BY <1>2, ObservedInv, ObservedEffects, Zenon
    <2> HIDE DEF o
    <2>2. /\ n.stages = o.stages
          /\ \A k \in Keys(o) : k \in Keys(n) /\ n.attempts[k] = o.attempts[k]
      <3>1. CASE \E r \in Region : o.regions[r] = "Failed"
        <4> n = [o EXCEPT !.state = "Failed"]
          BY <3>1, Zenon DEF RefreshRunning
        <4> n.stages = o.stages /\ n.attempts = o.attempts /\ n.len = o.len
          BY <2>1, Zenon DEF Inv, DescriptorOK, JobDescriptor
        <4>3. QED
          BY Zenon DEF Keys
      <3>2. CASE ~ (\E r \in Region : o.regions[r] = "Failed")
                 /\ \A r \in Region : o.regions[r] = "Succeeded"
        <4> n = [o EXCEPT !.state = "Draining"]
          BY <3>2, Zenon DEF RefreshRunning
        <4> n.stages = o.stages /\ n.attempts = o.attempts /\ n.len = o.len
          BY <2>1, Zenon DEF Inv, DescriptorOK, JobDescriptor
        <4>3. QED
          BY Zenon DEF Keys
      <3>3. CASE ~ (\E r \in Region : o.regions[r] = "Failed")
                 /\ ~ \A r \in Region : o.regions[r] = "Succeeded"
        <4> DEFINE len == [t \in Task |-> IF RegionOf[t] \in ScheduledRegions(o)
                                          THEN o.len[t] + 1 ELSE o.len[t]]
                   f == [k \in KeysUpTo(len) |-> IF k \in Keys(o) THEN o.attempts[k] ELSE "Created"]
        <4>1. n = [o EXCEPT !.len = len, !.attempts = f]
          BY <3>3, Zenon DEF RefreshRunning, ScheduleTaskRegions
        <4> \A k \in Keys(o) : k \in KeysUpTo(len)
          <5> o.len \in [Task -> Nat] /\ len \in [Task -> Nat]
              /\ \A t \in Task : o.len[t] <= len[t]
            BY <2>1 DEF Inv, DescriptorOK
          <5> HIDE DEF len
          <5>2. QED
            BY KeyFacts DEF Keys
        <4> HIDE DEF len
        <4>3. \A k \in Keys(o) : f[k] = o.attempts[k]
          BY Zenon
        <4> HIDE DEF f, n
        <4> n.len = len /\ n.attempts = f /\ n.stages = o.stages
          BY <2>1, <4>1, Zenon DEF Inv, DescriptorOK, JobDescriptor
        <4> Keys(n) = KeysUpTo(len)
          BY Zenon DEF Keys
        <4>6. QED
          BY <4>3, Zenon
      <3>4. QED
        BY <3>1, <3>2, <3>3, Zenon
    <2> RefreshJob(j) = n
      BY <1>2, Zenon DEF RefreshJob, o
    <2> HIDE DEF n
    <2> CanceledKeys(j) \subseteq Keys(j)
      BY Zenon DEF CanceledKeys
    <2>5. QED
      BY <1>2, <2>1, <2>2 DEF Persists
  <1>3. QED
    BY <1>1, <1>2, Zenon
-----------------------------------------------------------------------------
(* run_tasks marks attempts Scheduled, and no method of the scheduler can  *)
(* tell a Created attempt from a Scheduled one.  So a refresh after some   *)
(* launches is a refresh followed by launches.                             *)

\* Two descriptors with equal fields are equal.
LEMMA SameDescriptor ==
    ASSUME NEW j, NEW n, DescriptorOK(j), DescriptorOK(n),
           n.state = j.state, n.stages = j.stages, n.len = j.len,
           n.fetched = j.fetched, n.regions = j.regions,
           \A k \in Keys(j) : n.attempts[k] = j.attempts[k]
    PROVE  n = j
  <1> n.attempts = j.attempts
    <2> n.attempts \in [Keys(j) -> TaskState] /\ j.attempts \in [Keys(j) -> TaskState]
      BY Zenon DEF DescriptorOK, JobDescriptor, Keys
    <2>2. QED
      OBVIOUS
  <1>2. QED
    BY DEF DescriptorOK, JobDescriptor

\* Forward is what run_tasks does.
LEMMA ForwardLaunches ==
    ASSUME NEW j, Inv(j), NEW n, Inv(n)
    PROVE  Forward(j, n) <=> Launches(j, n)
  <1> DEFINE Created == {k \in Keys(j) : j.attempts[k] = "Created"}
  <1>1. ASSUME NEW keys \in SUBSET Keys(j)
        PROVE  LET u == UpdateTasks(j, keys, "Scheduled")
               IN  /\ u.state = j.state /\ u.stages = j.stages /\ u.len = j.len
                   /\ u.fetched = j.fetched /\ u.regions = j.regions
                   /\ \A k \in Keys(j) : u.attempts[k] = IF k \in keys THEN Consolidate(j.attempts[k], "Scheduled")
                                                                       ELSE j.attempts[k]
    BY Zenon DEF UpdateTasks, Inv, DescriptorOK, JobDescriptor
  <1>2. Consolidate("Created", "Scheduled") = "Scheduled"
    BY Zenon DEF Consolidate, Terminal
  <1>3. ASSUME Launches(j, n)
        PROVE  Forward(j, n)
    <2> PICK keys \in SUBSET Created : n = UpdateTasks(j, keys, "Scheduled")
      BY <1>3, Zenon DEF Launches
    <2>2. QED
      BY <1>1, <1>2 DEF Forward, Inv
  <1>4. ASSUME Forward(j, n)
        PROVE  Launches(j, n)
    <2> DEFINE keys == {k \in Created : n.attempts[k] = "Scheduled"}
               u == UpdateTasks(j, keys, "Scheduled")
    <2>1. keys \in SUBSET Keys(j) /\ keys \in SUBSET Created
      BY Zenon
    <2>2. DescriptorOK(u)
      BY UpdateTasksInv, Zenon DEF Inv, TaskState
    <2> /\ u.state = j.state /\ u.stages = j.stages /\ u.len = j.len
        /\ u.fetched = j.fetched /\ u.regions = j.regions
        /\ \A k \in Keys(j) : u.attempts[k] = IF k \in keys THEN Consolidate(j.attempts[k], "Scheduled")
                                                            ELSE j.attempts[k]
      BY <1>1, <2>1, Zenon
    <2>4. \A k \in Keys(j) : u.attempts[k] = n.attempts[k]
      BY <1>2, <1>4 DEF Forward
    <2> HIDE DEF u, keys
    <2> n = u
      <3> Keys(u) = Keys(j)
        BY Zenon DEF Keys
      <3>2. QED
        BY <1>4, <2>2, <2>4, SameDescriptor DEF Forward
    <2>6. QED
      BY <2>1, Zenon DEF Launches, u
  <1>5. QED
    BY <1>3, <1>4, Zenon

\* Launches add up.
LEMMA ForwardTransitive ==
    ASSUME NEW i, NEW j, NEW n, Forward(i, j), Forward(j, n)
    PROVE  Forward(i, n)
  <1> Keys(j) = Keys(i)
    BY Zenon DEF Forward, Keys
  <1>2. QED
    BY Zenon DEF Forward

\* A launch changes no answer that the scheduler asks for.
LEMMA ForwardLatest ==
    ASSUME NEW j, NEW n, Forward(j, n), NEW t \in Task
    PROVE  /\ LatestIn(n, t, {"Failed"}) <=> LatestIn(j, t, {"Failed"})
           /\ LatestIn(n, t, {"Running", "Succeeded"}) <=> LatestIn(j, t, {"Running", "Succeeded"})
           /\ LatestIn(n, t, {"Succeeded"}) <=> LatestIn(j, t, {"Succeeded"})
           /\ LatestIn(n, t, {"Failed", "Canceled"}) <=> LatestIn(j, t, {"Failed", "Canceled"})
           /\ LatestIn(n, t, TaskState \ Terminal) <=> LatestIn(j, t, TaskState \ Terminal)
           /\ LatestKey(n, t) = LatestKey(j, t)
  <1>1. LatestKey(n, t) = LatestKey(j, t) /\ n.len[t] = j.len[t]
    BY Zenon DEF Forward, LatestKey
  <1>2. CASE j.len[t] > 0
    <2> LatestKey(j, t) \in Keys(j)
      BY <1>2, LatestKeyIsKey, Zenon DEF Forward
    <2> \/ n.attempts[LatestKey(j, t)] = j.attempts[LatestKey(j, t)]
        \/ j.attempts[LatestKey(j, t)] = "Created" /\ n.attempts[LatestKey(j, t)] = "Scheduled"
      BY Zenon DEF Forward
    <2>3. QED
      BY <1>1, Zenon DEF LatestIn, TaskState, Terminal
  <1>3. CASE ~ (j.len[t] > 0)
    BY <1>1, <1>3, Zenon DEF LatestIn
  <1>4. QED
    BY <1>2, <1>3, Zenon

\* The methods that refresh_job calls before it decides the outcome.
LEMMA ObservedForward ==
    ASSUME NEW j, Inv(j), NEW n, Inv(n), Forward(j, n)
    PROVE  Forward(Observed(j), Observed(n))
  <1> DEFINE j1 == CascadeCancelTaskAttempts(j)
             n1 == CascadeCancelTaskAttempts(n)
             j2 == ExtendJobOutput(j1)
             n2 == ExtendJobOutput(n1)
             j3 == CleanUpJobByStage(j2)
             n3 == CleanUpJobByStage(n2)
             j4 == UpdateTaskRegions(j3)
             n4 == UpdateTaskRegions(n3)
  <1>1. Forward(j1, n1) /\ Inv(j1) /\ Inv(n1)
    <2>1. Inv(j1) /\ Inv(n1)
      BY CascadeCancelInv, Zenon
    <2>2. Keys(n) = Keys(j)
      BY Zenon DEF Forward, Keys
    <2>3. CanceledKeys(n) = CanceledKeys(j)
      <3> \A k \in Keys(j) : n.attempts[k] \in Terminal <=> j.attempts[k] \in Terminal
        BY Zenon DEF Forward, Terminal
      <3> \A u \in Task : LatestIn(n, u, {"Failed"}) <=> LatestIn(j, u, {"Failed"})
        BY ForwardLatest, Zenon
      <3>3. QED
        BY <2>2, Zenon DEF CanceledKeys, TasksOf
    <2> /\ j1.state = j.state /\ j1.stages = j.stages /\ j1.len = j.len
        /\ j1.fetched = j.fetched /\ j1.regions = j.regions
        /\ j1.attempts = [k \in Keys(j) |-> IF k \in CanceledKeys(j) THEN "Canceled" ELSE j.attempts[k]]
      BY Zenon DEF CascadeCancelTaskAttempts, Inv, DescriptorOK, JobDescriptor
    <2> /\ n1.state = n.state /\ n1.stages = n.stages /\ n1.len = n.len
        /\ n1.fetched = n.fetched /\ n1.regions = n.regions
        /\ n1.attempts = [k \in Keys(n) |-> IF k \in CanceledKeys(n) THEN "Canceled" ELSE n.attempts[k]]
      BY Zenon DEF CascadeCancelTaskAttempts, Inv, DescriptorOK, JobDescriptor
    <2> HIDE DEF j1, n1
    <2> Keys(j1) = Keys(j)
      BY Zenon DEF Keys
    <2>7. QED
      BY <2>1, <2>2, <2>3 DEF Forward, Inv
  <1> HIDE DEF j1, n1
  <1>2. Forward(j2, n2) /\ Inv(j2) /\ Inv(n2)
    <2>1. Inv(j2) /\ Inv(n2)
      BY <1>1, ExtendJobOutputInv, Zenon
    <2>2. ExtendedKeys(n1) = ExtendedKeys(j1)
      <3> \A t \in Task : /\ LatestIn(n1, t, {"Running", "Succeeded"}) <=> LatestIn(j1, t, {"Running", "Succeeded"})
                          /\ LatestKey(n1, t) = LatestKey(j1, t)
        BY <1>1, ForwardLatest, Zenon
      <3> n1.fetched = j1.fetched
        BY <1>1, Zenon DEF Forward
      <3>3. QED
        BY Zenon DEF ExtendedKeys, FinalTask
    <2> /\ j2.state = j1.state /\ j2.stages = j1.stages /\ j2.len = j1.len
        /\ j2.attempts = j1.attempts /\ j2.regions = j1.regions
        /\ j2.fetched = j1.fetched \cup ExtendedKeys(j1)
      BY <1>1, Zenon DEF ExtendJobOutput, Inv, DescriptorOK, JobDescriptor
    <2> /\ n2.state = n1.state /\ n2.stages = n1.stages /\ n2.len = n1.len
        /\ n2.attempts = n1.attempts /\ n2.regions = n1.regions
        /\ n2.fetched = n1.fetched \cup ExtendedKeys(n1)
      BY <1>1, Zenon DEF ExtendJobOutput, Inv, DescriptorOK, JobDescriptor
    <2> HIDE DEF j2, n2
    <2> Keys(j2) = Keys(j1)
      BY Zenon DEF Keys
    <2>6. QED
      BY <1>1, <2>1, <2>2 DEF Forward, Inv
  <1> HIDE DEF j2, n2
  <1> Forward(j3, n3) /\ Inv(j3) /\ Inv(n3)
    <2>1. Inv(j3) /\ Inv(n3)
      BY <1>2, CleanUpJobByStageInv, Zenon
    <2>2. CleanedStages(n2) = CleanedStages(j2)
      <3> \A t \in Task : LatestIn(n2, t, {"Succeeded"}) <=> LatestIn(j2, t, {"Succeeded"})
        BY <1>2, ForwardLatest, Zenon
      <3> n2.stages = j2.stages
        BY <1>2, Zenon DEF Forward
      <3>3. QED
        BY Zenon DEF CleanedStages
    <2> /\ j3.state = j2.state /\ j3.len = j2.len /\ j3.fetched = j2.fetched
        /\ j3.attempts = j2.attempts /\ j3.regions = j2.regions
        /\ j3.stages = [s \in Stage |-> IF s \in CleanedStages(j2) THEN "Inactive" ELSE j2.stages[s]]
      BY <1>2, Zenon DEF CleanUpJobByStage, Inv, DescriptorOK, JobDescriptor
    <2> /\ n3.state = n2.state /\ n3.len = n2.len /\ n3.fetched = n2.fetched
        /\ n3.attempts = n2.attempts /\ n3.regions = n2.regions
        /\ n3.stages = [s \in Stage |-> IF s \in CleanedStages(n2) THEN "Inactive" ELSE n2.stages[s]]
      BY <1>2, Zenon DEF CleanUpJobByStage, Inv, DescriptorOK, JobDescriptor
    <2> HIDE DEF j3, n3
    <2> Keys(j3) = Keys(j2)
      BY Zenon DEF Keys
    <2>6. QED
      BY <1>2, <2>1, <2>2 DEF Forward, Inv
  <1> HIDE DEF j3, n3
  <1> Forward(j4, n4)
    <2>1. Inv(j4) /\ Inv(n4)
      BY UpdateTaskRegionsInv, Zenon
    <2> DEFINE R(x) == [r \in Region |->
                            IF \E t \in TasksOf(r) : Exhausted(x, t) THEN "Failed"
                            ELSE IF \A t \in TasksOf(r) : LatestIn(x, t, {"Succeeded"}) THEN "Succeeded"
                            ELSE "Running"]
    <2>2. R(n3) = R(j3)
      <3> \A t \in Task : /\ LatestIn(n3, t, {"Succeeded"}) <=> LatestIn(j3, t, {"Succeeded"})
                          /\ LatestIn(n3, t, {"Failed", "Canceled"}) <=> LatestIn(j3, t, {"Failed", "Canceled"})
        BY ForwardLatest, Zenon
      <3> \A t \in Task : Exhausted(n3, t) <=> Exhausted(j3, t)
        BY Zenon DEF Exhausted, Forward
      <3>3. QED
        BY Zenon DEF TasksOf
    <2> /\ j4.state = j3.state /\ j4.len = j3.len /\ j4.fetched = j3.fetched
        /\ j4.attempts = j3.attempts /\ j4.stages = j3.stages
        /\ j4.regions = R(j3)
      BY Zenon DEF UpdateTaskRegions, Inv, DescriptorOK, JobDescriptor
    <2> /\ n4.state = n3.state /\ n4.len = n3.len /\ n4.fetched = n3.fetched
        /\ n4.attempts = n3.attempts /\ n4.stages = n3.stages
        /\ n4.regions = R(n3)
      BY Zenon DEF UpdateTaskRegions, Inv, DescriptorOK, JobDescriptor
    <2> HIDE DEF j4, n4, R
    <2> Keys(j4) = Keys(j3)
      BY Zenon DEF Keys
    <2>6. QED
      BY <2>1, <2>2 DEF Forward, Inv
  <1>5. QED
    BY Zenon DEF Observed, j4, n4, j3, n3, j2, n2, j1, n1

\* refresh_job after some launches.
LEMMA RefreshForward ==
    ASSUME NEW j, Inv(j), NEW n, Inv(n), Forward(j, n)
    PROVE  Forward(RefreshJob(j), RefreshJob(n))
  <1> DEFINE o == Observed(j)
             p == Observed(n)
             x == RefreshJob(j)
             y == RefreshJob(n)
  <1>1. n.state = j.state
    BY Zenon DEF Forward
  <1>2. Forward(o, p)
    BY ObservedForward, Zenon
  <1>3. DescriptorOK(x) /\ DescriptorOK(y)
    BY RefreshJobInv, Zenon DEF Inv
  <1>4. CASE j.state # "Running"
    BY <1>1, <1>4, Zenon DEF RefreshJob
  <1>5. CASE j.state = "Running"
    <2>1. x = RefreshRunning(o) /\ y = RefreshRunning(p)
      BY <1>1, <1>5, Zenon DEF RefreshJob
    <2> SUFFICES Forward(x, y)
      BY Zenon
    <2> HIDE DEF o, p, x, y
    <2> /\ p.regions = o.regions /\ DescriptorOK(o) /\ DescriptorOK(p) /\ Keys(p) = Keys(o)
      BY <1>2, Zenon DEF Forward, Keys
    <2>3. CASE \E r \in Region : o.regions[r] = "Failed"
      <3> x = [o EXCEPT !.state = "Failed"] /\ y = [p EXCEPT !.state = "Failed"]
        BY <2>1, <2>3, Zenon DEF RefreshRunning
      <3> /\ x.state = "Failed" /\ x.stages = o.stages /\ x.len = o.len /\ x.fetched = o.fetched
          /\ x.regions = o.regions /\ x.attempts = o.attempts
          /\ y.state = "Failed" /\ y.stages = p.stages /\ y.len = p.len /\ y.fetched = p.fetched
          /\ y.regions = p.regions /\ y.attempts = p.attempts
        BY Zenon DEF DescriptorOK, JobDescriptor
      <3>3. QED
        BY <1>2, <1>3 DEF Forward, Keys
    <2>4. CASE /\ ~ \E r \in Region : o.regions[r] = "Failed"
               /\ \A r \in Region : o.regions[r] = "Succeeded"
      <3> x = [o EXCEPT !.state = "Draining"] /\ y = [p EXCEPT !.state = "Draining"]
        BY <2>1, <2>4, Zenon DEF RefreshRunning
      <3> /\ x.state = "Draining" /\ x.stages = o.stages /\ x.len = o.len /\ x.fetched = o.fetched
          /\ x.regions = o.regions /\ x.attempts = o.attempts
          /\ y.state = "Draining" /\ y.stages = p.stages /\ y.len = p.len /\ y.fetched = p.fetched
          /\ y.regions = p.regions /\ y.attempts = p.attempts
        BY Zenon DEF DescriptorOK, JobDescriptor
      <3>3. QED
        BY <1>2, <1>3 DEF Forward, Keys
    <2>5. CASE /\ ~ \E r \in Region : o.regions[r] = "Failed"
               /\ ~ \A r \in Region : o.regions[r] = "Succeeded"
      <3>1. x = ScheduleTaskRegions(o) /\ y = ScheduleTaskRegions(p)
        BY <2>1, <2>5, Zenon DEF RefreshRunning
      <3>2. ScheduledRegions(p) = ScheduledRegions(o)
        <4> \A t \in Task : LatestIn(p, t, TaskState \ Terminal) <=> LatestIn(o, t, TaskState \ Terminal)
          BY <1>2, ForwardLatest, Zenon
        <4>2. QED
          BY Zenon DEF ScheduledRegions, TasksOf
      <3> DEFINE len == [t \in Task |-> IF RegionOf[t] \in ScheduledRegions(o) THEN o.len[t] + 1 ELSE o.len[t]]
                 A(z) == [k \in KeysUpTo(len) |-> IF k \in Keys(z) THEN z.attempts[k] ELSE "Created"]
      <3>3. p.len = o.len
        BY <1>2, Zenon DEF Forward
      <3>4. /\ x = [o EXCEPT !.len = len, !.attempts = A(o)]
            /\ y = [p EXCEPT !.len = len, !.attempts = A(p)]
        BY <3>1, <3>2, <3>3, Zenon DEF ScheduleTaskRegions
      <3> \A k \in KeysUpTo(len) :
              \/ A(p)[k] = A(o)[k]
              \/ A(o)[k] = "Created" /\ A(p)[k] = "Scheduled"
        BY <1>2, Zenon DEF Forward
      <3> HIDE DEF len, A
      <3> /\ x.state = o.state /\ x.stages = o.stages /\ x.len = len /\ x.fetched = o.fetched
          /\ x.regions = o.regions /\ x.attempts = A(o)
          /\ y.state = p.state /\ y.stages = p.stages /\ y.len = len /\ y.fetched = p.fetched
          /\ y.regions = p.regions /\ y.attempts = A(p)
        BY <3>4, Zenon DEF DescriptorOK, JobDescriptor
      <3>7. QED
        BY <1>2, <1>3 DEF Forward, Keys
    <2>6. QED
      BY <2>3, <2>4, <2>5, Zenon
  <1>6. QED
    BY <1>4, <1>5, Zenon

\* To schedule attempts launches those that are Created.
LEMMA ScheduleForward ==
    ASSUME NEW j, Inv(j), NEW keys
    PROVE  Forward(j, UpdateTasks(j, keys, "Scheduled"))
  <1> DEFINE u == UpdateTasks(j, keys, "Scheduled")
  <1> DescriptorOK(j) /\ j.attempts \in [Keys(j) -> TaskState]
    BY Zenon DEF Inv, DescriptorOK, JobDescriptor, Keys
  <1>2. DescriptorOK(u)
    BY UpdateTasksInv, Zenon DEF Inv, TaskState
  <1> /\ u.state = j.state /\ u.stages = j.stages /\ u.len = j.len
      /\ u.fetched = j.fetched /\ u.regions = j.regions
      /\ \A k \in Keys(j) : u.attempts[k] = IF k \in keys THEN Consolidate(j.attempts[k], "Scheduled")
                                                          ELSE j.attempts[k]
    BY Zenon DEF UpdateTasks, DescriptorOK, JobDescriptor
  <1> \A s \in TaskState : \/ Consolidate(s, "Scheduled") = s
                           \/ s = "Created" /\ Consolidate(s, "Scheduled") = "Scheduled"
    BY Zenon DEF Consolidate, TaskState, Terminal
  <1>5. QED
    BY <1>2, Zenon DEF Forward

\* To update no attempt changes nothing.
LEMMA UpdateNone ==
    ASSUME NEW j, Inv(j), NEW s
    PROVE  UpdateTasks(j, {}, s) = j
  <1> DescriptorOK(j) /\ j.attempts \in [Keys(j) -> TaskState]
    BY Zenon DEF Inv, DescriptorOK, JobDescriptor, Keys
  <1> [k \in Keys(j) |-> IF k \in {} THEN Consolidate(j.attempts[k], s) ELSE j.attempts[k]] = j.attempts
    BY Zenon
  <1> UpdateTasks(j, {}, s) = [j EXCEPT !.attempts = j.attempts]
    BY Zenon DEF UpdateTasks
  <1>4. QED
    BY Zenon DEF DescriptorOK, JobDescriptor

\* To fail an attempt that has ended changes nothing.
LEMMA FailLive ==
    ASSUME NEW j, NEW keys, NEW live \in SUBSET keys,
           \A k \in keys \cap Keys(j) : k \in live \/ j.attempts[k] \in Terminal
    PROVE  UpdateTasks(j, keys, "Failed") = UpdateTasks(j, live, "Failed")
  <1> \A k \in Keys(j) : (IF k \in keys THEN Consolidate(j.attempts[k], "Failed") ELSE j.attempts[k])
                            = (IF k \in live THEN Consolidate(j.attempts[k], "Failed") ELSE j.attempts[k])
    BY Zenon DEF Consolidate
  <1>2. QED
    BY Zenon DEF UpdateTasks
-----------------------------------------------------------------------------
(* Order and counting, and sequences.                                      *)

\* What is left of a sequence without its first n elements.
LEMMA RestOfSequence ==
    ASSUME NEW S, NEW s \in Seq(S), NEW n \in 0 .. Len(s)
    PROVE  LET q == SubSeq(s, n + 1, Len(s))
           IN  /\ q \in Seq(S) /\ Len(q) = Len(s) - n
               /\ \A i \in 1 .. Len(q) : i + n \in 1 .. Len(s) /\ q[i] = s[i + n]
  <1> DEFINE q == SubSeq(s, n + 1, Len(s))
  <1> Len(s) \in Nat /\ n \in Nat /\ n <= Len(s)
    OBVIOUS
  <1>2. q \in Seq(S)
    OBVIOUS
  <1> Len(q) = Len(s) - n
    OBVIOUS
  <1> ASSUME NEW i \in 1 .. (Len(s) - n)
      PROVE  i + n \in 1 .. Len(s) /\ q[i] = s[i + n]
    OBVIOUS
  <1>5. QED
    BY <1>2, Zenon

\* The rank of an element among a finite set of integers numbers the set.
LEMMA RankNumbers ==
    ASSUME SetLaws, NEW S \in SUBSET Int, IsFiniteSet(S)
    PROVE  LET n == Cardinality(S)
               f == [x \in S |-> Rank(S, x)]
           IN  n \in Nat /\ f \in Injection(S, 1 .. n) /\ f \in Surjection(S, 1 .. n)
  <1> DEFINE n == Cardinality(S)
             f == [x \in S |-> Rank(S, x)]
  <1>1. n \in Nat
    BY Zenon DEF SetLaws, CardinalityLaw
  <1>2. ASSUME NEW x \in S
        PROVE  Rank(S, x) \in 1 .. n
    <2> DEFINE U == {y \in S : y <= x}
    <2> U \in SUBSET S /\ x \in U
      OBVIOUS
    <2> IsFiniteSet(U) /\ Cardinality(U) <= n
      BY Zenon DEF SetLaws, SubsetLaw
    <2> Cardinality(U) \in Nat /\ Cardinality(U) # 0
      BY Zenon DEF SetLaws, CardinalityLaw, EmptyLaw
    <2>4. QED
      BY <1>1 DEF Rank
  <1>3. ASSUME NEW x \in S, NEW z \in S, x < z
        PROVE  Rank(S, x) # Rank(S, z)
    <2> DEFINE U == {y \in S : y <= x}
               V == {y \in S : y <= z}
    <2> U \in SUBSET V /\ z \in V /\ z \notin U /\ V \in SUBSET S
      <3> \A y \in S : y \in Int /\ (y <= x => y <= z) /\ z <= z /\ ~ z <= x
        BY <1>3
      <3>2. QED
        BY Zenon
    <2> IsFiniteSet(V)
      BY Zenon DEF SetLaws, SubsetLaw
    <2> Cardinality(V) # Cardinality(U)
      BY Zenon DEF SetLaws, SubsetLaw
    <2>4. QED
      BY Zenon DEF Rank
  <1>4. f \in [S -> 1 .. n]
    BY <1>2, Zenon
  <1> f \in Injection(S, 1 .. n)
    <2>1. ASSUME NEW x \in S, NEW z \in S, f[x] = f[z]
          PROVE  x = z
      <3> x < z \/ z < x \/ x = z
        OBVIOUS
      <3>2. QED
        BY <1>3, <2>1, Zenon
    <2>2. QED
      BY <1>4, <2>1, Zenon DEF Injection, IsInjective
  <1> IsFiniteSet(1 .. n) /\ Cardinality(1 .. n) = n
    BY <1>1, Zenon DEF SetLaws, IntervalLaw
  <1> f \in Surjection(S, 1 .. n)
    BY Zenon DEF SetLaws, InjectionLaw
  <1>8. QED
    BY <1>1, Zenon

\* InOrder lists the elements of a set, each once.
LEMMA InOrderFacts ==
    ASSUME SetLaws, NEW S \in SUBSET Int, IsFiniteSet(S)
    PROVE  /\ Cardinality(S) \in Nat
           /\ InOrder(S) \in [1 .. Cardinality(S) -> S]
           /\ \A i, n \in 1 .. Cardinality(S) : InOrder(S)[i] = InOrder(S)[n] => i = n
  <1> DEFINE f == [x \in S |-> Rank(S, x)]
  <1> Cardinality(S) \in Nat /\ f \in Surjection(S, 1 .. Cardinality(S))
    BY RankNumbers, Zenon
  <1>2. \A i \in 1 .. Cardinality(S) : \E x \in S : Rank(S, x) = i
    BY Zenon DEF Surjection
  <1> \A i \in 1 .. Cardinality(S) : InOrder(S)[i] \in S /\ Rank(S, InOrder(S)[i]) = i
    BY <1>2, Zenon DEF InOrder, Rank
  <1> InOrder(S) \in [1 .. Cardinality(S) -> S]
    BY Zenon DEF InOrder
  <1>5. QED
    BY Zenon

\* There are n elements of a rank up to n.
LEMMA FirstOnes ==
    ASSUME SetLaws, NEW S \in SUBSET Int, IsFiniteSet(S), NEW n \in Nat, n <= Cardinality(S)
    PROVE  LET T == {x \in S : Rank(S, x) <= n} IN IsFiniteSet(T) /\ Cardinality(T) = n
  <1> DEFINE f == [x \in S |-> Rank(S, x)]
             T == {x \in S : Rank(S, x) <= n}
             g == [x \in T |-> Rank(S, x)]
  <1>1. /\ Cardinality(S) \in Nat
        /\ f \in Injection(S, 1 .. Cardinality(S)) /\ f \in Surjection(S, 1 .. Cardinality(S))
    BY RankNumbers, Zenon
  <1>2. \A x \in T : Rank(S, x) \in 1 .. n
    BY <1>1 DEF Injection, IsInjective
  <1>3. \A x, z \in T : Rank(S, x) = Rank(S, z) => x = z
    BY <1>1, Zenon DEF Injection, IsInjective
  <1>4. g \in Injection(T, 1 .. n)
    BY <1>2, <1>3, Zenon DEF Injection, IsInjective
  <1>5. \A i \in 1 .. n : \E x \in T : g[x] = i
    BY <1>1 DEF Surjection
  <1> g \in Surjection(T, 1 .. n)
    BY <1>2, <1>5, Zenon DEF Surjection
  <1> IsFiniteSet(1 .. n) /\ Cardinality(1 .. n) = n
    BY Zenon DEF SetLaws, IntervalLaw
  <1>8. QED
    BY <1>4, Zenon DEF SetLaws, InjectionLaw
-----------------------------------------------------------------------------
(* The methods of the task assigner.                                       *)

\* The workers and their slots are finite sets.
LEMMA WorkersAreFinite ==
    ASSUME SetLaws
    PROVE  /\ Worker \in SUBSET Int /\ IsFiniteSet(Worker)
           /\ IsFiniteSet(Slot)
           /\ \A a : Cardinality(VacantSlots(a)) \in Nat /\ Cardinality(Active(a)) \in Nat
  <1> Worker \in SUBSET Int /\ IsFiniteSet(Worker)
    <2> IsFiniteSet(Worker) /\ Worker = 1 .. Cardinality(Worker)
      BY AssignerAssumption, Zenon
    <2> Cardinality(Worker) \in Nat
      BY Zenon DEF SetLaws, CardinalityLaw
    <2> \A n \in Nat : 1 .. n \in SUBSET Int
      OBVIOUS
    <2>4. QED
      BY Zenon
  <1>2. IsFiniteSet(1 .. WorkerTaskSlots)
    BY AssignerAssumption, Zenon DEF SetLaws, IntervalLaw
  <1> IsFiniteSet(Slot)
    BY <1>2, Zenon DEF Slot, SetLaws, ProductLaw
  <1> ASSUME NEW a
      PROVE  Cardinality(VacantSlots(a)) \in Nat /\ Cardinality(Active(a)) \in Nat
    <2> VacantSlots(a) \in SUBSET Slot /\ Active(a) \in SUBSET Worker
      BY Zenon DEF VacantSlots, Active
    <2>2. QED
      BY Zenon DEF SetLaws, SubsetLaw, CardinalityLaw
  <1>5. QED
    BY Zenon

\* The queue asks for a finite number of slots, and no region for none.
LEMMA DemandFacts ==
    ASSUME SetLaws, NEW queue \in Seq(TaskRegion), NEW n \in 0 .. Len(queue)
    PROVE  Demand(queue, n) \in Nat /\ Demand(queue, 0) = 0
  <1> DEFINE f == [i \in 1 .. n |-> {i} \X DOMAIN queue[i].sets]
             R == {f[i] : i \in 1 .. n}
  <1>1. f \in Surjection(1 .. n, R)
    BY Zenon DEF Surjection
  <1>2. IsFiniteSet(1 .. n)
    BY DEF SetLaws, IntervalLaw
  <1>3. IsFiniteSet(R)
    <2> HIDE DEF f, R
    <2>1. QED
      BY <1>1, <1>2, Zenon DEF SetLaws, SurjectionLaw
  <1>4. ASSUME NEW i \in 1 .. n
        PROVE  IsFiniteSet(f[i])
    <2>1. queue[i] \in TaskRegion
      OBVIOUS
    <2>2. queue[i].sets \in Seq(SUBSET Key)
      BY <2>1, Zenon DEF TaskRegion
    <2> DEFINE l == Len(queue[i].sets)
    <2> DOMAIN queue[i].sets = 1 .. l /\ l \in Nat
      BY <2>2
    <2> HIDE DEF l
    <2> IsFiniteSet(DOMAIN queue[i].sets)
      BY Zenon DEF SetLaws, IntervalLaw
    <2>5. QED
      BY Zenon DEF SetLaws, ProductLaw, SingletonLaw
  <1> IsFiniteSet(UNION R)
    BY <1>3, <1>4, Zenon DEF SetLaws, UnionLaw
  <1> QueuedSets(queue, n) = UNION R /\ QueuedSets(queue, 0) = {}
    BY DEF QueuedSets
  <1>7. QED
    BY Zenon DEF Demand, SetLaws, CardinalityLaw, EmptyLaw

\* The number of regions that assign_tasks assigns exists.
LEMMA AssignedRegionsType ==
    ASSUME SetLaws, NEW a \in TaskAssigner
    PROVE  AssignedRegions(a) \in 0 .. Len(a.queue)
  <1> DEFINE q == a.queue
             V == Cardinality(VacantSlots(a))
             B == {m \in Nat : m <= Len(q) /\ Demand(q, m) > V}
  <1> q \in Seq(TaskRegion) /\ Len(q) \in Nat /\ V \in Nat
    BY WorkersAreFinite DEF TaskAssigner
  <1> HIDE DEF q, V
  <1>2. \A m \in 0 .. Len(q) : Demand(q, m) \in Nat
    BY DemandFacts, Zenon
  <1>3. Demand(q, 0) = 0
    BY DemandFacts
  <1>4. \E m \in 0 .. Len(q) : Demand(q, m) <= V /\ (m < Len(q) => Demand(q, m + 1) > V)
    <2>1. CASE B = {}
      BY <1>2, <2>1
    <2>2. CASE B # {}
      <3> PICK m \in B : \A i \in B : m <= i
        <4> B \in SUBSET Nat
          BY Zenon
        <4> HIDE DEF B
        <4>2. QED
          BY <2>2, Zenon DEF SetLaws, LeastLaw
      <3> m # 0
        BY <1>3
      <3> m - 1 \in 0 .. Len(q) /\ m - 1 \notin B /\ m - 1 < Len(q) /\ (m - 1) + 1 = m
        OBVIOUS
      <3>4. QED
        BY <1>2
    <2>3. QED
      BY <2>1, <2>2, Zenon
  <1>5. CASE a.requested > 0
    BY <1>5 DEF AssignedRegions, q
  <1>6. CASE ~ a.requested > 0
    BY <1>4, <1>6, Zenon DEF AssignedRegions, q, V
  <1>7. QED
    BY <1>5, <1>6, Zenon

\* request_workers asks for a number of workers.
LEMMA RequiredWorkersType ==
    ASSUME SetLaws, NEW a \in TaskAssigner
    PROVE  RequiredWorkers(a) \in Nat
  <1> DEFINE required == Minus(Demand(a.queue, Len(a.queue)), Cardinality(VacantSlots(a)))
             W == WorkerTaskSlots
             workers == (required + W - 1) \div W
  <1>1. Demand(a.queue, Len(a.queue)) \in Nat /\ Cardinality(VacantSlots(a)) \in Nat
    BY DemandFacts, WorkersAreFinite DEF TaskAssigner
  <1>2. required \in Nat /\ W \in Nat /\ W > 0
    BY <1>1, AssignerAssumption DEF Minus
  <1> HIDE DEF required, W
  <1>3. workers \in Nat
    BY <1>2
  <1> a.requested \in Nat /\ Cardinality(Active(a)) \in Nat /\ WorkerMaxCount \in Nat
    BY WorkersAreFinite, AssignerAssumption, Zenon DEF TaskAssigner
  <1> HIDE DEF workers
  <1> RequiredWorkers(a) = IF WorkerMaxCount = 0 THEN workers
          ELSE Least(workers, Minus(Minus(WorkerMaxCount, a.requested), Cardinality(Active(a))))
    BY Zenon DEF RequiredWorkers, workers, required, W
  <1>6. QED
    BY <1>3 DEF Least, Minus

\* exclude_task leaves a part of the queue in its order.
LEMMA ExcludeEffects ==
    ASSUME SetLaws, NEW a \in TaskAssigner, NEW keys
    PROVE  LET b == ExcludeTasks(a, keys)
           IN  /\ b \in TaskAssigner
               /\ b.requested = a.requested /\ b.resource = a.resource /\ b.slots = a.slots
               /\ b.streams = a.streams /\ b.driverTasks = a.driverTasks
               /\ b.driverStreams = a.driverStreams /\ b.assigned = a.assigned
               /\ \E f \in [DOMAIN b.queue -> DOMAIN a.queue] :
                    /\ \A i, n \in DOMAIN b.queue : f[i] = f[n] => i = n
                    /\ \A i \in DOMAIN b.queue :
                        b.queue[i] = a.queue[f[i]] /\ RegionKeys(b.queue[i]) \cap keys = {}
  <1> DEFINE S == {i \in DOMAIN a.queue : RegionKeys(a.queue[i]) \cap keys = {}}
             f == InOrder(S)
             q == [i \in DOMAIN f |-> a.queue[f[i]]]
             b == ExcludeTasks(a, keys)
  <1>1. a.queue \in Seq(TaskRegion)
    BY Zenon DEF TaskAssigner
  <1>2. DOMAIN a.queue = 1 .. Len(a.queue) /\ Len(a.queue) \in Nat
    BY <1>1
  <1>3. S \in SUBSET Int /\ S \in SUBSET (1 .. Len(a.queue))
    BY <1>2
  <1>4. IsFiniteSet(S)
    <2> HIDE DEF S
    <2> IsFiniteSet(1 .. Len(a.queue))
      BY <1>2, Zenon DEF SetLaws, IntervalLaw
    <2>2. QED
      BY <1>3, Zenon DEF SetLaws, SubsetLaw
  <1> /\ Cardinality(S) \in Nat /\ f \in [1 .. Cardinality(S) -> S]
      /\ \A i, n \in 1 .. Cardinality(S) : f[i] = f[n] => i = n
    <2> HIDE DEF S
    <2>1. QED
      BY <1>3, <1>4, InOrderFacts, Zenon
  <1> \A x \in S : x \in DOMAIN a.queue /\ RegionKeys(a.queue[x]) \cap keys = {}
                   /\ a.queue[x] \in TaskRegion
    BY <1>1, <1>2
  <1>7. b = [a EXCEPT !.queue = q]
    BY Zenon DEF ExcludeTasks
  <1> HIDE DEF S, f
  <1> q \in Seq(TaskRegion) /\ DOMAIN q = 1 .. Cardinality(S)
    OBVIOUS
  <1>9. \A i \in DOMAIN q : q[i] = a.queue[f[i]] /\ RegionKeys(q[i]) \cap keys = {}
    BY Zenon
  <1> HIDE DEF q, b
  <1> /\ b \in TaskAssigner /\ b.queue = q
      /\ b.requested = a.requested /\ b.resource = a.resource /\ b.slots = a.slots
      /\ b.streams = a.streams /\ b.driverTasks = a.driverTasks
      /\ b.driverStreams = a.driverStreams /\ b.assigned = a.assigned
    BY <1>7, Zenon DEF TaskAssigner
  <1> f \in [DOMAIN b.queue -> DOMAIN a.queue]
    BY Zenon
  <1>12. QED
    BY <1>9 DEF b

\* unassign_task empties slots only.
LEMMA UnassignEffects ==
    ASSUME NEW a \in TaskAssigner, NEW keys
    PROVE  LET b == UnassignTasks(a, keys)
           IN  /\ b \in TaskAssigner
               /\ b.queue = a.queue /\ b.requested = a.requested /\ b.resource = a.resource
               /\ b.streams = a.streams /\ b.driverStreams = a.driverStreams
               /\ b.assigned = a.assigned
               /\ \A s \in Slot : b.slots[s] = a.slots[s] \ {k \in keys : a.assigned[k] = s}
               /\ b.driverTasks = a.driverTasks \ {k \in keys : a.assigned[k] = OnDriver}
  <1> DEFINE slots == [s \in Slot |-> a.slots[s] \ {k \in keys : a.assigned[k] = s}]
             tasks == a.driverTasks \ {k \in keys : a.assigned[k] = OnDriver}
             b == UnassignTasks(a, keys)
  <1>1. slots \in [Slot -> SUBSET Key] /\ tasks \in SUBSET Key
    BY Zenon DEF TaskAssigner
  <1> b = [a EXCEPT !.slots = slots, !.driverTasks = tasks]
    BY Zenon DEF UnassignTasks, TaskAssigner
  <1> HIDE DEF slots, tasks, b
  <1> /\ b \in TaskAssigner /\ b.slots = slots /\ b.driverTasks = tasks
      /\ b.queue = a.queue /\ b.requested = a.requested /\ b.resource = a.resource
      /\ b.streams = a.streams /\ b.driverStreams = a.driverStreams
      /\ b.assigned = a.assigned
    BY <1>1, Zenon DEF TaskAssigner
  <1>4. QED
    BY Zenon DEF slots, tasks, b

\* untrack_local_streams drops streams only.
LEMMA UntrackEffects ==
    ASSUME NEW a \in TaskAssigner, NEW keys
    PROVE  LET b == UntrackLocalStreams(a, keys)
           IN  /\ b \in TaskAssigner
               /\ b.queue = a.queue /\ b.requested = a.requested /\ b.resource = a.resource
               /\ b.slots = a.slots /\ b.driverTasks = a.driverTasks
               /\ b.assigned = a.assigned
               /\ \A w \in Worker : b.streams[w] = a.streams[w] \ keys
  <1> DEFINE streams == [w \in Worker |-> a.streams[w] \ keys]
             local == a.driverStreams \ keys
             b == UntrackLocalStreams(a, keys)
  <1>1. streams \in [Worker -> SUBSET Key] /\ local \in SUBSET Key
    BY Zenon DEF TaskAssigner
  <1> b = [a EXCEPT !.streams = streams, !.driverStreams = local]
    BY Zenon DEF UntrackLocalStreams, TaskAssigner
  <1> HIDE DEF streams, local, b
  <1> /\ b \in TaskAssigner /\ b.streams = streams
      /\ b.queue = a.queue /\ b.requested = a.requested /\ b.resource = a.resource
      /\ b.slots = a.slots /\ b.driverTasks = a.driverTasks
      /\ b.assigned = a.assigned
    BY <1>1, Zenon DEF TaskAssigner
  <1>4. QED
    BY Zenon DEF streams, b

\* enqueue_tasks adds to the end of the queue.
LEMMA EnqueueEffects ==
    ASSUME NEW a \in TaskAssigner, NEW regions \in Seq(TaskRegion)
    PROVE  LET b == EnqueueTasks(a, regions)
           IN  /\ b \in TaskAssigner
               /\ b.queue = a.queue \o regions
               /\ b.requested = a.requested /\ b.resource = a.resource
               /\ b.slots = a.slots /\ b.driverTasks = a.driverTasks
               /\ b.streams = a.streams /\ b.assigned = a.assigned
  <1> DEFINE q == a.queue \o regions
             b == EnqueueTasks(a, regions)
  <1>1. q \in Seq(TaskRegion)
    BY DEF TaskAssigner
  <1> b = [a EXCEPT !.queue = q]
    BY Zenon DEF EnqueueTasks, TaskAssigner
  <1> HIDE DEF q, b
  <1> /\ b \in TaskAssigner /\ b.queue = q
      /\ b.requested = a.requested /\ b.resource = a.resource
      /\ b.slots = a.slots /\ b.driverTasks = a.driverTasks
      /\ b.streams = a.streams /\ b.assigned = a.assigned
    BY <1>1, ZenonT(30) DEF TaskAssigner
  <1>4. QED
    BY Zenon DEF q, b

\* The keys of a region of the queue.
LEMMA RegionKeyFacts ==
    ASSUME NEW region \in TaskRegion
    PROVE  /\ region.driver \in SUBSET Key
           /\ \A i \in DOMAIN region.sets : region.sets[i] \in SUBSET Key
           /\ RegionKeys(region) \in SUBSET Key
           /\ region.driver \subseteq RegionKeys(region)
           /\ \A i \in DOMAIN region.sets : region.sets[i] \subseteq RegionKeys(region)
           /\ \A k \in RegionKeys(region) :
                k \in region.driver \/ \E i \in DOMAIN region.sets : k \in region.sets[i]
  <1> region.driver \in SUBSET Key /\ region.sets \in Seq(SUBSET Key)
    BY Zenon DEF TaskRegion
  <1> \A i \in DOMAIN region.sets : region.sets[i] \in SUBSET Key
    OBVIOUS
  <1>3. QED
    BY Zenon DEF RegionKeys, Range

\* assign_tasks takes regions from the head of the queue.  Where the queue is
\* orderly, it puts each of their task sets in a vacant slot, notes the slot
\* for each attempt, and the worker keeps the output.
LEMMA AssignEffects ==
    ASSUME SetLaws, NEW a \in TaskAssigner, Orderly(a.queue), NEW p \in Placements(a)
    PROVE  Assigns(a, TrackStreams(AssignTasks(a, p), AssignedKeys(a)), AssignedKeys(a))
  <1> DEFINE n == AssignedRegions(a)
             keys == AssignedKeys(a)
             onDriver == UNION {a.queue[i].driver : i \in 1 .. n}
             sets == [x \in DOMAIN p |-> a.queue[x[1]].sets[x[2]]]
             q == SubSeq(a.queue, n + 1, Len(a.queue))
             slots == [s \in Slot |->
                a.slots[s] \cup UNION {sets[x] : x \in {y \in DOMAIN p : p[y] = s}}]
             tasks == a.driverTasks \cup onDriver
             assigned == [k \in Key |->
                IF k \in onDriver THEN OnDriver
                ELSE IF \E x \in DOMAIN p : k \in sets[x]
                     THEN p[CHOOSE x \in DOMAIN p : k \in sets[x]]
                     ELSE a.assigned[k]]
             c == AssignTasks(a, p)
             streams == [w \in Worker |->
                IF w \in Active(c)
                THEN a.streams[w] \cup {k \in keys : assigned[k] \in {s \in Slot : s[1] = w}}
                ELSE a.streams[w]]
             local == a.driverStreams \cup {k \in keys : assigned[k] = OnDriver}
             b == TrackStreams(c, keys)
  <1>1. /\ a.queue \in Seq(TaskRegion) /\ Len(a.queue) \in Nat
        /\ DOMAIN a.queue = 1 .. Len(a.queue)
        /\ \A i \in DOMAIN a.queue : a.queue[i] \in TaskRegion
    BY DEF TaskAssigner
  <1>2. n \in 0 .. Len(a.queue)
    BY AssignedRegionsType, Zenon
  <1>3. 1 .. n \subseteq DOMAIN a.queue
    BY <1>1, <1>2
  <1> HIDE DEF n
  <1>4. /\ p \in [DOMAIN p -> VacantSlots(a)]
        /\ \A x, y \in DOMAIN p : p[x] = p[y] => x = y
        /\ DOMAIN p = QueuedSets(a.queue, n)
    BY Zenon DEF Placements, Injection, IsInjective, n
  <1>5. /\ \A x \in DOMAIN p : /\ x[1] \in 1 .. n /\ x[2] \in DOMAIN a.queue[x[1]].sets
                               /\ x = <<x[1], x[2]>>
        /\ \A i \in 1 .. n : \A m \in DOMAIN a.queue[i].sets : <<i, m>> \in DOMAIN p
    BY <1>4 DEF QueuedSets
  <1>6. VacantSlots(a) \subseteq Slot /\ \A s \in VacantSlots(a) : a.slots[s] = {}
    BY Zenon DEF VacantSlots
  <1>7. \A k : k \in keys <=> \E i \in 1 .. n : k \in RegionKeys(a.queue[i])
    BY Zenon DEF AssignedKeys, n
  <1>8. \A k : k \in onDriver <=> \E i \in 1 .. n : k \in a.queue[i].driver
    BY Zenon
  <1>9. \A k \in keys : k \in onDriver \/ \E x \in DOMAIN p : k \in sets[x]
    <2> SUFFICES ASSUME NEW k \in keys, k \notin onDriver
                 PROVE  \E x \in DOMAIN p : k \in sets[x]
      BY Zenon
    <2>1. PICK i \in 1 .. n : k \in RegionKeys(a.queue[i])
      BY <1>7, Zenon
    <2> PICK m \in DOMAIN a.queue[i].sets : k \in a.queue[i].sets[m]
      BY <1>1, <1>3, <1>8, <2>1, RegionKeyFacts, Zenon
    <2> <<i, m>> \in DOMAIN p /\ sets[<<i, m>>] = a.queue[i].sets[m]
      BY <1>5, Zenon
    <2>4. QED
      BY Zenon
  <1>10. /\ onDriver \subseteq keys
         /\ \A x \in DOMAIN p : sets[x] \subseteq keys /\ sets[x] \subseteq RegionKeys(a.queue[x[1]])
    BY <1>1, <1>3, <1>5, <1>7, <1>8, RegionKeyFacts, Zenon
  <1>11. keys \subseteq Key
    BY <1>1, <1>3, <1>7, RegionKeyFacts, Zenon
  <1>12. \A x \in DOMAIN p : sets[x] \cap onDriver = {} /\ Shareable(sets[x])
    <2> SUFFICES ASSUME NEW x \in DOMAIN p
                 PROVE  sets[x] \cap onDriver = {} /\ Shareable(sets[x])
      BY Zenon
    <2>1. RegionSound(a.queue[x[1]]) /\ x[1] \in DOMAIN a.queue /\ x[2] \in DOMAIN a.queue[x[1]].sets
      BY <1>3, <1>5, Zenon DEF Orderly
    <2> Shareable(sets[x]) /\ sets[x] \cap a.queue[x[1]].driver = {}
      BY <2>1, Zenon DEF RegionSound
    <2>3. ASSUME NEW i \in 1 .. n, NEW k \in sets[x], k \in a.queue[i].driver
          PROVE  FALSE
      <3> USE <2>3
      <3> k \in RegionKeys(a.queue[i]) /\ k \in RegionKeys(a.queue[x[1]])
        BY <1>1, <1>3, <1>10, RegionKeyFacts, Zenon
      <3> i = x[1]
        BY <1>3, <2>1, Zenon DEF Orderly
      <3>3. QED
        BY Zenon
    <2>4. QED
      BY <1>8, <2>3, Zenon
  <1>13. ASSUME NEW x \in DOMAIN p, NEW y \in DOMAIN p, NEW k, k \in sets[x], k \in sets[y]
         PROVE  x = y
    <2> USE <1>13
    <2> x[1] \in DOMAIN a.queue /\ y[1] \in DOMAIN a.queue
      BY <1>3, <1>5, Zenon
    <2> x[1] = y[1]
      BY <1>10, ZenonT(30) DEF Orderly
    <2> x[2] = y[2]
      BY <1>5, Zenon DEF Orderly, RegionSound
    <2>4. QED
      BY <1>5, Zenon
  <1> HIDE DEF sets, onDriver, keys
  <1>14. /\ \A k \in onDriver : assigned[k] = OnDriver
         /\ \A x \in DOMAIN p : \A k \in sets[x] : assigned[k] = p[x]
         /\ \A k \in Key \ keys : assigned[k] = a.assigned[k]
    <2>1. \A k \in onDriver : assigned[k] = OnDriver
      BY <1>10, <1>11, Zenon
    <2> ASSUME NEW x \in DOMAIN p, NEW k \in sets[x]
        PROVE  assigned[k] = p[x]
      <3> k \in Key /\ k \notin onDriver
        BY <1>10, <1>11, <1>12, Zenon
      <3> (CHOOSE y \in DOMAIN p : k \in sets[y]) = x
        BY <1>13, Zenon
      <3>3. QED
        BY ZenonT(30)
    <2> \A k \in Key \ keys : assigned[k] = a.assigned[k]
      BY <1>10, Zenon
    <2>4. QED
      BY <2>1, Zenon
  <1>15. q \in Seq(TaskRegion) /\ Len(q) = Len(a.queue) - n
         /\ \A i \in 1 .. Len(q) : i + n \in 1 .. Len(a.queue) /\ q[i] = a.queue[i + n]
    BY <1>1, <1>2, RestOfSequence, Zenon
  <1>16. slots \in [Slot -> SUBSET Key] /\ tasks \in SUBSET Key
    BY <1>10, <1>11 DEF TaskAssigner
  <1>17. assigned \in [Key -> Slot \cup {Unassigned, OnDriver}]
    <2> ASSUME NEW k \in Key
        PROVE  assigned[k] \in Slot \cup {Unassigned, OnDriver}
      <3>1. CASE k \in keys
        BY <1>4, <1>6, <1>9, <1>14, <3>1, Zenon
      <3>2. CASE k \notin keys
        BY <1>14, <3>2, Zenon DEF TaskAssigner
      <3>3. QED
        BY <3>1, <3>2, Zenon
    <2>2. QED
      BY Zenon
  <1>18. c = [a EXCEPT !.queue = q, !.slots = slots, !.driverTasks = tasks, !.assigned = assigned]
    BY Zenon DEF AssignTasks, TaskAssigner, sets, onDriver, n
  <1>19. b = [c EXCEPT !.streams = [w \in Worker |->
                  IF w \in Active(c)
                  THEN c.streams[w] \cup {k \in keys : c.assigned[k] \in {s \in Slot : s[1] = w}}
                  ELSE c.streams[w]],
              !.driverStreams = c.driverStreams \cup {k \in keys : c.assigned[k] = OnDriver}]
    BY Zenon DEF TrackStreams
  <1> HIDE DEF q, slots, tasks, assigned, c, b
  <1>20. /\ c \in TaskAssigner /\ c.queue = q /\ c.slots = slots /\ c.driverTasks = tasks
         /\ c.assigned = assigned /\ c.requested = a.requested /\ c.resource = a.resource
         /\ c.streams = a.streams /\ c.driverStreams = a.driverStreams
    BY <1>15, <1>16, <1>17, <1>18, Zenon DEF TaskAssigner
  <1>21. streams \in [Worker -> SUBSET Key] /\ local \in SUBSET Key
    BY <1>11, Zenon DEF TaskAssigner
  <1>22. b = [c EXCEPT !.streams = streams, !.driverStreams = local]
    BY <1>19, <1>20, Zenon
  <1> HIDE DEF streams, local
  <1>23. /\ b \in TaskAssigner /\ b.queue = q /\ b.slots = slots /\ b.driverTasks = tasks
         /\ b.assigned = assigned /\ b.requested = a.requested /\ b.resource = a.resource
         /\ b.streams = streams
    BY <1>20, <1>21, <1>22, Zenon DEF TaskAssigner
  <1>24. \E f \in [DOMAIN q -> DOMAIN a.queue] :
            /\ \A i, m \in DOMAIN q : f[i] = f[m] => i = m
            /\ \A i \in DOMAIN q : q[i] = a.queue[f[i]] /\ RegionKeys(q[i]) \cap keys = {}
    <2> DEFINE f == [i \in DOMAIN q |-> i + n]
    <2>1. DOMAIN q = 1 .. Len(q) /\ Len(q) \in Nat
      BY <1>15
    <2> \A i \in DOMAIN q : /\ i \in Nat /\ f[i] = i + n /\ i + n \in DOMAIN a.queue
                            /\ q[i] = a.queue[i + n] /\ i + n \notin 1 .. n
      BY <1>1, <1>2, <1>15, <2>1
    <2>3. \A i \in DOMAIN q : RegionKeys(q[i]) \cap keys = {}
      BY <1>3, <1>7 DEF Orderly
    <2> f \in [DOMAIN q -> DOMAIN a.queue]
      BY Zenon
    <2> \A i, m \in DOMAIN q : f[i] = f[m] => i = m
      BY <1>2
    <2> HIDE DEF f
    <2>6. QED
      BY <2>3
  <1>25. \A k \in keys : \/ assigned[k] = OnDriver /\ k \in tasks
                         \/ assigned[k] \in VacantSlots(a) /\ k \in slots[assigned[k]]
    <2> SUFFICES ASSUME NEW k \in keys
                 PROVE  \/ assigned[k] = OnDriver /\ k \in tasks
                        \/ assigned[k] \in VacantSlots(a) /\ k \in slots[assigned[k]]
      BY Zenon
    <2>1. CASE k \in onDriver
      BY <1>14, <2>1, Zenon DEF tasks
    <2>2. CASE \E x \in DOMAIN p : k \in sets[x]
      <3> PICK x \in DOMAIN p : k \in sets[x]
        BY <2>2, Zenon
      <3> assigned[k] = p[x] /\ p[x] \in VacantSlots(a) /\ p[x] \in Slot
        BY <1>4, <1>6, <1>14, Zenon
      <3> k \in slots[p[x]]
        BY Zenon DEF slots
      <3>4. QED
        BY Zenon
    <2>3. QED
      BY <1>9, <2>1, <2>2, Zenon
  <1>26. \A s \in Slot : \/ slots[s] = a.slots[s]
                         \/ /\ s \in VacantSlots(a) /\ Shareable(slots[s])
                            /\ \A k \in slots[s] : k \in keys /\ assigned[k] = s
    <2> SUFFICES ASSUME NEW s \in Slot, slots[s] # a.slots[s]
                 PROVE  /\ s \in VacantSlots(a) /\ Shareable(slots[s])
                        /\ \A k \in slots[s] : k \in keys /\ assigned[k] = s
      BY Zenon
    <2> PICK x \in DOMAIN p : p[x] = s
      BY Zenon DEF slots
    <2> s \in VacantSlots(a) /\ a.slots[s] = {}
      BY <1>4, <1>6, Zenon
    <2> \A y \in DOMAIN p : p[y] = s <=> y = x
      BY <1>4, Zenon
    <2> slots[s] = sets[x]
      BY DEF slots
    <2>5. QED
      BY <1>10, <1>12, <1>14, Zenon
  <1>27. \A k \in tasks : k \in a.driverTasks \/ (k \in keys /\ assigned[k] = OnDriver)
    BY <1>10, <1>14, Zenon DEF tasks
  <1>28. /\ \A w \in Worker : a.streams[w] \subseteq streams[w]
         /\ \A k \in keys, s \in Slot :
                assigned[k] = s /\ a.resource[s[1]] = "Active" => k \in streams[s[1]]
    <2> Active(c) = Active(a) /\ \A s \in Slot : s[1] \in Worker
      BY <1>20, Zenon DEF Active, Slot
    <2>2. QED
      BY Zenon DEF streams, Active
  <1> keys \subseteq UNION {RegionKeys(a.queue[i]) : i \in DOMAIN a.queue}
    BY <1>3, <1>7, Zenon
  <1> Assigns(a, b, keys)
    BY <1>11, <1>14, <1>23, <1>24, <1>25, <1>26, <1>27, <1>28 DEF Assigns
  <1>31. QED
    BY Zenon DEF keys, b, c

\* request_workers only raises the count.
LEMMA RequestEffects ==
    ASSUME SetLaws, NEW a \in TaskAssigner
    PROVE  LET b == RequestWorkers(a)
           IN  /\ b \in TaskAssigner
               /\ b.requested = a.requested + RequiredWorkers(a)
               /\ b.resource = a.resource
               /\ b.queue = a.queue /\ b.slots = a.slots /\ b.streams = a.streams
               /\ b.driverTasks = a.driverTasks /\ b.assigned = a.assigned
  <1> a.requested + RequiredWorkers(a) \in Nat
    BY RequiredWorkersType DEF TaskAssigner
  <1>2. QED
    BY Zenon DEF RequestWorkers, TaskAssigner

\* The changes of the count and of one worker.
LEMMA WorkerEffects ==
    ASSUME NEW a \in TaskAssigner, NEW w \in Worker
    PROVE  /\ Activated(a, w, ActivateWorker(a, w))
           /\ NotStarted(a, TrackWorkerFailedToStart(a))
           /\ w \in Active(a) => Deactivated(a, w, DeactivateWorker(a, w))
  <1>1. a.requested \in Nat /\ Minus(a.requested, 1) \in Nat
    BY DEF TaskAssigner, Minus
  <1>3. NotStarted(a, TrackWorkerFailedToStart(a))
    BY <1>1, Zenon DEF NotStarted, TrackWorkerFailedToStart, TaskAssigner
  <1>5. Activated(a, w, ActivateWorker(a, w))
    <2> DEFINE b == ActivateWorker(a, w)
               r == [a.resource EXCEPT ![w] = IF @ = "Absent" THEN "Active" ELSE @]
               m == Minus(a.requested, 1)
    <2> /\ r \in [Worker -> {"Absent", "Active", "Inactive"}]
        /\ \A v \in Worker : r[v] =
              IF v = w /\ a.resource[v] = "Absent" THEN "Active" ELSE a.resource[v]
      BY Zenon DEF TaskAssigner
    <2>2. b = [a EXCEPT !.requested = m, !.resource = r]
      BY Zenon DEF ActivateWorker, TaskAssigner
    <2> m \in Nat
      BY <1>1, Zenon
    <2> HIDE DEF b, r, m
    <2> /\ b \in TaskAssigner /\ b.requested = m /\ b.resource = r
        /\ b.queue = a.queue /\ b.slots = a.slots /\ b.streams = a.streams
        /\ b.driverTasks = a.driverTasks /\ b.assigned = a.assigned
      BY <2>2, Zenon DEF TaskAssigner
    <2>5. QED
      BY Zenon DEF b, m, Activated
  <1>6. ASSUME w \in Active(a)
        PROVE  Deactivated(a, w, DeactivateWorker(a, w))
    <2> DEFINE b == DeactivateWorker(a, w)
               r == [a.resource EXCEPT ![w] = "Inactive"]
               slots == [s \in Slot |-> IF s[1] = w THEN {} ELSE a.slots[s]]
               streams == [a.streams EXCEPT ![w] = {}]
    <2> r \in [Worker -> {"Absent", "Active", "Inactive"}] /\ slots \in [Slot -> SUBSET Key]
        /\ streams \in [Worker -> SUBSET Key]
        /\ \A v \in Worker : streams[v] = IF v = w THEN {} ELSE a.streams[v]
      BY Zenon DEF TaskAssigner
    <2>2. b = [a EXCEPT !.resource = r, !.slots = slots, !.streams = streams]
      BY <1>6, Zenon DEF DeactivateWorker, TaskAssigner
    <2> \A s \in Slot : slots[s] = IF s[1] = w THEN {} ELSE a.slots[s]
      BY Zenon
    <2> HIDE DEF b, r, slots, streams
    <2> /\ b \in TaskAssigner /\ b.requested = a.requested /\ b.resource = r
        /\ b.slots = slots /\ b.streams = streams /\ b.queue = a.queue
        /\ b.driverTasks = a.driverTasks /\ b.assigned = a.assigned
      BY <2>2, ZenonT(30) DEF TaskAssigner
    <2>5. QED
      BY Zenon DEF b, r, Deactivated
  <1>7. QED
    BY <1>3, <1>5, <1>6, Zenon

\* What the methods of the scheduler do.
LEMMA SchedulerLawsHold == SchedulerLaws
  <1>1. AcceptLaw
    BY AcceptJobInv, Zenon DEF AcceptLaw
  <1>2. UpdateLaw
    BY UpdateTasksInv, UpdateTasksPersists DEF UpdateLaw
  <1>3. UpdateNoneLaw
    BY UpdateNone, Zenon DEF UpdateNoneLaw
  <1>4. FailLiveLaw
    BY FailLive, Zenon DEF FailLiveLaw
  <1>5. RefreshLaw
    BY RefreshJobInv, RefreshJobPersists, Zenon DEF RefreshLaw
  <1>6. CleanUpLaw
    BY CleanUpJobInv, Zenon DEF CleanUpLaw
  <1>7. CleanUpEndsLaw
    BY CleanUpJobPersists, Zenon DEF CleanUpEndsLaw
  <1>8. LaunchLaw
    BY ForwardLaunches, Zenon DEF LaunchLaw
  <1>9. ForwardLaw
    BY ForwardTransitive, Zenon DEF ForwardLaw
  <1> ScheduleLaw
    BY ScheduleForward, Zenon DEF ScheduleLaw
  <1> RefreshForwardLaw
    BY RefreshForward, Zenon DEF RefreshForwardLaw
  <1>12. QED
    BY <1>1, <1>2, <1>3, <1>4, <1>5, <1>6, <1>7, <1>8, <1>9, Zenon DEF SchedulerLaws

\* What the methods of the task assigner do.
LEMMA AssignerLawsHold == ASSUME SetLaws PROVE AssignerLaws
  <1>1. InOrderLaw
    BY InOrderFacts, Zenon DEF InOrderLaw
  <1>2. FirstOnesLaw
    BY FirstOnes, Zenon DEF FirstOnesLaw
  <1>3. WorkersLaw
    BY WorkersAreFinite, Zenon DEF WorkersLaw
  <1>4. RequiredLaw
    BY RequiredWorkersType, Zenon DEF RequiredLaw
  <1>5. ExcludeLaw
    BY ExcludeEffects, Zenon DEF ExcludeLaw
  <1>6. UnassignLaw
    BY UnassignEffects, Zenon DEF UnassignLaw
  <1>7. UntrackLaw
    BY UntrackEffects, Zenon DEF UntrackLaw
  <1>8. EnqueueLaw
    BY EnqueueEffects, Zenon DEF EnqueueLaw
  <1>9. RegionKeyLaw
    BY RegionKeyFacts, Zenon DEF RegionKeyLaw
  <1>10. AssignLaw
    BY AssignEffects, Zenon DEF AssignLaw
  <1> RequestLaw
    BY RequestEffects, Zenon DEF RequestLaw
  <1> WorkerLaw
    BY WorkerEffects, Zenon DEF WorkerLaw
  <1>13. QED
    BY <1>1, <1>2, <1>3, <1>4, <1>5, <1>6, <1>7, <1>8, <1>9, <1>10, Zenon DEF AssignerLaws
-----------------------------------------------------------------------------
(* The lifecycle of a job.                                                 *)

\* A handler that ends with run_tasks.
LEMMA RunTasksInv ==
    ASSUME Inv(descriptor), NEW j, Inv(j), Evolves(descriptor, j), LaunchTasks(j)
    PROVE  Inv(descriptor') /\ Evolves(descriptor, descriptor')
  <1> PICK keys \in SUBSET CreatedKeys(j) : descriptor' = UpdateTasks(j, keys, "Scheduled")
    BY Zenon DEF LaunchTasks
  <1> Inv(descriptor') /\ Evolves(j, descriptor')
    BY UpdateTasksInv, Zenon DEF TaskState
  <1>3. QED
    BY EvolvesTransitive, Zenon DEF Inv

\* A status reported for some attempts, and the refresh that follows it.
LEMMA UpdateAndRefreshInv ==
    ASSUME Inv(descriptor), NEW keys, NEW s \in TaskState
    PROVE  LET n == RefreshJob(UpdateTasks(descriptor, keys, s)) IN Inv(n) /\ Evolves(descriptor, n)
  <1> DEFINE u == UpdateTasks(descriptor, keys, s)
             n == RefreshJob(u)
  <1> Inv(u) /\ Evolves(descriptor, u)
    BY UpdateTasksInv, Zenon
  <1> HIDE DEF u
  <1> Inv(n) /\ Evolves(u, n)
    BY RefreshJobInv, Zenon
  <1> HIDE DEF n
  <1> Evolves(descriptor, n)
    BY EvolvesTransitive, Zenon DEF Inv
  <1>4. QED
    BY Zenon DEF n, u

\* Every step of the scheduler keeps the invariant and evolves the descriptor.
LEMMA NextInv ==
    ASSUME Inv(descriptor), [LifecycleNext]_descriptor
    PROVE  Inv(descriptor') /\ Evolves(descriptor, descriptor')
  <1>1. Evolves(descriptor, descriptor)
    BY Zenon DEF Evolves
  <1>2. CASE UNCHANGED descriptor
    BY <1>1, <1>2, Zenon
  <1>3. CASE WorkerRegistered
    BY <1>1, <1>3, RunTasksInv, Zenon DEF WorkerRegistered
  <1>4. ASSUME NEW k \in Keys(descriptor), HandleTaskRunning(k)
        PROVE  Inv(descriptor') /\ Evolves(descriptor, descriptor')
    BY <1>4, UpdateAndRefreshInv, Zenon DEF HandleTaskRunning, TaskState
  <1>5. ASSUME NEW k \in Keys(descriptor), HandleTaskSucceeded(k)
        PROVE  Inv(descriptor') /\ Evolves(descriptor, descriptor')
    <2> "Succeeded" \in TaskState
      BY Zenon DEF TaskState
    <2>2. QED
      BY <1>5, UpdateAndRefreshInv, RunTasksInv, Zenon DEF HandleTaskSucceeded
  <1>6. ASSUME NEW k \in Keys(descriptor), HandleTaskFailed(k)
        PROVE  Inv(descriptor') /\ Evolves(descriptor, descriptor')
    <2> "Failed" \in TaskState
      BY Zenon DEF TaskState
    <2>2. QED
      BY <1>6, UpdateAndRefreshInv, RunTasksInv, Zenon DEF HandleTaskFailed
  <1>7. ASSUME NEW k \in Keys(descriptor), HandleTaskCanceled(k)
        PROVE  Inv(descriptor') /\ Evolves(descriptor, descriptor')
    BY <1>7, UpdateTasksInv, Zenon DEF HandleTaskCanceled, TaskState
  <1>8. ASSUME NEW keys, WorkerLost(keys)
        PROVE  Inv(descriptor') /\ Evolves(descriptor, descriptor')
    <2> "Failed" \in TaskState
      BY Zenon DEF TaskState
    <2>2. QED
      BY <1>8, UpdateAndRefreshInv, RunTasksInv, Zenon DEF WorkerLost
  <1>9. CASE OutputEnded
    BY <1>9, CleanUpJobInv, Zenon DEF OutputEnded
  <1>10. CASE Stop
    BY <1>10, StopJobInv, Zenon DEF Stop
  <1>11. QED
    BY <1>2, <1>3, <1>4, <1>5, <1>6, <1>7, <1>8, <1>9, <1>10, Zenon DEF LifecycleNext
-----------------------------------------------------------------------------

\* The inductive invariant holds of every reachable descriptor.
THEOREM Invariance == LifecycleSpec => []Inv(descriptor)
  <1> LifecycleInit => Inv(descriptor)
    <2> SUFFICES ASSUME LifecycleInit PROVE Inv(descriptor)
      BY Zenon
    <2>1. PICK keys \in SUBSET CreatedKeys(RefreshJob(AcceptJob)) :
            descriptor = UpdateTasks(RefreshJob(AcceptJob), keys, "Scheduled")
      BY Zenon DEF LifecycleInit
    <2> Inv(RefreshJob(AcceptJob))
      BY AcceptJobInv, RefreshJobInv, Zenon
    <2> "Scheduled" \in TaskState
      BY Zenon DEF TaskState
    <2>4. QED
      BY <2>1, UpdateTasksInv, Zenon
  <1> Inv(descriptor) /\ [LifecycleNext]_descriptor => Inv(descriptor)'
    BY NextInv, Zenon
  <1>3. QED
    BY PTL DEF LifecycleSpec

\* Type correctness: after any sequence of reports the descriptor is one.
THEOREM TypeCorrect == LifecycleSpec => []DescriptorTypeOK
  <1> Inv(descriptor) => DescriptorTypeOK
    BY Zenon DEF Inv, DescriptorOK, DescriptorTypeOK
  <1>2. QED
    BY Invariance, PTL

\* A region is retried as a whole and no more often than task_max_attempts.
THEOREM RetriesAreBounded == LifecycleSpec => []RetryInLockstep
  <1> Inv(descriptor) => RetryInLockstep
    BY Zenon DEF Inv, Lockstep, Bounded, AttemptLimit, RetryInLockstep
  <1>2. QED
    BY Invariance, PTL

\* The rounds of a region do not overlap.
THEOREM RoundsDoNotOverlap == LifecycleSpec => []OneLiveRound
  <1> Inv(descriptor) => OneLiveRound
    BY Zenon DEF Inv, EarlierEnded, OneLiveRound
  <1>2. QED
    BY Invariance, PTL

\* A job that succeeds has run every task to success and has given every
\* partition of its final stage to the job output.
THEOREM SuccessIsComplete == LifecycleSpec => []SucceededJobIsComplete
  <1> Inv(descriptor) => SucceededJobIsComplete
    BY Zenon DEF Inv, Complete, SucceededJobIsComplete
  <1>2. QED
    BY Invariance, PTL

\* The job output gets launched attempts of the final stage, one live at most.
THEOREM OutputIsSound == LifecycleSpec => []OutputIsOfFinalAttempts
  <1> Inv(descriptor) => OutputIsOfFinalAttempts
    <2> SUFFICES ASSUME Inv(descriptor), NEW k \in descriptor.fetched
                 PROVE  /\ k[1] \in FinalTask
                        /\ descriptor.attempts[k] \notin {"Created", "Scheduled"}
                        /\ descriptor.attempts[k] = "Running" => k = LatestKey(descriptor, k[1])
      BY Zenon DEF OutputIsOfFinalAttempts
    <2> descriptor.len \in [Task -> Nat] /\ k \in Keys(descriptor)
      BY Zenon DEF Inv, DescriptorOK, JobDescriptor, Keys
    <2> k[1] \in Task /\ k[2] \in 1 .. descriptor.len[k[1]] /\ k = <<k[1], k[2]>>
      BY KeyFacts, Zenon DEF Keys
    <2> descriptor.attempts[k] = "Running" => ~ (k[2] < descriptor.len[k[1]])
      BY Zenon DEF Inv, EarlierEnded, Terminal
    <2> descriptor.attempts[k] = "Running" => k[2] = descriptor.len[k[1]]
      OBVIOUS
    <2>5. QED
      BY Zenon DEF Inv, OutputSound, LatestKey
  <1>2. QED
    BY Invariance, PTL

\* No report changes the outcome of an attempt that has ended.
THEOREM OutcomesAreFinal == LifecycleSpec => EndedAttemptsAreFinal
  <1> Inv(descriptor) /\ [LifecycleNext]_descriptor =>
          [\A k \in Keys(descriptor) :
              /\ k \in Keys(descriptor')
              /\ descriptor.attempts[k] \in Terminal => descriptor'.attempts[k] = descriptor.attempts[k]
              /\ k \in descriptor.fetched => k \in descriptor'.fetched]_descriptor
    BY NextInv, Zenon DEF Evolves
  <1>2. QED
    BY Invariance, PTL DEF LifecycleSpec, EndedAttemptsAreFinal

\* A region that has succeeded is not run again, nor any region of a job that
\* has ended.
THEOREM NoNeedlessRetry == LifecycleSpec => FinishedWorkIsNotRetried
  <1> Inv(descriptor) /\ [LifecycleNext]_descriptor =>
          [\A t \in Task :
              descriptor.regions[RegionOf[t]] = "Succeeded" \/ descriptor.state # "Running" =>
                  descriptor'.len[t] = descriptor.len[t]]_descriptor
    BY NextInv, Zenon DEF Evolves
  <1>2. QED
    BY Invariance, PTL DEF LifecycleSpec, FinishedWorkIsNotRetried
-----------------------------------------------------------------------------
(* The topology of a job.                                                  *)

\* A graph whose stages read stages of the graph.
GraphOK(g) ==
    /\ g \in Seq(StageRecord)
    /\ \A s \in Stages(g) : \A i \in DOMAIN g[s].inputs : g[s].inputs[i].stage \in Stages(g)

-----------------------------------------------------------------------------
(* Numbers.                                                                *)

\* A set of numbers has a least one.
LEMMA LeastNumber ==
    ASSUME SetLaws, NEW B \in SUBSET Nat, B # {}
    PROVE  \E m \in B : \A i \in B : m <= i
  BY Zenon DEF SetLaws, LeastLaw

\* A set that has 0, and n + 1 with n, has every number.
LEMMA Induction ==
    ASSUME SetLaws, NEW H, 0 \in H, \A n \in Nat : n \in H => n + 1 \in H
    PROVE  \A n \in Nat : n \in H
  <1> DEFINE Bad == Nat \ H
  <1> SUFFICES ASSUME Bad # {} PROVE FALSE
    BY Zenon
  <1> PICK m \in Bad : \A n \in Bad : m <= n
    BY LeastNumber, Zenon
  <1> m # 0 /\ m - 1 \in Nat
    OBVIOUS
  <1> m - 1 \in H
    OBVIOUS
  <1> (m - 1) + 1 \in H
    BY Zenon
  <1>5. QED
    OBVIOUS

\* A bounded set of numbers has a greatest one.
LEMMA GreatestNumber ==
    ASSUME SetLaws, NEW S \in SUBSET Nat, S # {}, NEW bound \in Nat, \A x \in S : x <= bound
    PROVE  \E n \in S : \A m \in S : m <= n
  <1> DEFINE B == {b \in Nat : \A x \in S : x <= b}
  <1> PICK n \in B : \A b \in B : n <= b
    BY LeastNumber, Zenon
  <1> n \in S
    <2> SUFFICES ASSUME n \notin S PROVE FALSE
      BY Zenon
    <2>1. \A x \in S : x <= n - 1
      OBVIOUS
    <2> n - 1 \in Nat
      <3>1. PICK x \in S : TRUE
        BY Zenon
      <3> x \in Nat /\ n \in Nat /\ x <= n - 1
        BY <2>1, Zenon
      <3>3. QED
        OBVIOUS
    <2> n - 1 \in B
      BY <2>1, Zenon
    <2>4. QED
      OBVIOUS
  <1>3. QED
    BY Zenon

\* The buckets of the tasks of a stage: with at least as many buckets as tasks,
\* no two tasks of the stage are in one bucket.
LEMMA BucketsAreInjective ==
    ASSUME NEW n \in Nat \ {0}, NEW B \in Nat, n <= B,
           NEW p \in 0 .. n - 1, NEW q \in 0 .. n - 1
    PROVE  /\ (p * B) \div n \in 0 .. B - 1
           /\ (p * B) \div n = (q * B) \div n => p = q
  <1>1. \A x \in Nat : x \div n \in Nat /\ n * (x \div n) <= x /\ x < n * (x \div n) + n
    OBVIOUS
  <1>2. p * B \in Nat /\ q * B \in Nat
    OBVIOUS
  <1>3. ASSUME NEW x \in Nat, NEW y \in Nat, x < y
        PROVE  x * B + n <= y * B
    <2> DEFINE z == y - x - 1
    <2> z \in Nat /\ y = x + 1 + z
      BY <1>3
    <2> HIDE DEF z
    <2> (x + 1 + z) * B = x * B + B + z * B
      OBVIOUS
    <2> z * B \in Nat /\ x * B \in Nat
      OBVIOUS
    <2>4. QED
      OBVIOUS
  <1>4. ASSUME NEW x \in 0 .. n - 1, NEW y \in 0 .. n - 1, x < y
        PROVE  (x * B) \div n # (y * B) \div n
    <2> DEFINE c == (x * B) \div n
               xB == x * B
               yB == y * B
    <2> xB \in Nat /\ yB \in Nat /\ xB + n <= yB
      BY <1>3, <1>4
    <2> HIDE DEF xB, yB
    <2>2. QED
      BY <1>1 DEF xB, yB
  <1> (p * B) \div n \in 0 .. B - 1
    <2> DEFINE c == (p * B) \div n
    <2>1. c \in Nat /\ n * c <= p * B
      BY <1>1, <1>2, Zenon
    <2>2. p * B + n <= n * B
      BY <1>3
    <2> HIDE DEF c
    <2> ~ (B <= c)
      <3> SUFFICES ASSUME B <= c PROVE FALSE
        BY Zenon
      <3> n * B <= n * c
        <4> DEFINE z == c - B
        <4> z \in Nat /\ c = B + z
          BY <2>1
        <4> HIDE DEF z
        <4> n * (B + z) = n * B + n * z /\ n * z \in Nat
          OBVIOUS
        <4>3. QED
          OBVIOUS
      <3> n * B \in Nat /\ n * c \in Nat /\ p * B \in Nat
        BY <2>1
      <3>3. QED
        BY <2>1, <2>2
    <2> c \in 0 .. B - 1
      BY <2>1
    <2>5. QED
      BY Zenon DEF c
  <1>6. QED
    BY <1>4
-----------------------------------------------------------------------------
(* The breadth-first search.                                               *)

Linked(g, u, v) == Reads(g, u, v, InputMode) \/ Reads(g, v, u, InputMode)

\* One more round of the search.
Round(g, near) == {v \in Stages(g) : v \in near \/ \E u \in near : Linked(g, u, v)}

ReachStep(g, s, f, n) == IF n = 0 THEN {s} ELSE Round(g, f[n - 1])

\* The stages reached after each number of rounds.
Reach(g, s) == CHOOSE f : f = [n \in Nat |-> ReachStep(g, s, f, n)]

\* The rounds of a search, with the component that it ends in.
Searches(g, s, f) ==
    /\ f[0] = {s} /\ \A n \in Nat : f[n + 1] = Round(g, f[n])
    /\ Component(g, s) = f[Len(g)]

\* The search is well defined.
LEMMA ReachIs ==
    ASSUME SetLaws, NEW g, NEW s
    PROVE  Searches(g, s, Reach(g, s))
  <1> DEFINE Solves(f, n) == f = [i \in 0 .. n |-> ReachStep(g, s, f, i)]
             H == {n \in Nat : \E f : Solves(f, n)}
             E(f, h) == {n \in Nat : f[n] = h[n]}
  <1>1. 0 \in H
    <2> DEFINE f == [i \in 0 .. 0 |-> {s}]
    <2> \A i \in 0 .. 0 : ReachStep(g, s, f, i) = {s}
      BY DEF ReachStep
    <2> f = [i \in 0 .. 0 |-> ReachStep(g, s, f, i)]
      BY Zenon
    <2>3. QED
      BY Zenon
  <1>2. ASSUME NEW n \in Nat, n \in H
        PROVE  n + 1 \in H
    <2>1. PICK f : f = [i \in 0 .. n |-> ReachStep(g, s, f, i)]
      BY <1>2, Zenon
    <2> DEFINE h == [i \in 0 .. n + 1 |-> ReachStep(g, s, f, i)]
    <2>2. \A i \in 0 .. n : f[i] = ReachStep(g, s, f, i)
      BY <2>1, Zenon
    <2>3. \A i \in 0 .. n + 1 : h[i] = ReachStep(g, s, f, i)
      BY Zenon
    <2> HIDE DEF h
    <2>4. \A i \in 0 .. n : h[i] = f[i]
      BY <2>2, <2>3
    <2> \A i \in 0 .. n + 1 : ReachStep(g, s, f, i) = ReachStep(g, s, h, i)
      <3> \A i \in 0 .. n + 1 : i = 0 \/ i - 1 \in 0 .. n
        OBVIOUS
      <3>2. QED
        BY <2>4, Zenon DEF ReachStep
    <2> h = [i \in 0 .. n + 1 |-> ReachStep(g, s, h, i)]
      BY Zenon DEF h
    <2>7. QED
      OBVIOUS
  <1>3. \A n \in Nat : \E f : Solves(f, n)
    <2> HIDE DEF Solves
    <2> \A n \in Nat : n \in H
      <3> HIDE DEF H
      <3>1. QED
        BY <1>1, <1>2, Induction, Zenon
    <2>2. QED
      BY Zenon
  <1> DEFINE at == [n \in Nat |-> CHOOSE f : Solves(f, n)]
             F == [n \in Nat |-> at[n][n]]
  <1>4. \A n \in Nat : \A i \in 0 .. n : at[n][i] = ReachStep(g, s, at[n], i)
    <2> SUFFICES ASSUME NEW n \in Nat PROVE \A i \in 0 .. n : at[n][i] = ReachStep(g, s, at[n], i)
      BY Zenon
    <2> Solves(at[n], n)
      <3> HIDE DEF Solves
      <3>1. QED
        BY <1>3, Zenon
    <2> HIDE DEF at
    <2>2. QED
      BY Zenon
  <1> HIDE DEF at
  <1>5. \A i \in Nat : \A n, m \in Nat : i <= n /\ i <= m => at[n][i] = at[m][i]
    <2> DEFINE S == {i \in Nat : \A n, m \in Nat : i <= n /\ i <= m => at[n][i] = at[m][i]}
    <2>1. 0 \in S
      BY <1>4 DEF ReachStep
    <2>2. ASSUME NEW i \in Nat, i \in S
          PROVE  i + 1 \in S
      <3> SUFFICES ASSUME NEW n \in Nat, NEW m \in Nat, i + 1 <= n, i + 1 <= m
                   PROVE  at[n][i + 1] = at[m][i + 1]
        OBVIOUS
      <3>1. at[n][i] = at[m][i]
        BY <2>2
      <3> i + 1 \in 0 .. n /\ i + 1 \in 0 .. m /\ i + 1 # 0 /\ (i + 1) - 1 = i
        OBVIOUS
      <3> at[n][i + 1] = Round(g, at[n][i]) /\ at[m][i + 1] = Round(g, at[m][i])
        BY <1>4, Zenon DEF ReachStep
      <3>4. QED
        BY <3>1, Zenon
    <2> \A i \in Nat : i \in S
      <3> HIDE DEF S
      <3>1. QED
        BY <2>1, <2>2, Induction, Zenon
    <2>4. QED
      BY Zenon
  <1>6. \A n \in Nat : F[n] = ReachStep(g, s, F, n)
    <2> SUFFICES ASSUME NEW n \in Nat PROVE F[n] = ReachStep(g, s, F, n)
      BY Zenon
    <2> F[n] = at[n][n] /\ n \in 0 .. n
      OBVIOUS
    <2>2. CASE n = 0
      BY <1>4, <2>2, Zenon DEF ReachStep
    <2>3. CASE n # 0
      <3> USE <2>3
      <3> n - 1 \in Nat /\ n - 1 <= n /\ F[n - 1] = at[n - 1][n - 1]
        OBVIOUS
      <3> at[n][n - 1] = at[n - 1][n - 1]
        BY <1>5
      <3> at[n][n] = Round(g, at[n][n - 1])
        BY <1>4, Zenon DEF ReachStep
      <3>4. QED
        BY Zenon DEF ReachStep
    <2>4. QED
      BY <2>2, <2>3, Zenon
  <1>7. F = [n \in Nat |-> ReachStep(g, s, F, n)]
    BY <1>6, Zenon
  <1>8. Reach(g, s) = [n \in Nat |-> ReachStep(g, s, Reach(g, s), n)]
    <2> HIDE DEF F
    <2> \E f : f = [n \in Nat |-> ReachStep(g, s, f, n)]
      BY <1>7, Zenon
    <2>2. QED
      BY Zenon DEF Reach
  <1>9. Component(g, s) = Reach(g, s)[Len(g)]
    BY Zenon DEF Component, Reach, ReachStep, Round, Linked
  <1> \A n \in Nat : Reach(g, s)[n] = ReachStep(g, s, Reach(g, s), n)
    BY <1>8, Zenon
  <1>11. Reach(g, s)[0] = {s}
    BY Zenon DEF ReachStep
  <1> ASSUME NEW n \in Nat
      PROVE  Reach(g, s)[n + 1] = Round(g, Reach(g, s)[n])
    <2> n + 1 \in Nat /\ n + 1 # 0 /\ (n + 1) - 1 = n
      OBVIOUS
    <2>2. QED
      BY Zenon DEF ReachStep
  <1>13. QED
    BY <1>9, <1>11, Zenon DEF Searches

Closed(g, S) == \A u \in S, v \in Stages(g) : Linked(g, u, v) => v \in S

\* The stages of a graph are finitely many.
LEMMA StagesAreFinite ==
    ASSUME SetLaws, NEW g, GraphOK(g)
    PROVE  /\ Stages(g) = 1 .. Len(g) /\ Len(g) \in Nat
           /\ IsFiniteSet(Stages(g)) /\ Cardinality(Stages(g)) = Len(g)
  <1> Stages(g) = 1 .. Len(g) /\ Len(g) \in Nat
    BY DEF GraphOK, Stages
  <1> IsFiniteSet(1 .. Len(g)) /\ Cardinality(1 .. Len(g)) = Len(g)
    <2> 1 \in Int /\ Len(g) \in Int
      OBVIOUS
    <2> /\ IsFiniteSet(1 .. Len(g))
        /\ Cardinality(1 .. Len(g)) = IF 1 > Len(g) THEN 0 ELSE Len(g) - 1 + 1
      BY DEF SetLaws, IntervalLaw
    <2>3. QED
      OBVIOUS
  <1>3. QED
    BY Zenon

\* After as many rounds as there are stages the search has reached a closed set,
\* and it has reached nothing but what every closed set with the stage has.
LEMMA ComponentIsClosure ==
    ASSUME SetLaws, NEW g, GraphOK(g), NEW s \in Stages(g)
    PROVE  /\ s \in Component(g, s) /\ Component(g, s) \subseteq Stages(g)
           /\ Closed(g, Component(g, s))
           /\ \A D : s \in D /\ Closed(g, D) => Component(g, s) \subseteq D
  <1> DEFINE f == Reach(g, s)
             N == Len(g)
  <1>1. f[0] = {s} /\ (\A n \in Nat : f[n + 1] = Round(g, f[n])) /\ Component(g, s) = f[N]
    <2> Searches(g, s, f)
      BY ReachIs, Zenon
    <2> HIDE DEF f
    <2> QED
      BY Zenon DEF Searches
  <1>2. N \in Nat /\ IsFiniteSet(Stages(g)) /\ Cardinality(Stages(g)) = N
    BY StagesAreFinite, Zenon
  <1> HIDE DEF f, N
  <1>3. \A n \in Nat : s \in f[n] /\ f[n] \subseteq Stages(g)
    <2> DEFINE H == {n \in Nat : s \in f[n] /\ f[n] \subseteq Stages(g)}
    <2>1. 0 \in H
      BY <1>1, Zenon
    <2> \A n \in Nat : n \in H => n + 1 \in H
      BY <1>1 DEF Round
    <2> \A n \in Nat : n \in H
      <3> HIDE DEF H
      <3>1. QED
        BY <2>1, Induction, Zenon
    <2>4. QED
      BY Zenon
  <1>4. \A n \in Nat : IsFiniteSet(f[n]) /\ Cardinality(f[n]) \in Nat /\ Cardinality(f[n]) <= N
    BY <1>2, <1>3, Zenon DEF SetLaws, SubsetLaw, CardinalityLaw
  <1>5. \A n \in Nat : Closed(g, f[n]) \/ Cardinality(f[n]) >= n + 1
    <2> DEFINE H == {n \in Nat : Closed(g, f[n]) \/ Cardinality(f[n]) >= n + 1}
    <2>1. 0 \in H
      <3> Cardinality(f[0]) = 1
        BY <1>1, Zenon DEF SetLaws, SingletonLaw
      <3>2. QED
        OBVIOUS
    <2>2. ASSUME NEW n \in Nat, n \in H
          PROVE  n + 1 \in H
      <3>1. f[n + 1] = Round(g, f[n]) /\ f[n] \subseteq f[n + 1]
        BY <1>1, <1>3, Zenon DEF Round
      <3>2. CASE Closed(g, f[n])
        <4> USE <3>2
        <4> f[n + 1] = f[n]
          BY <3>1, <1>3, Zenon DEF Round, Closed
        <4>2. QED
          OBVIOUS
      <3>3. CASE ~ Closed(g, f[n])
        <4>1. PICK u \in f[n], v \in Stages(g) : Linked(g, u, v) /\ v \notin f[n]
          BY <3>3, Zenon DEF Closed
        <4>2. v \in f[n + 1]
          BY <3>1, <4>1, Zenon DEF Round
        <4>3. Cardinality(f[n]) >= n + 1
          BY <2>2, <3>3, Zenon
        <4> f[n] \in SUBSET f[n + 1] /\ f[n + 1] # f[n] /\ n + 1 \in Nat
          BY <3>1, <4>1, <4>2
        <4>5. /\ Cardinality(f[n]) <= Cardinality(f[n + 1])
              /\ Cardinality(f[n]) # Cardinality(f[n + 1])
          BY <1>4, Zenon DEF SetLaws, SubsetLaw
        <4>6. Cardinality(f[n]) \in Nat /\ Cardinality(f[n + 1]) \in Nat
          BY <1>4, Zenon
        <4> \A c, e \in Nat : c >= n + 1 /\ c <= e /\ c # e => e >= (n + 1) + 1
          OBVIOUS
        <4> Cardinality(f[n + 1]) >= (n + 1) + 1
          BY <4>3, <4>5, <4>6, Zenon
        <4>9. QED
          BY Zenon
      <3>4. QED
        BY <3>2, <3>3, Zenon
    <2> \A n \in Nat : n \in H
      <3> HIDE DEF H
      <3>1. QED
        BY <2>1, <2>2, Induction, Zenon
    <2>4. QED
      BY Zenon
  <1>6. Closed(g, f[N])
    <2> \A c \in Nat : c <= N => ~ (c >= N + 1)
      BY <1>2
    <2>2. QED
      BY <1>2, <1>4, <1>5, Zenon
  <1>7. ASSUME NEW D, s \in D, Closed(g, D)
        PROVE  f[N] \subseteq D
    <2> USE <1>7
    <2> DEFINE H == {n \in Nat : f[n] \subseteq D}
    <2>1. 0 \in H
      BY <1>1, Zenon
    <2> \A n \in Nat : n \in H => n + 1 \in H
      BY <1>1 DEF Round, Closed
    <2> \A n \in Nat : n \in H
      <3> HIDE DEF H
      <3>1. QED
        BY <2>1, Induction, Zenon
    <2>4. QED
      BY <1>2, Zenon
  <1>8. QED
    BY <1>1, <1>2, <1>3, <1>6, <1>7, Zenon

\* Two components that share a stage are one.
LEMMA ComponentsAreDisjoint ==
    ASSUME SetLaws, NEW g, GraphOK(g), NEW s \in Stages(g), NEW t \in Component(g, s)
    PROVE  t \in Stages(g) /\ Component(g, t) = Component(g, s)
  <1> /\ s \in Component(g, s) /\ Component(g, s) \subseteq Stages(g) /\ Closed(g, Component(g, s))
      /\ \A D : s \in D /\ Closed(g, D) => Component(g, s) \subseteq D
    BY ComponentIsClosure, Zenon
  <1>2. t \in Stages(g)
    BY Zenon
  <1> /\ t \in Component(g, t) /\ Component(g, t) \subseteq Stages(g) /\ Closed(g, Component(g, t))
      /\ \A D : t \in D /\ Closed(g, D) => Component(g, t) \subseteq D
    BY <1>2, ComponentIsClosure, Zenon
  <1>4. Component(g, t) \subseteq Component(g, s)
    BY Zenon
  <1> s \in Component(g, t)
    <2> SUFFICES ASSUME s \notin Component(g, t) PROVE FALSE
      BY Zenon
    <2> DEFINE D == Component(g, s) \ Component(g, t)
    <2>1. \A u, v : Linked(g, u, v) => Linked(g, v, u)
      BY Zenon DEF Linked
    <2> s \in D /\ t \notin D
      BY Zenon
    <2> Closed(g, D)
      BY <2>1, Zenon DEF Closed
    <2>4. QED
      BY Zenon
  <1> Component(g, s) \subseteq Component(g, t)
    BY Zenon
  <1>7. QED
    BY <1>2, <1>4, Zenon
-----------------------------------------------------------------------------
(* Regions.                                                                *)

\* A task is a stage and a partition of it.
LEMMA TaskFacts ==
    ASSUME NEW g, GraphOK(g)
    PROVE  /\ \A s \in Stages(g) : g[s] \in StageRecord /\ g[s].partitions \in Nat \ {0}
           /\ \A t \in Tasks(g) : /\ t[1] \in Stages(g) /\ t[2] \in 0 .. g[t[1]].partitions - 1
                                  /\ t = <<t[1], t[2]>>
           /\ \A s \in Stages(g) : \A p \in 0 .. g[s].partitions - 1 : <<s, p>> \in Tasks(g)
  <1>1. \A s \in Stages(g) : g[s] \in StageRecord
    BY DEF GraphOK, Stages
  <1>2. \A r \in StageRecord : r.partitions \in Nat \ {0}
    BY Zenon DEF StageRecord
  <1> ASSUME NEW t \in Tasks(g)
      PROVE  t[1] \in Stages(g) /\ t[2] \in 0 .. g[t[1]].partitions - 1 /\ t = <<t[1], t[2]>>
    <2> PICK s \in Stages(g) : t \in {s} \X (0 .. g[s].partitions - 1)
      BY Zenon DEF Tasks
    <2>2. QED
      OBVIOUS
  <1> \A s \in Stages(g) : \A p \in 0 .. g[s].partitions - 1 : <<s, p>> \in Tasks(g)
    BY DEF Tasks
  <1>5. QED
    BY <1>1, <1>2, Zenon

\* The numbers of partitions are bounded.
LEMMA PartitionsAreBounded ==
    ASSUME SetLaws, NEW g, GraphOK(g)
    PROVE  \E b \in Nat : \A s \in Stages(g) : g[s].partitions <= b
  <1> DEFINE H == {n \in Nat : n <= Len(g) => \E b \in Nat : \A s \in 1 .. n : g[s].partitions <= b}
  <1>1. Stages(g) = 1 .. Len(g) /\ Len(g) \in Nat
    BY StagesAreFinite, Zenon
  <1>2. 0 \in H
    <2> \A s \in 1 .. 0 : g[s].partitions <= 0
      OBVIOUS
    <2>2. QED
      BY Zenon
  <1>3. ASSUME NEW n \in Nat, n \in H
        PROVE  n + 1 \in H
    <2> n + 1 \in Nat
      OBVIOUS
    <2> SUFFICES ASSUME n + 1 <= Len(g)
                 PROVE  \E b \in Nat : \A s \in 1 .. n + 1 : g[s].partitions <= b
      BY Zenon
    <2>1. PICK b \in Nat : \A s \in 1 .. n : g[s].partitions <= b
      BY <1>1, <1>3
    <2>2. \A s \in 1 .. n + 1 : s \in Stages(g) /\ (s \in 1 .. n \/ s = n + 1)
      BY <1>1
    <2> \A s \in 1 .. n + 1 : g[s].partitions \in Nat
      BY <2>2, TaskFacts, Zenon
    <2>4. n + 1 \in 1 .. n + 1
      OBVIOUS
    <2> DEFINE c == b + g[n + 1].partitions
    <2> c \in Nat /\ b <= c /\ g[n + 1].partitions <= c
      BY <2>4
    <2> HIDE DEF c
    <2> \A s \in 1 .. n + 1 : g[s].partitions <= c
      BY <2>1, <2>2
    <2>7. QED
      BY Zenon
  <1>4. \A n \in Nat : n \in H
    <2> HIDE DEF H
    <2>1. QED
      BY <1>2, <1>3, Induction, Zenon
  <1> Len(g) \in H /\ Len(g) <= Len(g)
    <2> \A n \in Nat : n <= n
      OBVIOUS
    <2> HIDE DEF H
    <2>2. QED
      BY <1>1, <1>4, Zenon
  <1> \E b \in Nat : \A s \in 1 .. Len(g) : g[s].partitions <= b
    BY Zenon
  <1>7. QED
    BY <1>1, Zenon

\* In a graph that is not rejected, the stages of a component with forward
\* inputs only have the same number of partitions.
LEMMA SlicesAgree ==
    ASSUME SetLaws, NEW g, GraphOK(g), ~ IsRejected(g),
           NEW s \in Stages(g), AllForward(g, Component(g, s))
    PROVE  \A u \in Component(g, s) :
            (CHOOSE n \in PartitionCounts(g, Component(g, s)) : TRUE) = g[u].partitions
  <1> DEFINE C == Component(g, s)
             counts == PartitionCounts(g, C)
  <1>1. C \subseteq Stages(g) /\ C \in Components(g)
    BY ComponentIsClosure, Zenon DEF Components
  <1>2. Cardinality(counts) = 1
    BY <1>1, Zenon DEF IsRejected
  <1>3. IsFiniteSet(counts)
    <2>1. PICK b \in Nat : \A u \in Stages(g) : g[u].partitions <= b
      BY PartitionsAreBounded, Zenon
    <2>2. counts \in SUBSET Nat /\ \A n \in counts : n <= b
      BY <1>1, <2>1, TaskFacts, Zenon DEF PartitionCounts
    <2> DEFINE next == [n \in counts |-> n + 1]
    <2>3. next \in [counts -> 1 .. b + 1] /\ \A m, n \in counts : next[m] = next[n] => m = n
      BY <2>2
    <2> HIDE DEF next, counts
    <2> next \in Injection(counts, 1 .. b + 1)
      BY <2>3, Zenon DEF Injection, IsInjective
    <2> IsFiniteSet(1 .. b + 1)
      BY DEF SetLaws, IntervalLaw
    <2>6. QED
      BY Zenon DEF SetLaws, InjectionLaw
  <1> PICK n : counts = {n}
    BY <1>2, <1>3, Zenon DEF SetLaws, SingletonLaw
  <1> \A u \in C : g[u].partitions \in counts
    BY Zenon DEF PartitionCounts
  <1> HIDE DEF C, counts
  <1> (CHOOSE m \in counts : TRUE) = n
    BY Zenon
  <1>7. QED
    BY Zenon DEF C, counts

\* The region of a task.
Home(g, t) ==
    LET component == Component(g, t[1])
    IN  IF AllForward(g, component) THEN component \X {t[2]}
        ELSE {u \in Tasks(g) : u[1] \in component}

\* A task is in its region and in no other one, and regions have tasks only.
LEMMA HomeIsTheRegion ==
    ASSUME SetLaws, NEW g, GraphOK(g), ~ IsRejected(g)
    PROVE  /\ \A t \in Tasks(g) : t \in Home(g, t) /\ Home(g, t) \in Regions(g)
           /\ \A r \in Regions(g) : r \subseteq Tasks(g) /\ \A t \in r : r = Home(g, t)
  <1>1. ASSUME NEW t \in Tasks(g)
        PROVE  t \in Home(g, t) /\ Home(g, t) \in Regions(g)
    <2> DEFINE C == Component(g, t[1])
    <2>1. t[1] \in Stages(g) /\ t[2] \in 0 .. g[t[1]].partitions - 1 /\ t = <<t[1], t[2]>>
      BY TaskFacts, Zenon
    <2>2. t[1] \in C /\ C \in Components(g)
      BY <2>1, ComponentIsClosure, Zenon DEF Components
    <2>3. CASE AllForward(g, C)
      <3> USE <2>3
      <3>1. (CHOOSE n \in PartitionCounts(g, C) : TRUE) = g[t[1]].partitions
        BY <2>1, <2>2, SlicesAgree, Zenon
      <3> HIDE DEF C
      <3> C \X {t[2]} \in ComponentRegions(g, C)
        BY <2>1, <3>1, Zenon DEF ComponentRegions
      <3> Home(g, t) = C \X {t[2]}
        BY Zenon DEF Home, C
      <3>4. QED
        BY <2>1, <2>2, Zenon DEF Regions
    <2>4. CASE ~ AllForward(g, C)
      <3> USE <2>4
      <3> Home(g, t) = {u \in Tasks(g) : u[1] \in C}
        BY Zenon DEF Home
      <3> HIDE DEF C
      <3> Home(g, t) \in ComponentRegions(g, C)
        BY Zenon DEF ComponentRegions
      <3>3. QED
        BY <2>2, Zenon DEF Regions
    <2>5. QED
      BY <2>3, <2>4, Zenon
  <1> ASSUME NEW r \in Regions(g)
      PROVE  r \subseteq Tasks(g) /\ \A t \in r : r = Home(g, t)
    <2>1. PICK s \in Stages(g) : r \in ComponentRegions(g, Component(g, s))
      BY Zenon DEF Regions, Components
    <2> DEFINE C == Component(g, s)
    <2>2. C \subseteq Stages(g) /\ s \in C
      BY ComponentIsClosure, Zenon
    <2>3. \A u \in C : Component(g, u) = C
      BY ComponentsAreDisjoint, Zenon
    <2>4. CASE AllForward(g, C)
      <3>1. \A u \in C : (CHOOSE n \in PartitionCounts(g, C) : TRUE) = g[u].partitions
        BY <2>4, SlicesAgree, Zenon
      <3> HIDE DEF C
      <3>2. PICK p \in 0 .. (CHOOSE n \in PartitionCounts(g, C) : TRUE) - 1 : r = C \X {p}
        BY <2>1, <2>4, Zenon DEF ComponentRegions, C
      <3> \A t \in r : t[1] \in C /\ t[2] = p /\ t = <<t[1], p>>
        BY <3>2
      <3>4. \A t \in r : r = Home(g, t)
        BY <2>3, <2>4, <3>2, Zenon DEF Home
      <3> ASSUME NEW t \in r
          PROVE  t \in Tasks(g)
        <4> t[1] \in Stages(g) /\ p \in 0 .. g[t[1]].partitions - 1
          BY <2>2, <3>1, Zenon
        <4> <<t[1], p>> \in Tasks(g)
          BY TaskFacts, Zenon
        <4>3. QED
          BY Zenon
      <3>6. QED
        BY <3>4, Zenon
    <2>5. CASE ~ AllForward(g, C)
      <3> USE <2>5
      <3> r = {t \in Tasks(g) : t[1] \in C}
        BY <2>1, Zenon DEF ComponentRegions
      <3> HIDE DEF C
      <3> \A t \in r : r = Home(g, t)
        BY <2>3, Zenon DEF Home
      <3>3. QED
        BY Zenon
    <2>6. QED
      BY <2>4, <2>5, Zenon
  <1>3. QED
    BY <1>1, Zenon

\* The tasks of a graph are in one region each.
LEMMA RegionsPartition ==
    ASSUME SetLaws, NEW g, GraphOK(g), ~ IsRejected(g), NEW t \in Tasks(g)
    PROVE  Cardinality({r \in Regions(g) : t \in r}) = 1
  <1> {r \in Regions(g) : t \in r} = {Home(g, t)}
    BY HomeIsTheRegion
  <1>2. QED
    BY Zenon DEF SetLaws, SingletonLaw

\* What a task reads is in its region.
LEMMA RegionsArePipelined ==
    ASSUME SetLaws, NEW g, GraphOK(g), ~ IsRejected(g), NEW r \in Regions(g)
    PROVE  /\ \A t \in r : Producers(g, t) \subseteq r
           /\ RegionDependencies(g, r) = {}
  <1>1. ASSUME NEW t \in r, NEW u \in Producers(g, t)
        PROVE  u \in r
    <2> DEFINE C == Component(g, t[1])
    <2>1. t \in Tasks(g) /\ r = Home(g, t)
      BY HomeIsTheRegion, Zenon
    <2>2. /\ u \in Tasks(g)
          /\ \/ Reads(g, t[1], u[1], {"Forward"}) /\ u[2] = t[2]
             \/ Reads(g, t[1], u[1], InputMode \ {"Forward"})
      BY Zenon DEF Producers
    <2>3. t[1] \in Stages(g) /\ u[1] \in Stages(g) /\ u = <<u[1], u[2]>>
      BY <2>1, <2>2, TaskFacts, Zenon
    <2>4. Linked(g, t[1], u[1])
      BY <2>2, Zenon DEF Linked, Reads, InputMode
    <2> t[1] \in C /\ u[1] \in C
      BY <2>3, <2>4, ComponentIsClosure, Zenon DEF Closed
    <2> HIDE DEF C
    <2>6. CASE AllForward(g, C)
      <3> USE <2>6
      <3> u[2] = t[2]
        BY <2>2, Zenon DEF AllForward
      <3> r = C \X {t[2]}
        BY <2>1, Zenon DEF Home, C
      <3>3. QED
        BY <2>3, Zenon
    <2>7. CASE ~ AllForward(g, C)
      <3> r = {x \in Tasks(g) : x[1] \in C}
        BY <2>1, <2>7, Zenon DEF Home, C
      <3>2. QED
        BY <2>2, Zenon
    <2>8. QED
      BY <2>6, <2>7, Zenon
  <1> RegionDependencies(g, r) = {}
    <2> SUFFICES ASSUME NEW d \in RegionDependencies(g, r) PROVE FALSE
      BY Zenon
    <2>1. PICK t \in r : \E u : u \in Producers(g, t) \cap d
      BY Zenon DEF RegionDependencies
    <2>2. PICK u : u \in Producers(g, t) \cap d
      BY <2>1, Zenon
    <2> d \in Regions(g) /\ d # r /\ u \in d /\ u \in r
      BY <1>1, <2>2, Zenon DEF RegionDependencies
    <2> d = Home(g, u) /\ r = Home(g, u)
      BY HomeIsTheRegion, Zenon
    <2>5. QED
      BY Zenon
  <1>3. QED
    BY <1>1, Zenon
-----------------------------------------------------------------------------
(* Task sets.                                                              *)

\* A region has at least as many buckets as any of its stages has partitions.
LEMMA BucketsSuffice ==
    ASSUME SetLaws, NEW g, GraphOK(g), NEW r, r \subseteq Tasks(g), NEW t \in r
    PROVE  LET n == g[t[1]].partitions
               B == Buckets(g, r, g[t[1]].placement)
           IN  n \in Nat \ {0} /\ B \in Nat /\ n <= B /\ t[2] \in 0 .. n - 1
  <1> DEFINE placement == g[t[1]].placement
             counts == {g[u[1]].partitions : u \in {x \in r : g[x[1]].placement = placement}}
             n == g[t[1]].partitions
  <1>1. n \in counts
    BY Zenon
  <1>2. n \in Nat \ {0} /\ t[2] \in 0 .. n - 1
    BY TaskFacts, Zenon
  <1>3. counts \in SUBSET Nat
    BY TaskFacts, Zenon
  <1>4. PICK b \in Nat : \A s \in Stages(g) : g[s].partitions <= b
    BY PartitionsAreBounded, Zenon
  <1>5. \A x \in counts : x <= b
    BY <1>4, TaskFacts, Zenon
  <1>6. Buckets(g, r, placement) = IF counts = {} THEN 0 ELSE CHOOSE c \in counts : \A m \in counts : m <= c
    BY Zenon DEF Buckets
  <1> HIDE DEF counts, placement, n
  <1> \E c \in counts : \A m \in counts : m <= c
    BY <1>1, <1>3, <1>5, GreatestNumber, Zenon
  <1> Buckets(g, r, placement) \in counts /\ \A m \in counts : m <= Buckets(g, r, placement)
    BY <1>1, <1>6, Zenon
  <1>9. QED
    BY <1>1, <1>2, <1>3, Zenon DEF placement, n

\* The task sets of a region.
LEMMA TaskSetsShareSlots ==
    ASSUME SetLaws, NEW g, GraphOK(g), NEW r, r \subseteq Tasks(g), NEW t \in Tasks(g)
    PROVE  LET sets(placement) == TaskSets(g, r, placement)
               holders(placement) == {b \in DOMAIN sets(placement) : t \in sets(placement)[b]}
           IN  /\ t \in r => Cardinality(holders(g[t[1]].placement)) = 1
               /\ \A placement \in TaskPlacement : \A b \in holders(placement) :
                    /\ g[t[1]].placement = placement
                    /\ \A u \in sets(placement)[b] : u[1] = t[1] => u = t
  <1> DEFINE sets(placement) == TaskSets(g, r, placement)
             holders(placement) == {b \in DOMAIN sets(placement) : t \in sets(placement)[b]}
  <1>1. \A placement : \A b : b \in DOMAIN sets(placement) <=> b \in 1 .. Buckets(g, r, placement)
    BY Zenon DEF TaskSets
  <1>2. \A placement : \A b \in 1 .. Buckets(g, r, placement) :
            sets(placement)[b] = {u \in r : g[u[1]].placement = placement /\ Bucket(g, r, u) = b - 1}
    BY Zenon DEF TaskSets, TaskSet
  <1> HIDE DEF sets
  <1>3. ASSUME t \in r
        PROVE  Cardinality(holders(g[t[1]].placement)) = 1
    <2> DEFINE n == g[t[1]].partitions
               B == Buckets(g, r, g[t[1]].placement)
               b == Bucket(g, r, t)
    <2>1. n \in Nat \ {0} /\ B \in Nat /\ n <= B /\ t[2] \in 0 .. n - 1
      BY <1>3, BucketsSuffice, Zenon
    <2>2. b = (t[2] * B) \div n
      BY Zenon DEF Bucket
    <2> HIDE DEF n, B, b
    <2>3. b \in 0 .. B - 1
      BY <2>1, <2>2, BucketsAreInjective, Zenon
    <2> b + 1 \in 1 .. B /\ \A c \in 1 .. B : c - 1 = b <=> c = b + 1
      BY <2>1, <2>3
    <2> holders(g[t[1]].placement) = {b + 1}
      BY <1>1, <1>2, <1>3 DEF B, b
    <2>6. QED
      BY Zenon DEF SetLaws, SingletonLaw
  <1> ASSUME NEW placement \in TaskPlacement, NEW b \in holders(placement)
      PROVE  /\ g[t[1]].placement = placement
             /\ \A u \in sets(placement)[b] : u[1] = t[1] => u = t
    <2> b \in 1 .. Buckets(g, r, placement) /\ t \in r /\ g[t[1]].placement = placement /\ Bucket(g, r, t) = b - 1
      BY <1>1, <1>2
    <2>2. ASSUME NEW u \in sets(placement)[b], u[1] = t[1]
          PROVE  u = t
      <3> DEFINE n == g[t[1]].partitions
                 B == Buckets(g, r, g[t[1]].placement)
      <3> u \in r /\ Bucket(g, r, u) = b - 1
        BY <1>2
      <3>2. n \in Nat \ {0} /\ B \in Nat /\ n <= B /\ t[2] \in 0 .. n - 1
        BY BucketsSuffice, Zenon
      <3>3. u[2] \in 0 .. n - 1
        BY <2>2, TaskFacts, Zenon
      <3>4. (t[2] * B) \div n = (u[2] * B) \div n
        BY <2>2, Zenon DEF Bucket
      <3> HIDE DEF n, B
      <3> u[2] = t[2]
        BY <3>2, <3>3, <3>4, BucketsAreInjective, Zenon
      <3> u = <<u[1], u[2]>> /\ t = <<t[1], t[2]>>
        BY TaskFacts, Zenon
      <3>7. QED
        BY <2>2, Zenon
    <2>3. QED
      BY <2>2, Zenon
  <1>5. QED
    BY <1>3, Zenon DEF sets
-----------------------------------------------------------------------------
(* The planner.                                                            *)

\* The inductive invariant.  GraphTypeOK lets a stage read stage 0, which is not
\* there: that the stages read stages of the graph must be carried along.
GraphInv == GraphTypeOK /\ GraphOK(stages)

\* The placeholders that are taken and those that are left are placeholders.
LEMMA StackFacts ==
    ASSUME NEW S, NEW s \in Seq(S), NEW n \in 0 .. Len(s)
    PROVE  /\ SubSeq(s, Len(s) - n + 1, Len(s)) \in Seq(S)
           /\ SubSeq(s, 1, Len(s) - n) \in Seq(S)
  <1> DEFINE l == Len(s)
  <1> l \in Nat /\ \A i \in 1 .. l : s[i] \in S
    OBVIOUS
  <1> HIDE DEF l
  <1> l - n + 1 \in Nat /\ l - n + 1 >= 1 /\ l - n <= l /\ l - n \in Nat
    BY DEF l
  <1>3. /\ \A i \in (l - n + 1) .. l : i \in 1 .. l
        /\ \A i \in 1 .. (l - n) : i \in 1 .. l
    OBVIOUS
  <1> /\ \A i \in (l - n + 1) .. l : s[i] \in S
      /\ \A i \in 1 .. (l - n) : s[i] \in S
    BY <1>3, Zenon
  <1> SubSeq(s, l - n + 1, l) \in Seq(S) /\ SubSeq(s, 1, l - n) \in Seq(S)
    OBVIOUS
  <1>6. QED
    BY Zenon DEF l

\* A pushed stage reads stages below it, and changes no other stage.
LEMMA PushKeepsTheGraph ==
    ASSUME GraphInv, NEW n \in 0 .. Len(inputs), NEW partitions \in Nat \ {0},
           NEW placement \in TaskPlacement, Push(n, partitions, placement)
    PROVE  /\ GraphOK(stages')
           /\ \A s \in Stages(stages') : \A i \in DOMAIN stages'[s].inputs : stages'[s].inputs[i].stage < s
           /\ Stages(stages) \subseteq Stages(stages')
           /\ Len(stages) \in Nat
           /\ Len(stages) + 1 \in Stages(stages')
  <1> DEFINE Held == [stage : Stages(stages), mode : InputMode]
             taken == SubSeq(inputs, Len(inputs) - n + 1, Len(inputs))
             new == [partitions |-> partitions, inputs |-> taken, placement |-> placement]
             l == Len(stages)
  <1>1. stages' = Append(stages, new)
    BY Zenon DEF Push
  <1>2. stages \in Seq(StageRecord) /\ l \in Nat /\ Stages(stages) = 1 .. l
    BY DEF GraphInv, GraphTypeOK, Stages
  <1>3. taken \in Seq(Held)
    BY StackFacts, Zenon DEF GraphInv, GraphTypeOK
  <1> HIDE DEF taken
  <1>4. /\ DOMAIN taken = 1 .. Len(taken)
        /\ \A i \in DOMAIN taken : taken[i] \in Held
    <2> HIDE DEF Held
    <2>1. QED
      BY <1>3
  <1>5. taken \in Seq(StageInput)
    <2> Held \subseteq StageInput
      BY <1>2 DEF StageInput
    <2> HIDE DEF Held
    <2>2. QED
      BY <1>3
  <1>6. new \in StageRecord
    BY <1>5, Zenon DEF StageRecord
  <1> /\ new.inputs = taken
      /\ stages' \in Seq(StageRecord)
      /\ Len(stages') = l + 1
      /\ stages'[l + 1] = new
      /\ \A s \in 1 .. l : stages'[s] = stages[s]
    BY <1>1, <1>2, <1>6
  <1> HIDE DEF new, l
  <1> Stages(stages') = 1 .. (l + 1)
    BY DEF Stages
  <1> /\ l + 1 \in 1 .. (l + 1) /\ 1 .. l \subseteq 1 .. (l + 1)
      /\ \A s \in 1 .. (l + 1) : s \in 1 .. l \/ s = l + 1
      /\ \A s \in 1 .. l : s < l + 1
    BY <1>2
  <1> ASSUME NEW s \in Stages(stages'), NEW i \in DOMAIN stages'[s].inputs
      PROVE  stages'[s].inputs[i].stage \in 1 .. l /\ stages'[s].inputs[i].stage < s
    <2>1. CASE s \in 1 .. l
      BY <1>2, <2>1, Zenon DEF GraphInv, GraphOK, GraphTypeOK
    <2>2. CASE s = l + 1
      BY <1>2, <1>4, <2>2, Zenon
    <2>3. QED
      BY <2>1, <2>2, Zenon
  <1> GraphOK(stages')
    BY Zenon DEF GraphOK
  <1>12. QED
    BY <1>2, Zenon DEF l

\* A placeholder names the stage that is pushed with it.
LEMMA PlaceholderKeepsTheStack ==
    ASSUME GraphInv, NEW n \in 0 .. Len(inputs), NEW mode \in InputMode, Placeholder(n, mode),
           Stages(stages) \subseteq Stages(stages'), Len(stages) + 1 \in Stages(stages')
    PROVE  inputs' \in Seq([stage : Stages(stages'), mode : InputMode])
  <1> DEFINE Held == [stage : Stages(stages), mode : InputMode]
             Kept == [stage : Stages(stages'), mode : InputMode]
             left == SubSeq(inputs, 1, Len(inputs) - n)
  <1>1. left \in Seq(Held)
    BY StackFacts, Zenon DEF GraphInv, GraphTypeOK
  <1>2. inputs' = Append(left, [stage |-> Len(stages) + 1, mode |-> mode])
    BY Zenon DEF Placeholder
  <1> HIDE DEF left
  <1>3. Held \subseteq Kept
    BY Zenon
  <1>4. [stage |-> Len(stages) + 1, mode |-> mode] \in Kept
    BY Zenon
  <1> HIDE DEF Held, Kept
  <1> left \in Seq(Kept)
    BY <1>1, <1>3
  <1> inputs' \in Seq(Kept)
    BY <1>2, <1>4
  <1>7. QED
    BY Zenon DEF Kept

\* GraphInv is inductive.
LEMMA NextKeepsTheGraph ==
    ASSUME GraphAssumption, GraphInv, [PlannerNext]_plannerVars
    PROVE  GraphInv'
  <1>1. Len(inputs) \in Nat /\ 0 \in 0 .. Len(inputs) /\ Len(inputs) \in 0 .. Len(inputs)
    <2> Len(inputs) \in Nat
      BY DEF GraphInv, GraphTypeOK
    <2> \A l \in Nat : 0 \in 0 .. l /\ l \in 0 .. l
      OBVIOUS
    <2>3. QED
      BY Zenon
  <1>2. done \in BOOLEAN
    BY Zenon DEF GraphInv, GraphTypeOK
  <1>3. \A partitions \in 1 .. MaxPartitions : partitions \in Nat \ {0}
    BY DEF GraphAssumption
  <1>4. ASSUME NEW n \in 0 .. Len(inputs), NEW partitions \in Nat \ {0}, NEW placement \in TaskPlacement,
               NEW mode \in InputMode, Push(n, partitions, placement), Placeholder(n, mode), UNCHANGED done
        PROVE  GraphInv'
    BY <1>2, <1>4, PushKeepsTheGraph, PlaceholderKeepsTheStack, Zenon DEF GraphInv, GraphTypeOK, GraphOK
  <1>5. CASE CreateDriverStage
    BY <1>1, <1>4, <1>5 DEF CreateDriverStage, TaskPlacement, InputMode
  <1>6. ASSUME NEW partitions \in 1 .. MaxPartitions, NEW n \in 0 .. Len(inputs),
               NEW mode \in {"Shuffle", "Broadcast"}, CreateShuffle(n, partitions, mode)
        PROVE  GraphInv'
    BY <1>3, <1>4, <1>6, Zenon DEF CreateShuffle, TaskPlacement, InputMode
  <1>7. ASSUME NEW partitions \in 1 .. MaxPartitions, NEW n \in 0 .. Len(inputs), CreateMergeInput(n, partitions)
        PROVE  GraphInv'
    BY <1>3, <1>4, <1>7, Zenon DEF CreateMergeInput, TaskPlacement, InputMode
  <1>8. ASSUME NEW partitions \in 1 .. MaxPartitions, PushFinalStage(partitions)
        PROVE  GraphInv'
    <2> Push(Len(inputs), partitions, "Worker") /\ inputs' = <<>> /\ done' = TRUE
      BY <1>8, Zenon DEF PushFinalStage
    <2> "Worker" \in TaskPlacement
      BY Zenon DEF TaskPlacement
    <2>3. QED
      BY <1>1, <1>3, PushKeepsTheGraph DEF GraphInv, GraphTypeOK, GraphOK
  <1>9. CASE UNCHANGED plannerVars
    BY <1>9, Zenon DEF plannerVars, GraphInv, GraphTypeOK, GraphOK, Stages
  <1>10. QED
    BY <1>5, <1>6, <1>7, <1>8, <1>9, Zenon DEF PlannerNext

\* The planner starts with the empty graph.
LEMMA InitIsAGraph == PlannerInit => GraphInv
  <1> SUFFICES ASSUME PlannerInit PROVE GraphInv
    BY Zenon
  <1> \A S : <<>> \in Seq(S)
    OBVIOUS
  <1> DOMAIN << >> = {}
    OBVIOUS
  <1>3. QED
    BY Zenon DEF PlannerInit, GraphInv, GraphTypeOK, GraphOK, Stages

\* A placeholder names a stage of the graph, and a stage reads earlier ones, in
\* every graph that create_driver_stage, create_shuffle, create_merge_input and
\* the final push put together.
THEOREM GraphTypesHold == PlannerSpec => []GraphTypeOK
  <1> GraphInv /\ [PlannerNext]_plannerVars => GraphInv'
    BY NextKeepsTheGraph, GraphAssumption, Zenon
  <1> GraphInv => GraphTypeOK
    BY Zenon DEF GraphInv
  <1>3. QED
    BY InitIsAGraph, PTL DEF PlannerSpec

\* A stage of a planned graph reads stages of the graph.
LEMMA GraphsAreSound == PlannerSpec => []GraphInv
  <1> GraphInv /\ [PlannerNext]_plannerVars => GraphInv'
    BY NextKeepsTheGraph, GraphAssumption, Zenon
  <1>2. QED
    BY InitIsAGraph, PTL DEF PlannerSpec

-----------------------------------------------------------------------------
(* The facts about finite sets, and the theorems that need them.           *)

INSTANCE FiniteSetTheorems

\* The facts about finite sets.
LEMMA SetLawsHold == SetLaws
  <1>1. LeastLaw
    <2> SUFFICES ASSUME NEW B \in SUBSET Nat, B # {}
                 PROVE  \E m \in B : \A i \in B : m <= i
      BY Zenon DEF LeastLaw
    <2> DEFINE R == OpToRel(<, Nat)
    <2>1. R = {p \in Nat \X Nat : p[1] < p[2]}
      BY Zenon DEF OpToRel
    <2>2. IsWellFoundedOn(R, Nat)
      BY NatLessThanWellFounded, Zenon
    <2> HIDE DEF R
    <2> PICK m \in B : \A i \in B : ~ (<<i, m>> \in R)
      BY <2>2, WFMin, Zenon
    <2> \A i \in B : ~ (i < m)
      BY <2>1, Zenon
    <2>5. QED
      OBVIOUS
  <1>2. CardinalityLaw
    BY FS_CardinalityType, Zenon DEF CardinalityLaw
  <1>3. EmptyLaw
    BY FS_EmptySet, Zenon DEF EmptyLaw
  <1>4. SubsetLaw
    BY FS_Subset, Zenon DEF SubsetLaw
  <1>5. RemoveLaw
    BY FS_RemoveElement, Zenon DEF RemoveLaw
  <1>6. SingletonLaw
    BY FS_Singleton, Zenon DEF SingletonLaw
  <1>7. IntervalLaw
    BY FS_Interval DEF IntervalLaw
  <1>8. PairUnionLaw
    BY FS_Union, Zenon DEF PairUnionLaw
  <1>9. UnionLaw
    BY FS_UNION, Zenon DEF UnionLaw
  <1>10. ProductLaw
    BY FS_Product, Zenon DEF ProductLaw
  <1> SurjectionLaw
    BY FS_Surjection, Zenon DEF SurjectionLaw
  <1> InjectionLaw
    BY FS_Injection, Zenon DEF InjectionLaw
  <1>13. QED
    BY <1>1, <1>2, <1>3, <1>4, <1>5, <1>6, <1>7, <1>8, <1>9, <1>10, Zenon DEF SetLaws

\* Every task of a graph that try_new accepts is in exactly one region.
THEOREM RegionsPartitionHolds == PlannerSpec => []RegionsPartitionTheTasks
  <1> GraphInv => RegionsPartitionTheTasks
    BY SetLawsHold, RegionsPartition, Zenon DEF GraphInv, RegionsPartitionTheTasks
  <1>2. QED
    BY GraphsAreSound, PTL

\* A task is in one region with every task that it reads, and no region depends
\* on another one.
THEOREM PipelinedTogetherHolds == PlannerSpec => []PipelinedTasksRunTogether
  <1> GraphInv => PipelinedTasksRunTogether
    BY SetLawsHold, RegionsArePipelined, Zenon DEF GraphInv, PipelinedTasksRunTogether
  <1>2. QED
    BY GraphsAreSound, PTL

\* The task sets of build_task_region hold each task of a region once, on its
\* side, and never two partitions of a stage.
THEOREM TaskSetsSoundHolds == PlannerSpec => []TaskSetsAreSound
  <1>1. ASSUME GraphInv, done, ~ IsRejected(stages), NEW r \in Regions(stages)
        PROVE  r \subseteq Tasks(stages)
    BY <1>1, SetLawsHold, HomeIsTheRegion, Zenon DEF GraphInv
  <1> GraphInv => TaskSetsAreSound
    BY <1>1, SetLawsHold, TaskSetsShareSlots, Zenon DEF GraphInv, TaskSetsAreSound
  <1>3. QED
    BY GraphsAreSound, PTL
=============================================================================
