------------------------ MODULE JobSchedulerInvariant ------------------------
(***************************************************************************)
(* The invariant of a job descriptor, and the relations between the        *)
(* descriptors before and after a method of the scheduler, in the terms of *)
(* which JobProofs states what the methods do.                             *)
(*                                                                         *)
(* A handler of the driver chains several methods, so they are stated of   *)
(* descriptors and not of a variable.  Each method keeps the invariant Inv *)
(* and evolves the descriptor by Evolves, and Evolves is transitive; a     *)
(* handler then does both by composition.                                  *)
(***************************************************************************)
EXTENDS JobScheduler

DescriptorOK(j) == j.len \in [Task -> Nat] /\ j \in JobDescriptor(j.len)

AttemptLimit == IF MaxAttempts = 0 THEN 1 ELSE MaxAttempts

Lockstep(j) ==
    \A t \in Task : \A u \in TasksOf(RegionOf[t]) : j.len[u] = j.len[t]

Bounded(j) == \A t \in Task : j.len[t] <= AttemptLimit

EarlierEnded(j) ==
    \A k \in Keys(j) : k[2] < j.len[k[1]] => j.attempts[k] \in Terminal

\* A region recorded as succeeded has succeeded.  The invariants need it: the
\* recorded state is what keeps schedule_task_regions from a retry.
RegionsSound(j) ==
    \A t \in Task : j.regions[RegionOf[t]] = "Succeeded" => LatestIn(j, t, {"Succeeded"})

Complete(j) ==
    j.state \in {"Draining", "Succeeded"} =>
        \A t \in Task :
            /\ LatestIn(j, t, {"Succeeded"})
            /\ t \in FinalTask => LatestKey(j, t) \in j.fetched

OutputSound(j) ==
    \A k \in j.fetched : k[1] \in FinalTask /\ j.attempts[k] \notin {"Created", "Scheduled"}

Inv(j) ==
    /\ DescriptorOK(j)
    /\ Lockstep(j)
    /\ Bounded(j)
    /\ EarlierEnded(j)
    /\ RegionsSound(j)
    /\ Complete(j)
    /\ OutputSound(j)

\* What every method may do to the descriptor.
Evolves(j, n) ==
    /\ \A k \in Keys(j) :
        /\ k \in Keys(n)
        /\ j.attempts[k] \in Terminal => n.attempts[k] = j.attempts[k]
        /\ k \in j.fetched => k \in n.fetched
    /\ \A r \in Region : j.regions[r] = "Succeeded" => n.regions[r] = "Succeeded"
    /\ j.state # "Running" => n.state # "Running"
    /\ \A t \in Task :
        j.regions[RegionOf[t]] = "Succeeded" \/ j.state # "Running" => n.len[t] = j.len[t]

\* What is known of an attempt, of a stage or of the end of a job stays true.
Persists(j, n) ==
    /\ \A k \in Keys(j) :
        /\ k \in Keys(n)
        /\ j.attempts[k] # "Created" => n.attempts[k] # "Created"
        /\ j.attempts[k] = "Canceled" => n.attempts[k] = "Canceled"
    /\ \A s \in Stage : j.stages[s] = "Inactive" => n.stages[s] = "Inactive"
    /\ j.state \in {"Succeeded", "Canceled"} => n.state = j.state

\* What run_tasks may do to a job.
Launches(j, n) ==
    \E keys \in SUBSET {k \in Keys(j) : j.attempts[k] = "Created"} :
        n = UpdateTasks(j, keys, "Scheduled")

Forward(j, n) ==
    /\ DescriptorOK(j) /\ DescriptorOK(n)
    /\ n.state = j.state /\ n.stages = j.stages /\ n.len = j.len
    /\ n.fetched = j.fetched /\ n.regions = j.regions
    /\ \A k \in Keys(j) :
        \/ n.attempts[k] = j.attempts[k]
        \/ j.attempts[k] = "Created" /\ n.attempts[k] = "Scheduled"
-----------------------------------------------------------------------------
(* The methods of the scheduler, for the proofs about the driver.          *)

AcceptLaw == Inv(AcceptJob)
UpdateLaw ==
    \A j : Inv(j) => \A keys : \A s \in TaskState :
        LET n == UpdateTasks(j, keys, s)
        IN  /\ Inv(n) /\ Persists(j, n)
            /\ n.state = j.state /\ n.len = j.len /\ Keys(n) = Keys(j)
            /\ s # "Created" => \A k \in Keys(j) : k \in keys => n.attempts[k] # "Created"
UpdateNoneLaw == \A j : Inv(j) => \A s : UpdateTasks(j, {}, s) = j
FailLiveLaw ==
    \A j, keys : \A live \in SUBSET keys :
        (\A k \in keys \cap Keys(j) : k \in live \/ j.attempts[k] \in Terminal) =>
            UpdateTasks(j, keys, "Failed") = UpdateTasks(j, live, "Failed")
RefreshLaw ==
    \A j : Inv(j) =>
        LET n == RefreshJob(j)
        IN  /\ Inv(n) /\ Persists(j, n)
            /\ j.state = "Running" =>
                \A k \in CanceledKeys(j) : k \in Keys(j) /\ n.attempts[k] = "Canceled"
            /\ j.state # "Running" => n = j
CleanUpLaw == \A j : Inv(j) => Inv(CleanUpJob(j))
CleanUpEndsLaw ==
    \A j : Inv(j) /\ j.state \notin {"Succeeded", "Canceled"} =>
        LET n == CleanUpJob(j)
        IN  /\ Persists(j, n) /\ n.len = j.len
            /\ n.state \in {"Succeeded", "Canceled"}
            /\ \A s \in Stage : n.stages[s] = "Inactive"
LaunchLaw == \A j, n : Inv(j) /\ Inv(n) => (Forward(j, n) <=> Launches(j, n))
ForwardLaw == \A i, j, n : Forward(i, j) /\ Forward(j, n) => Forward(i, n)
ScheduleLaw == \A j : Inv(j) => \A keys : Forward(j, UpdateTasks(j, keys, "Scheduled"))
RefreshForwardLaw ==
    \A j, n : Inv(j) /\ Inv(n) /\ Forward(j, n) => Forward(RefreshJob(j), RefreshJob(n))

SchedulerLaws ==
    /\ AcceptLaw /\ UpdateLaw /\ UpdateNoneLaw /\ FailLiveLaw /\ RefreshLaw
    /\ CleanUpLaw /\ CleanUpEndsLaw
    /\ LaunchLaw /\ ForwardLaw /\ ScheduleLaw /\ RefreshForwardLaw
=============================================================================
