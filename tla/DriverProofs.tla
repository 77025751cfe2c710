---------------------------- MODULE DriverProofs ----------------------------
(***************************************************************************)
(* The theorems about module Driver, for every set of jobs, job graph,     *)
(* number of workers and limit: the invariant of the system holds, with    *)
(* what follows from it, and each job follows JobLifecycle.                *)
(*                                                                         *)
(* The lemmas about the steps are those of DriverStepProofs.  Their        *)
(* hypothesis ActorLaws is proved first, from JobProofs and                *)
(* DriverActorProofs.                                                      *)
(***************************************************************************)
EXTENDS DriverStepProofs, DriverActorProofs, JobProofs

-----------------------------------------------------------------------------
(* The laws.                                                               *)

\* What the operations of the actor do, from what the methods of the scheduler
\* and of the task assigner do.
LEMMA ActorLawsAlwaysHold == ActorLaws
  <1>1. AssignerLaws
    BY SetLawsHold, AssignerLawsHold, Zenon
  <1>2. Laws
    BY <1>1, SetLawsHold, SchedulerLawsHold, Zenon DEF Laws
  <1>3. QED
    BY <1>2, ActorLawsHold, Zenon
-----------------------------------------------------------------------------
(* The theorems.                                                           *)

\* The actor, the workers and the network are sound at all times.
THEOREM SystemHolds == Spec => []SystemInv
  <1>1. Init => SystemInv
    BY InitSound, ActorLawsAlwaysHold, Zenon
  <1>2. SystemInv /\ [Next]_vars => SystemInv'
    <2>1. CASE Next
      BY <2>1, NextSound, ActorLawsAlwaysHold, Zenon
    <2>2. CASE UNCHANGED vars
      BY <2>2, Zenon DEF vars, SystemInv
    <2>3. QED
      BY <2>1, <2>2, Zenon
  <1>3. QED
    BY <1>1, <1>2, PTL DEF Spec

\* The state of the actor has its types, and whatever is queued, in a slot or in
\* flight is an attempt that exists (TypeOK), for every job graph and any faults.
THEOREM TypesHold == Spec => []TypeOK
  <1>1. SystemInv => TypeOK
    BY SoundIsTyped, ActorLawsAlwaysHold, Zenon
  <1>2. QED
    BY <1>1, SystemHolds, PTL

\* The task assigner and the worker pool agree, and slots are shared as TaskSlot
\* documents (SlotsAreSound).
THEOREM SlotsHold == Spec => []SlotsAreSound
  <1>1. SystemInv => SlotsAreSound
    BY SoundSlots, Zenon
  <1>2. QED
    BY <1>1, SystemHolds, PTL

\* A slot that is occupied is always about to be freed (NoSlotLeaks), whatever is
\* lost, late or repeated.
THEOREM SlotsAreFreed == Spec => []NoSlotLeaks
  <1>1. SystemInv => NoSlotLeaks
    BY SoundFreesSlots, ActorLawsAlwaysHold, Zenon
  <1>2. QED
    BY <1>1, SystemHolds, PTL

\* assign_tasks never waits for a worker that nobody starts
\* (RequestedWorkersArePending).
THEOREM RequestsArePending == Spec => []RequestedWorkersArePending
  <1>1. SystemInv => RequestedWorkersArePending
    BY ZenonT(30) DEF SystemInv, SystemSound, Good, Sound, PoolSound, Pending, RequestedWorkersArePending
  <1>2. QED
    BY <1>1, SystemHolds, PTL

\* An attempt is assigned once in its lifetime (AssignedOnce).
THEOREM AssignmentsAreFinal == Spec => AssignedOnce
  <1>1. SystemInv /\ [Next]_vars =>
            [\A k \in Key :
                driver.assigner.assigned[k] # Unassigned =>
                    driver'.assigner.assigned[k] = driver.assigner.assigned[k]]_vars
    BY NextSound, ActorLawsAlwaysHold, Zenon DEF KeepsAssigned
  <1>2. QED
    BY <1>1, SystemHolds, PTL DEF Spec, AssignedOnce

\* A worker that is stopped because it is idle has no output that anyone may still
\* read (IdleWorkersAreNotNeeded).
THEOREM IdleWorkersCanStop == Spec => IdleWorkersAreNotNeeded
  <1> DEFINE NotNeeded == \A w \in Worker, k \in Key :
                /\ IsWorkerIdle(driver.assigner, w)
                /\ driver.pool[w] = "Running" /\ driver'.pool[w] = "Completed"
                /\ w \in AssignedTo(driver.assigner, k)
                /\ driver.jobs[k[1]].state \in {"Running", "Draining"}
                => \/ k[3] # driver.jobs[k[1]].len[k[2]]
                   \/ driver.jobs[k[1]].stages[StageOf[k[2]]] = "Inactive"
                   \/ AttemptState(driver, k) \in {"Failed", "Canceled"}
  <1>1. SystemInv => NotNeeded
    BY IdleIsInactive, ActorLawsAlwaysHold, Zenon
  <1> HIDE DEF NotNeeded
  <1>2. SystemInv => [NotNeeded]_vars
    BY <1>1, Zenon
  <1>3. Spec => [][NotNeeded]_vars
    BY <1>2, SystemHolds, PTL
  <1>4. QED
    BY <1>3, Zenon DEF IdleWorkersAreNotNeeded, NotNeeded

\* From the moment a job is accepted, the driver changes it only as JobLifecycle
\* allows (JobsFollowScheduler), whatever the workers and the network do: Driver
\* implements JobLifecycle for each of its jobs.
THEOREM JobsFollowLifecycle == Spec => JobsFollowScheduler
  <1> DEFINE Follows == \A j \in Job :
                IF driver.jobs[j] = NoJob
                THEN driver'.jobs[j] = NoJob \/ (Scheduler(j)!LifecycleInit)'
                ELSE Scheduler(j)!LifecycleNext \/ driver'.jobs[j] = driver.jobs[j]
  <1>1. SystemInv /\ SystemInv' /\ [Next]_vars => [Follows]_vars
    <2> SUFFICES ASSUME SystemInv, SystemInv', Next
                 PROVE  Follows
      BY Zenon
    <2>1. Good(driver) /\ Good(driver')
      BY Zenon DEF SystemInv, SystemSound
    <2>2. JobsFollow(driver.jobs, driver'.jobs)
      BY NextFollows, ActorLawsAlwaysHold, Zenon
    <2>3. QED
      BY <2>1, <2>2, FollowsIsLifecycle, ActorLawsAlwaysHold, Zenon
  <1> HIDE DEF Follows
  <1>2. Spec => [][Follows]_vars
    BY <1>1, SystemHolds, PTL DEF Spec
  <1>3. QED
    BY <1>2, Zenon DEF JobsFollowScheduler, Follows
=============================================================================
