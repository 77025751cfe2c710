---------------------------- MODULE JobScheduler ----------------------------
(***************************************************************************)
(* The job scheduler of the driver (driver/job_scheduler), for one job.    *)
(*                                                                         *)
(* The scheduler is a passive component: the driver actor calls it from    *)
(* its message handlers and carries out the actions it returns.  The       *)
(* methods are operators from the descriptor of the job to the descriptor  *)
(* or to the actions they return.  Module JobLifecycle runs them in an     *)
(* environment that does whatever a driver may do with a job, and module   *)
(* Driver in the real one.                                                 *)
(***************************************************************************)
EXTENDS Integers

CONSTANTS
    Task,          \* the tasks (stage, partition) of the job graph
    Stage,         \* its stages
    StageOf,       \* the stage of each task
    Consumers,     \* the stages that consume the output of each stage
    Region,        \* the task regions of the job topology
    RegionOf,      \* the region of each task
    Dependencies,  \* the regions each region waits for
    MaxAttempts    \* task_max_attempts

TaskState == {"Created", "Scheduled", "Running", "Succeeded", "Failed", "Canceled"}
JobState == {"Running", "Draining", "Succeeded", "Failed", "Canceled"}
StageState == {"Active", "Inactive"}
RegionState == {"Running", "Succeeded", "Failed"}

\* A task key is <<task, attempt>>; attempts count from 1 here and from 0 in
\* the code.  The vector of attempts of a task t is its length len[t] and the
\* states of its elements, attempts[<<t, 1>>] to attempts[<<t, len[t]>>].  The
\* keys in `fetched` are those of the attempts with job_output_fetched set.
KeysUpTo(len) == UNION {{t} \X (1 .. len[t]) : t \in Task}

JobDescriptor(len) ==
    [state : JobState,
     stages : [Stage -> StageState],
     len : {len},
     attempts : [KeysUpTo(len) -> TaskState],
     fetched : SUBSET KeysUpTo(len),
     regions : [Region -> RegionState]]

ASSUME JobGraphAssumption ==
    /\ StageOf \in [Task -> Stage]
    /\ Consumers \in [Stage -> SUBSET Stage]
    /\ RegionOf \in [Task -> Region]
    /\ \A r \in Region : \E t \in Task : RegionOf[t] = r
    /\ Dependencies \in [Region -> SUBSET Region]
    /\ MaxAttempts \in Nat

-----------------------------------------------------------------------------
(* Task attempts.                                                          *)

Terminal == {"Succeeded", "Failed", "Canceled"}

\* Mutant of Consolidate: a late report overrides the outcome of an attempt.
ConsolidateRankOnly(s, next) ==
    IF \/ s = "Scheduled" /\ next = "Created"
       \/ s = "Running" /\ next \in {"Created", "Scheduled"}
    THEN s
    ELSE next

Consolidate(s, next) ==
    IF \/ s \in Terminal
       \/ s = "Scheduled" /\ next = "Created"
       \/ s = "Running" /\ next \in {"Created", "Scheduled"}
    THEN s
    ELSE next

Keys(j) == KeysUpTo(j.len)

LatestKey(j, t) == <<t, j.len[t]>>

\* attempts.last() is one of the states S.
LatestIn(j, t, S) == j.len[t] > 0 /\ j.attempts[LatestKey(j, t)] \in S

TasksOf(r) == {t \in Task : RegionOf[t] = r}

FinalTask == {t \in Task : Consumers[StageOf[t]] = {}}

\* update_task for each of the keys; a key that is not an attempt is ignored.
UpdateTasks(j, keys, s) ==
    [j EXCEPT !.attempts =
        [k \in Keys(j) |-> IF k \in keys THEN Consolidate(j.attempts[k], s) ELSE j.attempts[k]]]
-----------------------------------------------------------------------------
(* refresh_job and the methods it calls.                                   *)

CanceledKeys(j) ==
    {k \in Keys(j) :
        /\ j.attempts[k] \notin Terminal
        /\ \E u \in TasksOf(RegionOf[k[1]]) : LatestIn(j, u, {"Failed"})}

CascadeCancelTaskAttempts(j) ==
    LET canceled == CanceledKeys(j)
    IN  [j EXCEPT !.attempts =
            [k \in Keys(j) |-> IF k \in canceled THEN "Canceled" ELSE j.attempts[k]]]

\* Mutants of ExtendedKeys: the index of the attempt is off by one; an attempt
\* that ends before it is seen Running is missed; an attempt is fetched as
\* soon as it is launched.
ExtendedKeysOffByOne(j) ==
    {<<t, j.len[t] + 1>> : t \in {u \in FinalTask : LatestIn(j, u, {"Running", "Succeeded"})}}
        \ j.fetched

ExtendedKeysRunningOnly(j) ==
    {LatestKey(j, t) : t \in {u \in FinalTask : LatestIn(j, u, {"Running"})}} \ j.fetched

ExtendedKeysScheduled(j) ==
    {LatestKey(j, t) :
        t \in {u \in FinalTask : LatestIn(j, u, {"Scheduled", "Running", "Succeeded"})}}
        \ j.fetched

ExtendedKeys(j) ==
    {LatestKey(j, t) : t \in {u \in FinalTask : LatestIn(j, u, {"Running", "Succeeded"})}}
        \ j.fetched

ExtendJobOutput(j) == [j EXCEPT !.fetched = @ \cup ExtendedKeys(j)]

CleanedStages(j) ==
    {s \in Stage :
        /\ j.stages[s] = "Active"
        /\ Consumers[s] # {}
        /\ \A t \in Task : StageOf[t] \in Consumers[s] => LatestIn(j, t, {"Succeeded"})}

CleanUpJobByStage(j) ==
    LET cleaned == CleanedStages(j)
    IN  [j EXCEPT !.stages = [s \in Stage |-> IF s \in cleaned THEN "Inactive" ELSE @[s]]]

\* Mutant of Exhausted: the limit is compared with the wrong relation.
ExhaustedLate(j, t) ==
    LatestIn(j, t, {"Failed", "Canceled"}) /\ j.len[t] > MaxAttempts

Exhausted(j, t) ==
    LatestIn(j, t, {"Failed", "Canceled"}) /\ j.len[t] >= MaxAttempts

UpdateTaskRegions(j) ==
    [j EXCEPT !.regions =
        [r \in Region |->
            IF \E t \in TasksOf(r) : Exhausted(j, t) THEN "Failed"
            ELSE IF \A t \in TasksOf(r) : LatestIn(j, t, {"Succeeded"}) THEN "Succeeded"
            ELSE "Running"]]

\* Mutant of ScheduledRegions: a region is scheduled when one of its tasks has
\* no live attempt.
ScheduledRegionsAnyIdle(j) ==
    {r \in Region :
        /\ j.regions[r] # "Succeeded"
        /\ \A d \in Dependencies[r] : j.regions[d] = "Succeeded"
        /\ \E t \in TasksOf(r) : ~ LatestIn(j, t, TaskState \ Terminal)}

\* The regions that get a new attempt of every one of their tasks.
ScheduledRegions(j) ==
    {r \in Region :
        /\ j.regions[r] # "Succeeded"
        /\ \A d \in Dependencies[r] : j.regions[d] = "Succeeded"
        /\ \A t \in TasksOf(r) : ~ LatestIn(j, t, TaskState \ Terminal)}

ScheduleTaskRegions(j) ==
    LET scheduled == ScheduledRegions(j)
        len == [t \in Task |-> IF RegionOf[t] \in scheduled THEN j.len[t] + 1 ELSE j.len[t]]
    IN  [j EXCEPT !.len = len,
                  !.attempts = [k \in KeysUpTo(len) |->
                                    IF k \in Keys(j) THEN j.attempts[k] ELSE "Created"]]

Observed(j) ==
    UpdateTaskRegions(CleanUpJobByStage(ExtendJobOutput(CascadeCancelTaskAttempts(j))))

RefreshRunning(j) ==
    IF \E r \in Region : j.regions[r] = "Failed" THEN [j EXCEPT !.state = "Failed"]
    ELSE IF \A r \in Region : j.regions[r] = "Succeeded" THEN [j EXCEPT !.state = "Draining"]
    ELSE ScheduleTaskRegions(j)

\* Mutant of RefreshJob: the state of the job is not looked at.
RefreshJobAlways(j) == RefreshRunning(Observed(j))

RefreshJob(j) == IF j.state = "Running" THEN RefreshRunning(Observed(j)) ELSE j
-----------------------------------------------------------------------------
(* Clean-up when the job output has ended, and the stop of the driver.     *)

CleanUpJob(j) ==
    [j EXCEPT !.stages = [s \in Stage |-> "Inactive"],
              !.state = IF j.state = "Draining" THEN "Succeeded" ELSE "Canceled"]

StopJob(j) ==
    [j EXCEPT !.attempts = [k \in Keys(j) |-> IF @[k] \in Terminal THEN @[k] ELSE "Canceled"],
              !.stages = [s \in Stage |-> "Inactive"],
              !.state = IF @ \in {"Running", "Draining"} THEN "Canceled" ELSE @]

AcceptJob ==
    [state |-> "Running",
     stages |-> [s \in Stage |-> "Active"],
     len |-> [t \in Task |-> 0],
     attempts |-> [k \in {} |-> "Created"],
     fetched |-> {},
     regions |-> [r \in Region |-> "Running"]]
=============================================================================
