---------------------------- MODULE JobLifecycle ----------------------------
(***************************************************************************)
(* What may happen to a job from the moment it is accepted: the methods of *)
(* JobScheduler, called as the handlers of the driver actor call them, in  *)
(* an environment that may launch any Created attempt and report any       *)
(* status a worker can report.  Module Driver supplies the real            *)
(* environment and implements this specification for each of its jobs.     *)
(***************************************************************************)
EXTENDS JobScheduler

VARIABLE descriptor       \* the JobDescriptor
-----------------------------------------------------------------------------
(* The handlers of the driver actor that call the scheduler.  Each of them *)
(* ends with run_tasks, which launches some of the Created attempts.       *)

CreatedKeys(j) == {k \in Keys(j) : j.attempts[k] = "Created"}

LaunchTasks(j) ==
    \E keys \in SUBSET CreatedKeys(j) : descriptor' = UpdateTasks(j, keys, "Scheduled")

\* handle_execute_job: the job is accepted and refreshed at once.
LifecycleInit ==
    \E keys \in SUBSET CreatedKeys(RefreshJob(AcceptJob)) :
        descriptor = UpdateTasks(RefreshJob(AcceptJob), keys, "Scheduled")

\* handle_register_worker launches what the new slots allow.
WorkerRegistered == LaunchTasks(descriptor)

\* handle_update_task, by the status reported.  Only an attempt that was
\* launched is reported Running or Succeeded.
HandleTaskRunning(k) ==
    /\ descriptor.attempts[k] # "Created"
    /\ descriptor' = RefreshJob(UpdateTasks(descriptor, {k}, "Running"))

HandleTaskSucceeded(k) ==
    /\ descriptor.attempts[k] # "Created"
    /\ LaunchTasks(RefreshJob(UpdateTasks(descriptor, {k}, "Succeeded")))

HandleTaskFailed(k) ==
    LaunchTasks(RefreshJob(UpdateTasks(descriptor, {k}, "Failed")))

\* A worker reports Canceled for an attempt that the driver has canceled, in
\* cascade_cancel_task_attempts or in clean_up_job.  There is no refresh.
HandleTaskCanceled(k) ==
    /\ descriptor.attempts[k] = "Canceled" \/ descriptor.state \in {"Succeeded", "Canceled"}
    /\ descriptor' = UpdateTasks(descriptor, {k}, "Canceled")

\* handle_probe_lost_worker fails the attempts in the slots of the worker; to
\* fail one that has ended changes nothing.
WorkerLost(keys) ==
    LaunchTasks(RefreshJob(UpdateTasks(descriptor, keys, "Failed")))

\* handle_clean_up_job: the output of a job ends once.
OutputEnded ==
    /\ descriptor.state \notin {"Succeeded", "Canceled"}
    /\ descriptor' = CleanUpJob(descriptor)

\* The stop of the driver actor.
Stop == descriptor' = StopJob(descriptor)

LifecycleNext ==
    \/ WorkerRegistered
    \/ \E k \in Keys(descriptor) :
        \/ HandleTaskRunning(k)
        \/ HandleTaskSucceeded(k)
        \/ HandleTaskFailed(k)
        \/ HandleTaskCanceled(k)
    \/ \E keys \in SUBSET {k \in Keys(descriptor) : descriptor.attempts[k] \notin Terminal} :
        WorkerLost(keys)
    \/ OutputEnded
    \/ Stop

LifecycleSpec == LifecycleInit /\ [][LifecycleNext]_descriptor
-----------------------------------------------------------------------------
(* Properties.                                                             *)

\* The descriptor has the type of the Rust structs.
DescriptorTypeOK == descriptor.len \in [Task -> Nat] /\ descriptor \in JobDescriptor(descriptor.len)

\* A region is retried as a whole (schedule_task_regions pushes an attempt to
\* every task of it), so its tasks always have the same number of attempts,
\* and no task is attempted more often than task_max_attempts allows.  The
\* first attempt is always made: the limit is only looked at after a failure.
RetryInLockstep ==
    \A t \in Task :
        /\ \A u \in TasksOf(RegionOf[t]) : descriptor.len[u] = descriptor.len[t]
        /\ descriptor.len[t] <= IF MaxAttempts = 0 THEN 1 ELSE MaxAttempts

\* When a region has been retried, every attempt of an earlier round has ended
\* as far as the scheduler knows: there is one live attempt of a task at most,
\* and no task of a round overlaps with a task of another round.
OneLiveRound ==
    \A k \in Keys(descriptor) : k[2] < descriptor.len[k[1]] => descriptor.attempts[k] \in Terminal

\* A job drains or succeeds only when the latest attempt of every task has
\* succeeded, and then every partition of the final stage has been given to
\* the job output: refresh_job extends the output before it drops the output
\* manager, in the same call.
SucceededJobIsComplete ==
    descriptor.state \in {"Draining", "Succeeded"} =>
        \A t \in Task :
            /\ LatestIn(descriptor, t, {"Succeeded"})
            /\ t \in FinalTask => LatestKey(descriptor, t) \in descriptor.fetched

\* Only attempts of the final stage that were launched reach the job output,
\* at most one attempt of a partition is live there, and it is the latest.
OutputIsOfFinalAttempts ==
    \A k \in descriptor.fetched :
        /\ k[1] \in FinalTask
        /\ descriptor.attempts[k] \notin {"Created", "Scheduled"}
        /\ descriptor.attempts[k] = "Running" => k = LatestKey(descriptor, k[1])

\* What a step may never do: change the state of an attempt that has ended
\* (late, duplicated and contradicting reports are absorbed by consolidate),
\* forget an attempt, or take an attempt out of the job output.
EndedAttemptsAreFinal ==
    [][\A k \in Keys(descriptor) :
        /\ k \in Keys(descriptor')
        /\ descriptor.attempts[k] \in Terminal => descriptor'.attempts[k] = descriptor.attempts[k]
        /\ k \in descriptor.fetched => k \in descriptor'.fetched]_descriptor

\* What a step may never do: attempt again a region that has succeeded, or
\* any region of a job that is no longer running.
FinishedWorkIsNotRetried ==
    [][\A t \in Task :
        descriptor.regions[RegionOf[t]] = "Succeeded" \/ descriptor.state # "Running" =>
            descriptor'.len[t] = descriptor.len[t]]_descriptor
=============================================================================
