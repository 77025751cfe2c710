# Zelox in TLA+

TLA+ models of the parts of Zelox that are hard to test: where several actors,
processes, writers or retries meet, and where a crash falls between two writes.

* **Distributed job execution** (`crates/zelox-execution`): how a job graph is cut into
  task regions, how the driver schedules and retries them on workers that come, go and
  fail, and what it promises about the outcome of a job.
* **Streaming queries**: the micro-batch and realtime drivers with their checkpoints,
  event-time windows and file sinks, shown to implement an exactly-once specification.
* **The operation executor of Spark Connect**: broken streams, reattach, release and
  interrupt of an operation.
* **Delta Lake transactions**: concurrent writers in the optimistic commit loop, with
  checkpoints, clean-up and compaction of the log, shown to implement one history.

Paths below are relative to `src/crates/` unless they start with `src/`.

## The system and its inventory

A Spark Connect request becomes an *operation*: its plan is run by a *job runner*, and
an executor sends the result to the client. In a cluster the runner hands the plan to the
**driver actor**, which owns the **job scheduler** (attempts of tasks, regions, the
outcome), the **task assigner** (queue, slots, requested workers) and the **worker
pool** (workers and their probes). **Workers** run task attempts and report their status.
A streaming query is run by a task of its own, batch by batch or continuously, and keeps
what a restart needs in a **checkpoint store**. Tables are directories of files: a
**commit log** of a streaming sink, or the **Delta log**, says which files count.

| Part | Sources | Modules |
|---|---|---|
| Job scheduler | `zelox-execution/src/driver/job_scheduler/{core,state}.rs` | `JobScheduler`; `JobLifecycle`, what may happen to one job |
| Job graph and topology | `zelox-execution/src/job_graph/`, `driver/job_scheduler/topology.rs` | `JobTopology` |
| Task assigner | `zelox-execution/src/driver/task_assigner/` | `TaskAssigner` |
| Driver actor, worker pool, workers | `zelox-execution/src/{driver,worker,task_runner}/` | `DriverActor`, the state of the actor and its operations; `Driver`, which composes the parts above |
| Streaming query, micro-batch | `zelox-spark-connect/src/streaming.rs`, `zelox-data-source/src/formats/file_stream.rs` | `MicroBatch` |
| Streaming query, realtime | `zelox-data-source/src/{streaming_decode,formats/kafka/reader}.rs`, `zelox-physical-plan/src/streaming/{barrier_align,exchange}.rs` | `Realtime` |
| Watermarks and windows | `zelox-physical-plan/src/streaming/{watermark,window_accum,state_io}.rs` | `WindowAccum`, used by both |
| Streaming commit log | `zelox-data-source/src/streaming_sink_log.rs` | `SinkLog`, used by both |
| What a checkpointed query promises | | `ExactlyOnce`, abstract |
| Operation executor | `zelox-spark-connect/src/{executor,session,server}.rs`, `service/plan_executor.rs` | `Executor` |
| Delta log | `zelox-delta-lake/src/delta_log/`, `kernel/checkpoints.rs`, `storage/` | `DeltaLog` |
| Delta transactions | `zelox-delta-lake/src/kernel/transaction/`, `physical_plan/commit_exec.rs` | `DeltaCommit` |
| What concurrent writers promise | | `DeltaTable`, abstract |
| Proofs | | `JobProofs` (scheduler, topology, assigner), `DriverActorProofs`, `DriverStepProofs`, `DriverProofs`, `MicroBatchProofs`, `RealtimeProofs`, `ExecutorProofs`, `DeltaCommitProofs`; their invariants in `JobSchedulerInvariant`, `TaskAssignerInvariant`, `DriverActorInvariant` and in the modules themselves |

`MC*` modules hold the constants of the instances. `PROJECT.json` has the complete list
of parts with reasons, the source lines behind every definition, and the hazards.

## Modules

### JobScheduler and JobLifecycle

`JobScheduler` has the methods of the scheduler as operators on the `JobDescriptor`:
`len[t]` and `attempts[<<t, n>>]` are the vector of attempts of task `t`, `fetched` the
attempts with `job_output_fetched`. `RefreshJob` runs them in the order of
`refresh_job`.

`JobLifecycle` is the life of one job, `descriptor`. Its actions are the handlers of the
driver that call the scheduler, in an environment that is as free as it can be: any
`Created` attempt may be launched, a report may come at any time and in any order.
`Driver` is shown to implement it for each of its jobs.

### JobTopology

The planner as a machine that pushes stages: the placeholders it leaves in the plan
are a stack, and every stage takes some of them as its inputs. Its states with `done`
are the job graphs the planner can build. On these, `Regions` is `JobTopology::try_new`
and `TaskSets` is `build_task_region`. Every output is pipelined and all stages are in
one slot sharing group, as the planner writes nothing else.

### TaskAssigner

Operators on the record of the assigner, one per method. The two placement policies
are abstracted to *any* injective placement of the task sets on vacant slots. What
matters is kept: regions are taken from the head of the queue as long as they fit,
nothing is assigned while workers are requested, and an empty task set takes a slot too.

### Driver

The actor, its workers and the network. Each handler is one step, with everything
that it calls: the refresh of the job, the actions that result, `run_tasks` and
`scale_up_workers`. What a handler spawns is not ordered, so the mailbox, the calls and
the reports are sets. Timers are not clocked: a probe may fire any time after its
cause. `Trouble` selects what may go wrong in an instance, and `MaxFaults` bounds how
often.

| State | Code |
|---|---|
| `driver.jobs` | `JobScheduler::jobs`, a descriptor of `JobScheduler` for each job |
| `driver.assigner`, `driver.pool` | `TaskAssigner`, the states of `WorkerPool::workers` |
| `driver.idleProbes`, `driver.taskProbes` | delayed `ProbeIdleWorker` and `ProbePendingTask` events |
| `driver.sequences` | `task_sequences` |
| `driver.mail`, `driver.calls` | `UpdateTask` events sent to self, spawned gRPC calls |
| `process`, `running`, `reports` | worker processes, `TaskRunner::signals`, status reports in flight |

`MCDriver` computes the constants from a job graph with the operators of
`JobTopology`, so that the driver runs the regions and task sets that the code would
build.

### WindowAccum and SinkLog

Operators, no state of their own. `WindowAccum` is the watermark generator and the
window operator in append mode: an aggregate is the bag of rows that went into it, so
that a partial state, a spilled chunk, a snapshot and an output are all bags and one can
say how often a row counts. Spilling over the budget, the throttle of the Final merge,
lateness, snapshot and restore are kept. `SinkLog` is `_spark_metadata`: a batch of the
log lists its files, every `CompactInterval`-th one the whole live set.

### MicroBatch

A query from a file source to a file sink that copies its rows or aggregates them over
windows. Each step reads or writes one object: the staged record (`MakeStream`), the data
files, the log (`CommitLog`), the marker (`PutOffsets`), and the put and the delete of
each promotion (`CommitSource` to `DeleteStagedState`). The process may stop before any
step in `StopPoints`, and a write in `StorageFaults` may fail, where the code only warns
or does not look at the result.

| State | Code |
|---|---|
| `ck.staged`, `ck.committed` | `sources/0/staged` and `committed` |
| `ck.stagedState`, `ck.state`, `ck.chunks` | the staged and committed operator state, spilled chunks |
| `ck.offsets` | the markers of `offsets/` |
| `run` | the runner task: its place in the batch, the batch it works on, the operators |
| `store`, `log` | data files by batch directory, `_spark_metadata` |

### Realtime

One Kafka reader for each partition with a bounded channel, and a sink that commits an
epoch when its barriers have come. Three pipelines: windows behind
`StreamBarrierAlignExec` (`align`), windows behind an output of the N-to-M exchange
(`merge`), and one sink for each partition (`parallel`), the last of which to leave its
marker commits. The readers are tasks of their own; funnel, window and sink are one task
that pulls. A crash forgets everything but `ck`, `store` and `log`. `PutFaults` are the
objects of the checkpoint whose put may fail unnoticed: staged offsets, the number of
partitions, the state of an epoch.

### ExactlyOnce

Each row is absent, arrived, late or delivered, and only ever goes forward. The
refinement mapping of `MicroBatch` and `Realtime` calls a row *delivered* when it is
behind the recovery line (a restart will not read it again) and counts exactly once, in a
visible file or in the state a restart restores. A step that settled a row without its
effect, took an effect back or doubled it is not a step of `ExactlyOnce`.

### Executor

One reattachable operation: `state` is `ExecutorState`, `context` the
`ExecutorTaskContext` with its buffer, `task` the spawned task with its place in
`run_internal`, `channel` the mpsc channel and the transport behind it, `requests` the
handlers in progress. A handler is cut where it gives up the lock or awaits:
`pause_if_running` notifies in one step (`PauseIfRunning`) and waits in another
(`Paused`). An executor that neither the session nor a handler holds is dropped, and its
notifier with it, which stops the task as a notification does (`LetGo`). Client and
transport are external.

### DeltaLog and DeltaCommit

`DeltaLog` is the `_delta_log` directory as a value: commits, checkpoints, the
`_last_checkpoint` hint, compactions, and what a reader resolves from them
(`Segment`, `LoadState`, `ScanFiles`). A full load starts its replay at the first commit
that no compaction covers (`StartCommitVersion`); a scan replays the whole segment.
`dir.log` is all that was ever committed and
`dir.commits` the commit files that still exist, so that `Version` is what a version
*is* and `LoadState` what a reader *gets*.

`DeltaCommit` has writers that create, append, overwrite, rewrite (DELETE, MERGE) and
alter a table. Each step is one listing, one load or one put: `Plan`, `Scan`,
`LoadBase`, then `List`, `Check`, `Put` of the commit loop, then `Checkpoint`, `Hint`,
`CleanUp` and `Compact`. A writer that takes no more steps has crashed. A put whose
answer is lost fails the writer or, by the retry of the store client, meets its own
commit. A header is read from the checksum file, exactly, or replayed.

`DeltaTable` is what they implement: one history that only grows, in which an overwrite
removes exactly the live files, a rewrite removes live files only, rows and properties
are written under the header they were planned for, and a writer that reports a commit
has made one.

## Runs

| Run | Question | Instance |
|---|---|---|
| `scheduler_shuffle` | Retries in lockstep, no overlapping rounds, complete success, sound output, final outcomes, no needless retry | two stages, three tasks in one region, 2 attempts |
| `topology` | Regions partition the tasks, pipelined tasks run together, task sets respect slot sharing | all planner graphs of at most 4 stages and 3 partitions |
| `driver_faults` | No slot leaks, requested workers are pending, no attempt assigned twice, refinement of `JobLifecycle`, every job ends | one task, 2 attempts, all nine kinds of trouble |
| `driver_jobs` | Assigner and pool agree; slots of workers and of the driver are not shared between jobs and do not leak | two jobs, each a task on the driver and one on a worker; one slot, an initial worker that may be lost |
| `driver_survives` | Enough attempts mean success; an idle stop never takes away output that is needed | two stages; lost call, resent report, lost, late and idle workers |
| `microbatch` | No row is seen twice, refinement of `ExactlyOnce`, every file is processed | three files, two windows, compaction every second batch, two stops or faults, both queries |
| `realtime` | The same for epochs; the state of the committed epoch is kept; barriers are committed | two partitions, three rows, three epochs, all pipelines, one crash of `align` |
| `realtime_merge` | Is the state of an epoch a consistent cut behind the exchange? No | `merge`, no crash |
| `executor` | Batches once and in order, an interrupt stops the task for good, refusals have a reason, every client ends | two batches, one break, three reattaches, a release, a heartbeat, one of four troubles |
| `delta_commit` | The last version can be loaded exactly, timestamps increase, refinement of `DeltaTable` | three writers on three directories, one retry, one lost answer, checkpoint and compaction every 2nd version |
| `delta_compacted` | The same, if a compaction may start right after a checkpoint? No | checkpoint every 3rd, compaction every 2nd version |
| `delta_history` | Can every version whose commits exist be loaded? No | three writers on a table of two versions |

Deadlock is not checked in the `Driver`, `Executor`, streaming and Delta runs: the
driver is quiescent when its jobs have ended, an operation and a writer end, and the
streaming models stop at their bounds.

**Bounds.**
*Driver*: two attempts are enough for a first round, a retry and the limit. One fault of
the network or of a process, with any number of the uncounted troubles, reaches every
error path of the handlers; combinations of two such faults are not explored. `Worker`
bounds the workers *ever* started: a step that would need more is not explored
(`WorkersSuffice`). In the two liveness runs this never blocks (TLC was run with an
assertion in its place): `WorkerMaxCount` is 1 and one fault can take one worker. Without
a limit (`WorkerMaxCount` = 0) every retry may ask for further workers; that case is
covered by the proofs only.
*Streaming*: three rows in two windows give a window that closes, one that stays open and
a row that may come late; a compaction interval of 2 makes a compaction, a plain batch and
a repeated compaction; a budget of one row makes the window spill; `MaxTroubles` = 2 lets
the restart fail as well. `MaxEpoch` = 2 covers the first epoch, a later one and the
deletion of state two epochs back.
*Executor*: a buffer of 3 with one response in the channel and one on the wire is to this
instance what 128 is to the program: larger than what can be under way.
With two breaks instead of one `InterruptsStopTheTask` holds as well, and there it needs
the dropped notifier.
*Delta*: three writers make a winner, a loser that retries and one that comes in
between; the directories are an empty one, one whose only file is removed, and one with
a checkpoint and a clean-up behind it. `Clock` is one value, so that every commit is
made at the same instant and only the rule orders them.

**Fairness.**
*Driver*: the mailbox and the timers of the actor are served (tokio runs a task that is
ready, and the actor loop takes the next message). A call or a report arrives or fails
(gRPC reports an error, `retry.rs` gives up). A task that runs ends. A worker that is
started registers or is found late, and a worker that is down is found lost (its
heartbeats stop). The client reads a job output that has ended to its end. There is no
fairness on faults, on new jobs or on cancellation.
*MicroBatch*, *Realtime*: the runner, or some task of the process, goes on while it can
(tokio), and a stopped process is started again. None on stops, faults, arrivals, readers
or ticks.
*Executor*: the tasks and handlers of the server, the transport and the reading and
reattaching of the client go on. None on breaks, drops, interrupts and releases.
Each is weak fairness; where `ENABLED` is a simple state predicate it is written out,
because TLC evaluates `ENABLED` of these actions slowly.

## What the models show about the code

### Violated properties

* `realtime_merge`: `merge_output_subchannels` (`zelox-physical-plan/src/streaming/exchange.rs:814`)
  counts barriers but goes on forwarding the rows of an input whose barrier has come. The
  snapshot of a keyed window at epoch *e* has rows from behind the offsets of *e*; after a
  restart they are read and counted again. `StreamBarrierAlignExec` blocks such an input.
* `delta_compacted`: after a checkpoint `load_replayed_table_state`
  (`zelox-delta-lake/src/delta_log/replay.rs:106-118`) starts its replay at the first
  commit that no compaction covers, and looks at the compactions only if there is no such
  commit. With a checkpoint of version 3, a compaction of 4 and 5 and commit 6 it starts at
  6: the files and the header of 4 and 5 are lost, though the contiguity check has passed.
  `load_replayed_table_header` does the same. `checkpoints.rs:1038` says that compacted
  files "replace ranges of individual commit files during replay". Scans replay the whole
  segment and are exact.
* `delta_history`: `resolve_for_full_state` (`zelox-delta-lake/src/delta_log/segment.rs:226`)
  lists the log from `min(hint, version) - 1`. A version below the hint is then loaded
  without the commits before it, and the contiguity check refuses it although every commit
  file exists. The replay in the plan of a scan has the same offset and no such check.

### Conditions of the passing runs

The passing runs leave out what the code does not survive. Each of these was seen as a
counterexample with the constant in question set the other way.

* `StopPoints` leaves out `"source put"`, and `"source promoted"` for windows.
  `CheckpointStore::promote` is a put and a delete: a stop between them leaves a staged
  record with the number of the committed batch, the next batch takes this number over,
  and cleans the directory of the committed one. The comment at
  `zelox-data-source/src/formats/file_stream.rs:192-198` excludes this ("Neither a
  duplicate nor a silent-loss window remains."). For windows, a stop between the
  promotions of the source and of the state loses the rows of the batch.
* `StorageFaults` leaves out `"source delete"` for the same reason, and `"source commit"`
  and `"state commit"` for windows: the runner goes on after a failed promotion, with the
  source and the state of different batches.
* `StorageFaults` leaves out `"source stage"` and `"state stage"`. `write_staged_files`
  (`file_stream.rs:264-272`) and `stage_state` (`state_io.rs:93-105`) ignore a failed put.
  Without a staged record the batch becomes visible and nothing is promoted: as long as no
  record is committed the marker alone moves the number of the batch on, and the same rows
  are written again into the next directory. If an older staged record is still there, that
  one is promoted, and the rows that it lacks are done again. (Once a record is committed,
  and no staged one is left over, a failed put is survived: the batch is done again under
  its number.) Without a staged state the source is promoted and the state is not, and the
  open windows lose the rows of the batch. This, too, is excluded by the comment quoted
  above. Failed reads of the records are taken for absent objects (`get(..).ok()`); the
  model has no failing reads.
* `PutFaults` is empty. In realtime mode `stage_epoch_state` (`state_io.rs:118-131`) and
  `write_staged_epoch_offsets` (`kafka/reader.rs:176`) ignore a failed put as well. Without
  the state the epoch commits, and a restart finds no state for it: with `"state"`
  `CommittedStateIsKept` and `ImplementsExactlyOnce` are violated. Without the offsets an
  epoch commits with the offsets of an earlier one, or is never committed if there are
  none: with `"offsets"` `NoRowIsSeenTwice`, `ImplementsExactlyOnce` and
  `BarriersAreCommitted` are violated. A failed put of the number of partitions alone
  (`kafka/reader.rs:1126`, `"expected"`) violates nothing.
* `FinalThrottle` is one unit of time. With a larger throttle a restored operator takes
  the watermark for the line below which every window was emitted
  (`window_accum.rs:385-387`) and drops a window whose merge was held back.
* `MaxCrashes` is 0 for `parallel`: the done markers of an epoch are never deleted (the
  path has its directory twice) and only the first sink truncates, so that an epoch that is
  done again may be committed before all sinks have written it.
* `EarlyCrash` is `FALSE`: before the first commit nothing is truncated, and a part file
  of the first attempt is committed with the second (`streaming_decode.rs:688-689`).
* `TombstonesExpire` is `FALSE`: a compaction leaves out removes whose retention is over,
  also those of files that were added before its range, which are live again in a replay
  through it (`kernel/checkpoints.rs:1310`). Removals of domain metadata have the same
  form.
* `Boundaries` assumes that no operation runs longer than the retention of the log.
* `BatchesArriveOnceInOrder` excludes two handlers that pause at once (`used.overlap`):
  then a release finds `Pausing`, does nothing, and batches come twice.
* `CheckpointInterval` and `CompactionInterval` are both 2 in `delta_commit`, so that no
  compaction starts right after a checkpoint (`KeptApart`); `delta_compacted` shows the
  other case.
* `TimestampsIncrease` leaves out the commits that are made on a full load of a version
  that ends a compaction (commits with removes, and creators that lost the race): such a
  load takes the modification time of the compaction file for the timestamp.

### Other observations

They follow from the definitions and were met on the way; none has a run of its own.

* Topology: the planner gives a stage of several partitions a forward input from a
  one-partition driver stage (`job_graph/planner.rs:443`), and `JobTopology::try_new`
  rejects the graph as an internal error (`topology.rs:125`).
* Driver: `handle_probe_pending_worker` (`handler.rs:98`) lowers the count of requested
  workers and does not run tasks: regions that fit wait for an unrelated event.
  `handle_clean_up_job` frees slots and does not run tasks either.
* Driver: `handle_update_task` (`handler.rs:222`) frees a slot without
  `track_worker_activity`: a worker whose streams were untracked before its last report
  becomes idle without a probe and is never stopped.
* Scheduler: a region is retried with *all* its stages, also with one that
  `clean_up_job_by_stage` has made inactive. `clean_up_job` turns every state but
  `Draining` into `Canceled`, a failed one as well.
* Assigner: a region that is one slice of *n* partitions asks for *n* slots.
  `request_workers` does not subtract the workers that are requested already, nor count
  pending initial ones. One crashed worker can use up all attempts of a region, so that
  `JobsSurviveFaults` excludes crashes.
* Sink log: a repeated compaction batch keeps the entries of its first attempt, whose
  files are gone (`streaming_sink_log.rs:250`); readers skip them.
* `align_flow_event_streams` forwards watermarks of its first input only.
* Executor: a completed operation cannot be reattached, so that a lost last response is
  lost for good. A handler that is dropped while it waits leaves `Pausing` behind. A
  reattach that got hold of the executor before an interrupt starts the operation again,
  and answers its client with a stream; as the session no longer holds the executor, the
  end of the handler drops it, and the new task stops at some point of its result. A full
  buffer evicts responses the client does not have.
* Delta: an overwrite whose scan finds no file is a blind append and is retried as one, as
  is a creator that loses the race. An append whose answer is lost may be committed twice,
  and a rewrite may be reported as failed though it is durable. Writers that are not blind
  appends have no retries, so that most of the conflict checker is never reached.

## Proofs

### The scheduler

`JobProofs` proves, for every job graph, every cut into regions and every
limit of attempts, the seven properties that `scheduler_shuffle` checks on an instance:
`TypeCorrect`, `RetriesAreBounded`, `RoundsDoNotOverlap`, `SuccessIsComplete`,
`OutputIsSound`, and the action properties `OutcomesAreFinal` and `NoNeedlessRetry`.
The only assumption is `JobGraphAssumption`: the constants are functions of the right
type, and every region has a task. What the driver's proofs need of the methods is collected
in `SchedulerLaws` (`JobSchedulerInvariant`), which `SchedulerLawsHold` proves.

The inductive invariant `Inv(j)` is a predicate of the descriptor rather than of the
variable, because `refresh_job` goes through intermediate descriptors and the argument
follows it: a lemma for each method says that the method keeps `Inv` and *evolves* the
descriptor (`Evolves`: no attempt is lost, ended attempts keep their outcome, the
output only grows). Beyond the checked properties it has `RegionsSound`: a region that
is recorded as succeeded has succeeded. This is needed because the record, not the
attempts, keeps `schedule_task_regions` from a retry. Two facts hold only in the middle
of `refresh_job` and carry the two delicate steps:

* `OutputExtended`, after `extend_job_output`: every latest attempt of the final stage
  that runs or has succeeded is in the output. With all regions succeeded, the job may
  drain, and its output is complete;
* `RegionsCurrent`, after `update_task_regions`: a region that has not failed has
  attempts left. With no region failed, scheduling stays within the limit, and since
  only regions without a live attempt are scheduled, rounds do not overlap.

### The topology

`JobProofs` proves the four invariants of the run `topology`, for graphs of any
number of stages and partitions: `GraphTypesHold`, `RegionsPartitionHolds`,
`PipelinedTogetherHolds` and `TaskSetsSoundHolds`, from `GraphAssumption` (the bounds are
positive). The inductive invariant of the planner, `GraphInv`, adds to `GraphTypeOK` that the
stages read stages *of the graph*; the rest is about one finished graph.

* The breadth-first search of `Component` takes as many rounds as there are stages. A
  round that adds nothing is the last one that matters, and each round before it adds a
  stage, so after as many rounds as there are stages the reached set is closed under
  reading and being read (`ComponentIsClosure`). Hence the components are disjoint.
* `Home(g, t)` is the region of task `t`, written down without the search for it: the
  slice of its partition if all reads in its component are forward, the whole component
  otherwise. `HomeIsTheRegion` says that it is the one region with `t`. In a graph that
  `try_new` accepts, the stages of a forward component have equally many partitions,
  which is what makes the slices cover it.
* `BucketsAreInjective`: for *n* partitions and *B* >= *n* buckets, *p* -> *p B* div *n*
  stays below *B* and takes no value twice. `BucketsSuffice` says that there are as many
  buckets as that.

What the driver assumes of its task sets (`RegionAssumption`) is what
`RegionsPartitionHolds` and `TaskSetsSoundHolds` give.

### The driver

`DriverProofs` proves every safety property of the four `driver` runs: `TypesHold`,
`SlotsHold`, `SlotsAreFreed` (no slot leaks), `RequestsArePending`, the action properties
`AssignmentsAreFinal` and `IdleWorkersCanStop`, and the refinement `JobsFollowLifecycle`.
They hold for any number of jobs, workers and faults, every kind of trouble, any number of
them at once, and every job graph. The assumptions are `JobGraphAssumption`,
`AssignerAssumption`, `ActorAssumption`, `DriverAssumption` (the types; workers are numbered
from 1, which is how the driver hands out ids) and `RegionAssumption`. With
`JobsFollowLifecycle`, the theorems of `JobProofs` about one job hold of every job in the
driver.

The proof is layered. `JobProofs` proves laws of the scheduler and of the assigner
(`SchedulerLaws`, `AssignerLaws`). `DriverActorProofs` proves from these what the operations
of the actor keep (`ActorLaws`), and `DriverStepProofs` from `ActorLaws` what each step of the
system keeps. Each layer has the laws it uses as a hypothesis of its lemmas and does not see
the definitions behind them; `DriverProofs` discharges every hypothesis
(`ActorLawsAlwaysHold`), so that its theorems have none.

A handler chains operations on the state of the actor, each of which may have several
results (the placement is not determined). The invariant of the actor, `Good(d)`, and the
relation `Leads(d, e)` between the state before and the state after are therefore stated of
records: each operation keeps `Good` and leads from one to the other, and `Leads` is
transitive. `Good` has

* for each job, the invariant `Inv` of the scheduler;
* `PoolSound`: assigner and pool agree, and at least as many workers are pending as are
  requested;
* `QueueSound`, `SlotSound`: an attempt is queued once and until it is assigned; one in
  a slot is assigned to this slot, by an assignment that is never changed;
* `StreamsSound`: an active worker keeps the streams of its attempts until their stage is
  inactive;
* `FlightSound`: what is in the mailbox, in a call or on the driver has been launched.

`SystemInv` adds the workers and the network. `Watched` is the reason why no slot leaks:
whoever occupies a slot runs, is about to be launched, has an outcome on its way or is on a
worker that is down, and no step takes one of these away without another. `Settled` says
that the last sequence number of an attempt comes when it has left its slot; this is what
makes a repeated report harmless. `Carried` says that workers run and report launched
attempts only.

`handle_lost_worker` refreshes several jobs in turn, in an order that is not determined.
`RefreshJobs` is a recursive function on sets of jobs; that it is well defined, and that it
keeps what one refresh keeps, is shown by induction on the size of the set.

For the refinement, `JobFollows` says what a step of the actor does to one job: it
handles one event of the job, refreshes it and launches attempts, or it only launches
attempts. The difficulty is that a handler launches attempts of other jobs too, and
launches in several rounds, where `JobLifecycle` launches once: `Forward` is closed under
composition (`SchedulesForward`).

### The executor

`ExecutorProofs` proves the four invariants of the run `executor`: `TypesHold`,
`InterruptsHold` (that the task then ends is liveness, and with TLC), `RefusalsAreReasoned`
and `BatchesArrive`, for results of any length and any number of breaks, reattaches,
releases and heartbeats. The assumption is `ExecutorAssumption`; `BatchesArrive` has the
hypothesis `BufferCapacity >= InFlight + 2`: the buffer holds what can be under way, one
response in the channel and one in the task's hands. (The code has a buffer of 128 and a
transport of unknown depth: a smaller buffer would evict what the client does not have.)

Each step has one of a few effects on the fields of the state (`StepEffects`), and the
invariants are proved of the effects. `BaseInv` always holds: ids are given out in order,
a handler that waits for the task is the only one, who may read which stream, who held
the executor when it was interrupted. `BatchesArriveOnceInOrder` needs two more, which
hold until two handlers pause the task at once:

* `Stream`: what is on the wire, in the channel, in the task's hands and in the replay
  follows, id by id, what the client has (`Flowing`), the task is not further ahead of the
  client than this (`Ahead`), so the buffer has all that the client does not have
  (`Kept`), and a reattach asks for what follows what the client has (`Asked`);
* `Recorded`: the response with an id has the batch of that number.

### Delta

`DeltaCommitProofs` proves all that `delta_commit` checks, `TypeOK` (`Types`),
`LatestIsExact` (`Exact`), `TimestampsIncrease` (`Times`) and the refinement of
`DeltaTable` (`Implements`), for any number of writers, retries and lost answers, any
clocks, and logs of any length. `Types` and `Times` hold for any checkpoint and compaction
interval; `Exact` and `Implements` have the hypothesis `KeptApart`: no version has both a
checkpoint and the end of a compaction, as is the case with equal intervals. All assume:

* `DeltaAssumption`: the types of the constants;
* `DirectoriesAssumption`: the writers start on a directory that is well kept, as a new one
  is. TLC evaluates it on the three directories of the run;
* `~TombstonesExpire`, as a hypothesis of each theorem, without which the code does not
  have these properties (see the conditions above).

The first half of `DeltaCommitProofs` is the theory of the log. What a sequence of commits
leaves of a file is decided by the last one that mentions it; from this follow

* `ReconcileOnTop` and `ReconcileSummarises`: a log may be replayed from any prefix of it,
  and a run of commits may be summarised;
* `CompactingIsTransparent`: replaying summaries that cover a range without overlapping is
  replaying the range;
* `ReplayIsExact`: a segment without a gap, from any exact checkpoint through any exact
  compactions, comes to the version itself, whichever files the resolver picks. This is so
  for the replay of a scan, and for a full load if no compaction starts right after a
  checkpoint (`NoneIsSkipped`);
* `WellKeptIsReadable`: in a well kept directory (`WellKept`) the segment of the last
  version has no gap, so that it can be scanned and, with `NoneIsSkipped`, loaded.
  `WellKept` says that checkpoints and compactions are exact, that their versions are in the
  log, that a version whose commit is gone lies below a checkpoint, and that the hint does
  not point beyond the last checkpoint.

Then one lemma for each way to change the directory (`AppendKeeps`, `CheckpointKeeps`,
`HintKeeps`, `DeleteKeeps`, `CompactionKeeps`) says that it stays well kept.

The inductive invariant `Inv` of `DeltaCommit` is that the directory is well kept and
compactions are aligned, and, for each writer, `WriterOK`:

* the commits from its base on still exist. Therefore its put meets every version that
  is taken: a put that is not refused follows the last version, and the writer's base
  *is* the last version. This is where the clean-up's boundary matters;
* until it puts, `Decides`: it was planned under the header of its base (if `KeptApart`, so
  that full loads skip nothing), and what it
  removes is what its base has, *if* the base is still the last version. The condition is
  what makes this inductive: a stale overwrite or rewrite stays around, but it has no
  retries and can only fail;
* a blind append or a creator that moves to a later base has found no header among the
  winners, so that the header of the new base is the one it was planned under;
* after its put, some version is its own.

There is one lemma per action (`PlanInv` ... `CompactInv`). For the refinement, a put that
is not refused is a `Commit` of `DeltaTable`: `EntryIsAllowed` takes the five cases of
`Decides` to its five kinds of commit, and `TableIs` says that the live files and the header
of `DeltaTable`, defined without any replay, are those of the last version. Every other
step keeps the log and is a `Report`.

### The micro-batch query

`MicroBatchProofs` proves all the safety that the run `microbatch` checks: `TypesAreKept`,
`SeenOnce` (`NoRowIsSeenTwice`) and the refinement `RefinesExactlyOnce`
(`ImplementsExactlyOnce`), with and without windows, for any number of
rows, windows, files per batch, spilled chunks, restarts and faults, and any interval of
compaction. Beyond the types of the constants (`MicroBatchAssumption`, `WindowAssumption`,
`CompactIntervalAssumption`), it has two hypotheses:

* `Survivable`: the process does not stop, and the store does not fail, at the points that
  the code does not survive: no put of a staged record or state fails, and nothing comes
  between the promotion of the source and what follows it. These are the points that the
  run leaves out as well; everywhere else a stop or a fault may come at any time;
* `Spaced`, for the refinement only: event times that differ do so by at least
  `FinalThrottle`, so that the throttle never holds back the merge of a closed window. The
  conditions above say what happens without it.

The argument is about the *recovery line*: the rows and the batch up to which a restart reads
nothing again. It moves in one step of a batch, the promotion of the source, and for windows
the state moves with it. `Sound` says that nothing is there twice:

* `Line`: rows up to the line are in files of batches up to the line, or in the committed
  state, and not in both; a file beyond the line belongs to the *one* batch after it, and
  has rows of that batch or of the state only. This is why the directory of a batch that is
  done again may be cleaned, and why no other one may;
* `Flight`: the batch at work is the one after the line, and the staged record is its record;
* `Mapping`, `Windowing`: what was read of the batch and what the state had at the line is
  divided between the output, the accumulator and its spilled chunks, each row once;
* `Stored`, `FilesOnce`, `Running`: types, disjoint files, and the place of the process.

`Complete` adds that nothing is lost: the files up to the line are listed in the commit log
through every compaction (`Listed`), a settled row that is not late is in a file or in the
state (`Lasting`), and the batch at work has all it has read (`Pursued`). Here the windows need
that a row which is still held, and is not late, belongs to a window that is not closed by the
watermark (`Timely`), which is where `Spaced` is used.

A step that does not move the line maps to an arrival or to a stutter of `ExactlyOnce`; the
promotion settles the rows of the batch, as delivered or late.

### The realtime query

`RealtimeProofs` proves two invariants of the run `realtime`, the types (`RealtimeTypes`) and
`CommittedStateIsKept` (`RestartFindsItsState`), for each of the pipelines and any number
of partitions, messages, epochs and crashes, also for crashes before the first commit and
for the pipeline with the exchange, which the run restricts. They rest on the types of the
constants (`RealtimeAssumption`, `WindowAssumption`, `CompactIntervalAssumption`), and
`RestartFindsItsState` on `"state" \notin PutFaults`: no put of a state fails. Puts of
offsets may fail.

The inductive invariant `Inv` says of every part what the next one needs of it:

* a reader is within its partition, its row cap and the epochs, and its channel holds events
  that the funnel can take (`ReadersOK`, `ChannelsOK`);
* the funnel knows of each input the barrier that it has reached, so that the barrier which
  goes out is one of them (`AlignOK`, `MergeOK`);
* the window holds a bag of rows in memory and in the spilled chunks (`AccOK`, `ChunksOK`),
  through spills, merges and rebuilds. The folds over the chunks are shown to be well
  defined by induction on the number of chunks;
* `EpochIsStored`: from the barrier to the commit of an epoch its state is stored, if no put
  of a state fails.

`CommittedStateIsKept` alone is not inductive: the commit needs `EpochIsStored`, and the
deletion of the state two epochs back must not reach the committed one, whatever the two
are. `Between` carries both through the events that the funnel forwards at once.

### What is only model-checked

* Of `Realtime`, `NoRowIsSeenTwice` and the refinement of `ExactlyOnce`. The invariants that
  a proof would need relate the contents of every channel, in order, to the offsets of two
  epochs and to the partial state of each operator; the proofs of the micro-batch query do
  not carry over, as there is no batch in flight but a cut through the channels.
* Liveness (`EveryJobEnds`, `JobsSurviveFaults`, `EveryFileIsProcessed`,
  `BarriersAreCommitted`, `EveryClientEnds`, `InterruptsStopTheTask`). The proof system does
  not handle fairness or `ENABLED`.
* The violated properties, of which there is nothing to prove.

The induction theorems of the library cannot be used here, because they take an operator.
Where a proof needs induction over numbers or finite sets, it takes the least
counterexample, and shows of a recursive function that it exists by the partial functions
up to *n*. `Reconcile` is defined by the last mention of a file rather than by a fold, and
needs none. The facts of the library about finite sets and least elements that the proofs use
are collected in one formula per development (`SetLaws`, `MaxLaw`), which the lemmas have
as a hypothesis and which is proved before the theorems.

## Not modelled

* *Driver*: streams between tasks and their clean-up (`stream_manager`,
  `stream_service`), the merge of final streams (`driver/output.rs`), heartbeats,
  shutdown, leader election. The streams are the next part to add.
* *Streaming*: update mode, joins and deduplication, incremental checkpoints (chunks are
  numbered from 0 again after a restore), rescaling, other sources and sinks. The writers
  of `ParallelStreamSinkExec` are detached tasks: after an error or a stop they may go on
  for a while; in the model a stop ends all of them.
* *Executor*: the other RPCs, operations that are not reattachable, streaming commands.
* *Delta*: V2 checkpoints with sidecars, domain metadata, application transactions,
  checksums (taken to be right), deletion vectors, protocol validation, and Iceberg's
  commit.
* Parser, analyzer, planner rules, functions, codecs, readers and writers: sequential data
  conversion, for tests. Catalogs, object stores, caches, Python, telemetry, CLI: clients
  and wrappers of external systems.
