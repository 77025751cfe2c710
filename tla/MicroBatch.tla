----------------------------- MODULE MicroBatch -----------------------------
(***************************************************************************)
(* A streaming query in micro-batch mode (StreamDriver::Once and           *)
(* Continuous) from a file source to a file sink, with its checkpoint      *)
(* store and the commit log of the sink.  The query either copies its rows *)
(* ("map") or aggregates them over event-time windows ("window").          *)
(*                                                                         *)
(* One input file holds one row.  An object of a store is read or written  *)
(* in one step, and the process may stop between any two steps: it is      *)
(* killed, an error ends the query, or the client stops it.  What it has   *)
(* stored remains, and the query is started again from it.                 *)
(***************************************************************************)
EXTENDS WindowAccum, SinkLog

CONSTANTS
    Query,              \* the queries to consider, out of "map" and "window"
    MaxFilesPerTrigger, \* maxFilesPerTrigger; 0 if it is not set
    StopPoints,         \* the points at which the process may stop, by query
    StorageFaults,      \* the writes of the checkpoint store that may fail, by query
    MaxTroubles,        \* bound on stops and storage faults
    MaxIdleBatches      \* bound on batches that find no new file

Points == {"idle", "planned", "reading", "ended", "written", "logged", "marked",
           "source put", "source promoted", "state put"}

ASSUME MicroBatchAssumption ==
    /\ Row \subseteq Nat
    /\ Query \subseteq {"map", "window"}
    /\ MaxFilesPerTrigger \in Nat /\ MaxTroubles \in Nat /\ MaxIdleBatches \in Nat
    /\ StopPoints \in [Query -> SUBSET Points]
    /\ StorageFaults \in
            [Query -> SUBSET {"source stage", "state stage", "marker",
                              "source commit", "source delete", "state commit"}]

VARIABLES
    input,    \* the files in the source directory
    store,    \* the data files in the output directory
    log,      \* the commit log of the output directory
    ck,       \* the objects in the checkpoint store
    run,      \* the process that runs the query
    query,    \* the query
    late,     \* the rows that came too late, as of the last commit
    bound     \* how much of the bounds is used

vars == <<input, store, log, ck, run, query, late, bound>>

NoRecord == [batch |-> -1, files |-> {}]
Stopped == [pc |-> "stopped"]

\* The staged state is a set of one snapshot, or empty when there is no such object.
Init ==
    /\ input = {} /\ store = {} /\ log = NoLog /\ late = {}
    /\ ck = [staged |-> NoRecord, committed |-> NoRecord, offsets |-> {},
             state |-> NoSnapshot, stagedState |-> {}, chunks |-> NoChunks]
    /\ run = Stopped
    /\ query \in Query
    /\ bound = [troubles |-> 0, idle |-> 0, attempt |-> 0]

Goto(point) == run' = [run EXCEPT !.pc = point]

\* A write that may fail: the process goes on as if it had been done.
MayFail(write) == write \in StorageFaults[query] /\ bound.troubles < MaxTroubles
Fault(write) == MayFail(write) /\ bound' = [bound EXCEPT !.troubles = @ + 1]

\* A file appears in the source directory; r orders the files by their
\* modification time.
Arrive(r) ==
    /\ r \notin input
    /\ input' = input \cup {r}
    /\ UNCHANGED <<store, log, ck, run, query, late, bound>>
-----------------------------------------------------------------------------
(* The runner.                                                             *)

\* Mutant: the marker of the last batch is written again.
StartMarkerAgain ==
    /\ run = Stopped
    /\ run' = [pc |-> "idle", marker |-> Max(ck.offsets \cup {-1})]
    /\ UNCHANGED <<input, store, log, ck, query, late, bound>>

Start ==
    /\ run = Stopped
    /\ run' = [pc |-> "idle", marker |-> Max(ck.offsets \cup {-1}) + 1]
    /\ UNCHANGED <<input, store, log, ck, query, late, bound>>

\* current_batch_id_in: both the source and the sink number the batch by it.
CurrentBatchId ==
    IF ck.staged # NoRecord THEN ck.staged.batch
    ELSE IF ck.committed # NoRecord THEN ck.committed.batch + 1
    ELSE Max(ck.offsets \cup {-1}) + 1

\* Mutant: the files that are older than a processed one are taken for processed.
NewFilesAfterLast == {r \in input : \A q \in ck.committed.files : q < r}

\* The files that are not committed yet, oldest first, up to the limit.
NewFiles ==
    LET new == input \ ck.committed.files
    IN  IF MaxFilesPerTrigger = 0 THEN new
        ELSE {r \in new : Cardinality({q \in new : q < r}) < MaxFilesPerTrigger}

\* make_stream: the source is scanned, which stages the batch, and the sink is
\* planned.  The window operator restores its state from the last commit.
MakeStream ==
    /\ run.pc = "idle"
    /\ NewFiles = {} => bound.idle < MaxIdleBatches
    /\ run' = [pc |-> "planned", marker |-> run.marker, batch |-> CurrentBatchId,
               files |-> NewFiles, unread |-> NewFiles, attempt |-> bound.attempt,
               acc |-> Restore(ck.state), wm |-> NewWatermark, out |-> NoRows, late |-> {}]
    /\ LET next == [bound EXCEPT !.attempt = @ + 1,
                                 !.idle = IF NewFiles = {} THEN @ + 1 ELSE @]
       IN  \/ /\ ck' = [ck EXCEPT !.staged = [batch |-> CurrentBatchId,
                                              files |-> ck.committed.files \cup NewFiles]]
              /\ bound' = next
           \/ /\ MayFail("source stage")
              /\ bound' = [next EXCEPT !.troubles = @ + 1]
              /\ UNCHANGED ck
    /\ UNCHANGED <<input, store, log, query, late>>

\* Mutant: what an earlier attempt has written stays in the directory.
CleanDirNot ==
    /\ run.pc = "planned"
    /\ Goto(IF query = "map" /\ run.unread = {} THEN "written" ELSE "reading")
    /\ UNCHANGED <<input, store, log, ck, query, late, bound>>

\* StreamingSinkCommitExec first cleans the directory of the batch.
CleanDir ==
    /\ run.pc = "planned"
    /\ store' = CleanBatchDir(store, run.batch)
    /\ Goto(IF query = "map" /\ run.unread = {} THEN "written" ELSE "reading")
    /\ UNCHANGED <<input, log, ck, query, late, bound>>

\* A data file gets a fresh name in each attempt at the batch.
DataFile(rows) == [batch |-> run.batch, attempt |-> run.attempt, rows |-> rows]

\* "map": each partition of the source is written by a task of its own.
WriteFile(r) ==
    /\ query = "map" /\ run.pc = "reading" /\ r \in run.unread
    /\ store' = store \cup {DataFile(OneRow(r))}
    /\ run' = [run EXCEPT !.unread = @ \ {r},
                          !.pc = IF run.unread = {r} THEN "written" ELSE @]
    /\ UNCHANGED <<input, log, ck, query, late, bound>>

\* "window": the operator is given the next row, and a watermark if one is due.
\* A row is too late if its window is closed when it comes.
ReadFile(emit) ==
    /\ query = "window" /\ run.pc = "reading" /\ run.unread # {}
    /\ LET r == Min(run.unread)
           seen == SeeRow(run.wm, r)
           data == WindowData(run.acc, ck.chunks, r)
           mark == EmitWatermark(seen)
           after == IF emit THEN WindowWatermark(data.acc, data.chunks, mark.lastWm) ELSE data
       IN  /\ IF emit THEN WatermarkAdvances(seen)
                      ELSE WatermarkAdvances(seen) => MayHoldBack(seen)
           /\ run' = [run EXCEPT !.unread = @ \ {r}, !.acc = after.acc,
                                 !.wm = IF emit THEN mark ELSE seen,
                                 !.out = Plus(@, after.out),
                                 !.late = IF WindowEnd(r) <= run.acc.wm THEN @ \cup {r} ELSE @]
           /\ ck' = [ck EXCEPT !.chunks = after.chunks]
    /\ UNCHANGED <<input, store, log, query, late, bound>>

\* EndOfData flushes the watermark, and the operator stages its state.
EndOfData ==
    /\ query = "window" /\ run.pc = "reading" /\ run.unread = {}
    /\ LET mark == EmitWatermark(run.wm)
           after == IF WatermarkAdvances(run.wm)
                    THEN WindowWatermark(run.acc, ck.chunks, mark.lastWm)
                    ELSE Effect(run.acc, ck.chunks, NoRows)
       IN  /\ run' = [run EXCEPT !.pc = "ended", !.acc = after.acc, !.out = Plus(@, after.out)]
           /\ \/ /\ ck' = [ck EXCEPT !.chunks = after.chunks,
                                     !.stagedState = {Snapshot(after.acc, after.chunks)}]
                 /\ UNCHANGED bound
              \/ ck' = [ck EXCEPT !.chunks = after.chunks] /\ Fault("state stage")
    /\ UNCHANGED <<input, store, log, query, late>>

\* The output of the window operator becomes durable.
FinishFile ==
    /\ run.pc = "ended"
    /\ store' = store \cup {DataFile(run.out)}
    /\ Goto("written")
    /\ UNCHANGED <<input, log, ck, query, late, bound>>

CommitLog ==
    /\ run.pc = "written"
    /\ log' = CommitBatch(log, run.batch, ListBatchFiles(store, run.batch))
    /\ Goto("logged")
    /\ UNCHANGED <<input, store, ck, query, late, bound>>

\* consume_stream ends with the marker of the batch.
PutOffsets ==
    /\ run.pc = "logged"
    /\ run' = [run EXCEPT !.pc = "marked", !.marker = @ + 1]
    /\ \/ ck' = [ck EXCEPT !.offsets = @ \cup {run.marker}] /\ UNCHANGED bound
       \/ Fault("marker") /\ UNCHANGED ck
    /\ UNCHANGED <<input, store, log, query, late>>

AfterSource == IF query = "window" THEN "source promoted" ELSE "idle"

\* commit_source_offsets promotes the record of the source, then the state of
\* the operators: a put of the committed object, and a delete of the staged one.
\* It lists the staged objects: where there is none, nothing is promoted.
CommitSource ==
    /\ run.pc = "marked"
    /\ \/ /\ ck.staged # NoRecord
          /\ ck' = [ck EXCEPT !.committed = ck.staged]
          /\ late' = late \cup run.late
          /\ Goto("source put") /\ UNCHANGED bound
       \/ ck.staged = NoRecord /\ Goto(AfterSource) /\ UNCHANGED <<ck, late, bound>>
       \/ Fault("source commit") /\ Goto(AfterSource) /\ UNCHANGED <<ck, late>>
    /\ UNCHANGED <<input, store, log, query>>

DeleteStagedSource ==
    /\ run.pc = "source put"
    /\ Goto(AfterSource)
    /\ \/ ck' = [ck EXCEPT !.staged = NoRecord] /\ UNCHANGED bound
       \/ Fault("source delete") /\ UNCHANGED ck
    /\ UNCHANGED <<input, store, log, query, late>>

CommitState ==
    /\ run.pc = "source promoted"
    /\ \/ /\ \E snapshot \in ck.stagedState : ck' = [ck EXCEPT !.state = snapshot]
          /\ Goto("state put") /\ UNCHANGED bound
       \/ ck.stagedState = {} /\ Goto("idle") /\ UNCHANGED <<ck, bound>>
       \/ Fault("state commit") /\ Goto("idle") /\ UNCHANGED ck
    /\ UNCHANGED <<input, store, log, query, late>>

DeleteStagedState ==
    /\ run.pc = "state put"
    /\ ck' = [ck EXCEPT !.stagedState = {}]
    /\ Goto("idle")
    /\ UNCHANGED <<input, store, log, query, late, bound>>

Runner ==
    \/ Start \/ MakeStream \/ CleanDir
    \/ \E r \in Row : WriteFile(r)
    \/ \E emit \in BOOLEAN : ReadFile(emit)
    \/ EndOfData \/ FinishFile \/ CommitLog \/ PutOffsets
    \/ CommitSource \/ DeleteStagedSource \/ CommitState \/ DeleteStagedState

\* The process stops where it is.
Stop ==
    /\ run.pc \in StopPoints[query] /\ bound.troubles < MaxTroubles
    /\ run' = Stopped
    /\ bound' = [bound EXCEPT !.troubles = @ + 1]
    /\ UNCHANGED <<input, store, log, ck, query, late>>

Next ==
    \/ \E r \in Row : Arrive(r)
    \/ Runner
    \/ Stop

Spec == Init /\ [][Next]_vars

\* Weak fairness of the runner: started again when it is stopped, it goes on with
\* its batch, and triggers the next one while there is something to do.
RunnerCanStep == run.pc = "idle" => NewFiles # {} \/ bound.idle < MaxIdleBatches
FairSpec == Spec /\ ([]<>~RunnerCanStep \/ []<><<Runner>>_vars)
-----------------------------------------------------------------------------
(* Properties.                                                             *)

\* The state has the types of the Rust structs and of the stored objects.
TypeOK ==
    /\ input \subseteq Row /\ late \subseteq Row /\ query \in Query
    /\ \A f \in store : f.batch \in Nat /\ f.attempt \in Nat /\ f.rows \in Bag
    /\ DOMAIN log \subseteq Nat
    /\ \A record \in {ck.staged, ck.committed} : record.batch \in Int /\ record.files \subseteq input
    /\ \A s \in {ck.state} \cup ck.stagedState : s.rows \in Bag /\ s.wm \in Int
    /\ ck.offsets \subseteq Nat
    /\ \A i \in DOMAIN ck.chunks : i \in Nat /\ ck.chunks[i] \in Bag
    /\ run.pc \in Points \cup {"stopped"}

\* A reader of the output directory takes the files of the commit log that exist.
Visible == ReadCommittedFiles(log) \cap store
Copies(r, files) == Cardinality(UNION {{f} \X (1 .. f.rows[r]) : f \in files})

\* No reader ever sees a row twice, whatever was written, logged and written
\* again before.
NoRowIsSeenTwice == \A r \in Row : Copies(r, Visible) <= 1

\* The recovery line: the batches and the rows that a restart will not do again.
\* For a window query it moves when the state is committed, after the source.
Settling == query = "window" /\ run.pc \in {"source put", "source promoted"}
SettledBatch == IF Settling THEN ck.committed.batch - 1 ELSE ck.committed.batch
SettledRows == IF Settling THEN ck.committed.files \ run.files ELSE ck.committed.files

\* How often a row counts: in the output up to the line, or in the state.
Effects(r) == Copies(r, {f \in Visible : f.batch <= SettledBatch}) + ck.state.rows[r]

FateOf(r) ==
    CASE r \notin input -> "absent"
      [] r \in input \ SettledRows -> "arrived"
      [] r \in SettledRows /\ r \in late /\ Effects(r) <= 1 -> "late"
      [] r \in SettledRows /\ r \notin late /\ Effects(r) = 1 -> "delivered"
      [] OTHER -> "lost or doubled"

Abstract == INSTANCE ExactlyOnce WITH fate <- [r \in Row |-> FateOf(r)]

\* The query implements ExactlyOnce: a commit settles rows together with their
\* effect in a visible file or in the state of the window, and neither a replay
\* nor a later batch ever takes the effect back or doubles it.
ImplementsExactlyOnce == Abstract!Spec

\* Every file that arrives is processed: no stop or storage fault makes the
\* source take it for processed or leaves its batch in flight.
EveryFileIsProcessed == \A r \in Row : r \in input ~> r \in ck.committed.files
=============================================================================
