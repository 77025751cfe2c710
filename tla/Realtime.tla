------------------------------ MODULE Realtime ------------------------------
(***************************************************************************)
(* A streaming query in realtime mode (StreamDriver::Realtime): one Kafka  *)
(* reader per partition of the topic, and a file sink that commits an      *)
(* epoch when the Checkpoint barriers of the epoch have reached it.  The   *)
(* process may be killed between any two steps and is started again.       *)
(*                                                                         *)
(* A query over event-time windows has a WatermarkExec behind each reader  *)
(* and one instance of the window operator, with one sink.  The streams of *)
(* the readers are brought together by StreamBarrierAlignExec ("align", a  *)
(* window without a key) or by one output of the N-to-M StreamExchangeExec *)
(* ("merge", a keyed window that runs in parallel: the output that the     *)
(* keys of all the rows belong to; the others get the barriers only).  A   *)
(* query that copies its rows has one sink task for each partition         *)
(* ("parallel"); the last of them to finish an epoch commits it.           *)
(*                                                                         *)
(* The readers are tasks of their own, each with a bounded channel;        *)
(* funnel, window and sink are one task that pulls.                        *)
(***************************************************************************)
EXTENDS WindowAccum, SinkLog, Sequences

CONSTANTS
    Partition,        \* the partitions of the topic, one reader each
    Topic,            \* the messages of each partition
    Pipeline,         \* the pairs of a query and a funnel to consider
    MaxBatch,         \* the row cap of a reader's batch
    ChannelCapacity,  \* CHANNEL_CAPACITY
    MaxEpoch,         \* bound on the epochs
    PutFaults,        \* the objects whose put may fail, which nobody notices
    MaxCrashes,       \* bound on the crashes, by funnel
    EarlyCrash        \* whether it may crash before the first epoch is committed

ASSUME RealtimeAssumption ==
    /\ Partition \subseteq Nat /\ Partition # {} /\ IsFiniteSet(Partition)
    /\ Topic \in [Partition -> Seq(Row)]
    /\ Pipeline \subseteq {<<"window", "align">>, <<"window", "merge">>, <<"map", "parallel">>}
    /\ MaxBatch \in Nat \ {0} /\ ChannelCapacity \in Nat \ {0}
    /\ MaxEpoch \in Nat /\ MaxCrashes \in [{"align", "merge", "parallel"} -> Nat]
    /\ PutFaults \subseteq {"offsets", "expected", "state"}
    /\ EarlyCrash \in BOOLEAN

VARIABLES
    reader,   \* the readers, each with its watermark generator
    chan,     \* the channels from the readers to the funnel
    task,     \* the tasks of the sinks, with the window and the funnel
    ck,       \* the objects in the checkpoint store
    store,    \* the data files in the output directory
    log,      \* the commit log of the output directory
    pipeline, \* the query and the funnel
    crashes

vars == <<reader, chan, task, ck, store, log, pipeline, crashes>>

query == pipeline[1]
funnel == pipeline[2]

\* The sinks by their partition_index, and the inputs of each.
First == Min(Partition)
Sinks == IF funnel = "parallel" THEN Partition ELSE {First}
Inputs(i) == IF funnel = "parallel" THEN {i} ELSE Partition

None == -1
Epoch == 0 .. MaxEpoch

Data(r) == [kind |-> "data", row |-> r]
Watermark(t) == [kind |-> "watermark", time |-> t]
Checkpoint(e) == [kind |-> "checkpoint", epoch |-> e]
Idle == [kind |-> "idle"]

\* The stored state of the window; the rows that came too late are kept with it
\* to speak of them, and are not in the code.
NoState == [snapshot |-> NoSnapshot, late |-> {}]

\* The items of a sequence, one after the other.
InOrder(op(_, _), base, items) ==
    MapThenFoldSet(LAMBDA x, y : op(y, x), base, LAMBDA i : items[i], Max, DOMAIN items)

NoReader == [up |-> FALSE]
NoTask == [pc |-> "down"]

\* The query is started for the first time, on an empty checkpoint store.
Init ==
    /\ reader = [p \in Partition |-> NoReader]
    /\ chan = [p \in Partition |-> <<>>]
    /\ task = [i \in Partition |-> NoTask]
    /\ ck = [staged |-> [p \in Partition |-> [e \in Epoch |-> None]],
             committed |-> [epoch |-> None, offsets |-> [p \in Partition |-> None]],
             expected |-> FALSE, done |-> {}, state |-> [e \in {} |-> NoState],
             chunks |-> NoChunks]
    /\ store = {} /\ log = NoLog
    /\ pipeline \in Pipeline
    /\ crashes = 0
-----------------------------------------------------------------------------
(* The readers.                                                            *)

\* Whether a put is done: the result of these is thrown away.
Puts(object) == IF object \in PutFaults THEN BOOLEAN ELSE {TRUE}

\* The store is c but for the offset that is staged.
Stage(c, p, epoch, offset) ==
    \E put \in Puts("offsets") : ck' = IF put THEN [c EXCEPT !.staged[p][epoch] = offset] ELSE c

Running == task[First] # NoTask

\* A reader seeks to the committed offset, or to the start of the topic; it says
\* how many partitions there are, and stages the offset before it reads.
StartReader(p) ==
    /\ Running /\ ~reader[p].up
    /\ ck.committed.epoch < MaxEpoch
    /\ LET start == Later(0, ck.committed.offsets[p])
           epoch == ck.committed.epoch + 1
       IN  /\ reader' = [reader EXCEPT ![p] =
                            [up |-> TRUE, next |-> start, epoch |-> epoch,
                             builder |-> <<>>, idle |-> FALSE, wm |-> NewWatermark]]
           /\ \E put \in Puts("expected") :
                    Stage([ck EXCEPT !.expected = @ \/ put], p, epoch, start)
    /\ UNCHANGED <<chan, task, store, log, pipeline, crashes>>

CanSend(p) == reader[p].up /\ Len(chan[p]) < ChannelCapacity

\* What the generator makes of a batch: its rows, and a watermark that the
\* interval gate may hold back.  Held back, it is flushed before an Idle marker.
Generated(wm, rows, emit) ==
    LET seen == InOrder(SeeRow, wm, rows)
        due == emit /\ WatermarkAdvances(seen)
        mark == EmitWatermark(seen)
    IN  [wm |-> IF due THEN mark ELSE seen,
         events |-> [i \in DOMAIN rows |-> Data(rows[i])]
                    \o (IF due THEN <<Watermark(mark.lastWm)>> ELSE <<>>)]

\* Without the window operator there is no watermark to generate.
MayEmit(wm, rows, emit) ==
    LET seen == InOrder(SeeRow, wm, rows)
    IN  IF query = "map" \/ ~WatermarkAdvances(seen) THEN ~emit ELSE emit \/ MayHoldBack(seen)

\* The reader sends its batch, then marker, and goes on as `after`.
Send(p, emit, rows, marker, after) ==
    LET g == Generated(reader[p].wm, rows, emit)
    IN  /\ CanSend(p) /\ MayEmit(reader[p].wm, rows, emit)
        /\ chan' = [chan EXCEPT ![p] = @ \o g.events \o marker]
        /\ reader' = [reader EXCEPT ![p] = [after EXCEPT !.builder = <<>>, !.wm = g.wm]]

\* Mutant: the row cap is checked before the row is counted.
ReadMessageOverCap(p, emit) ==
    /\ CanSend(p) /\ reader[p].next < Len(Topic[p])
    /\ LET rows == Append(reader[p].builder, Topic[p][reader[p].next + 1])
           after == [reader[p] EXCEPT !.next = @ + 1, !.builder = rows, !.idle = FALSE]
       IN  IF Len(rows) > MaxBatch
           THEN Send(p, emit, rows, <<>>, after)
           ELSE ~emit /\ reader' = [reader EXCEPT ![p] = after] /\ UNCHANGED chan
    /\ UNCHANGED <<task, ck, store, log, pipeline, crashes>>

\* A message goes to the builder; a full builder is sent.
ReadMessage(p, emit) ==
    /\ CanSend(p) /\ reader[p].next < Len(Topic[p])
    /\ LET rows == Append(reader[p].builder, Topic[p][reader[p].next + 1])
           after == [reader[p] EXCEPT !.next = @ + 1, !.builder = rows, !.idle = FALSE]
       IN  IF Len(rows) >= MaxBatch
           THEN Send(p, emit, rows, <<>>, after)
           ELSE ~emit /\ reader' = [reader EXCEPT ![p] = after] /\ UNCHANGED chan
    /\ UNCHANGED <<task, ck, store, log, pipeline, crashes>>

\* flush_timer: the accumulated rows are sent without a barrier.
Flush(p, emit) ==
    /\ CanSend(p) /\ reader[p].builder # <<>>
    /\ Send(p, emit, reader[p].builder, <<>>, reader[p])
    /\ UNCHANGED <<task, ck, store, log, pipeline, crashes>>

\* Mutant: the barrier overtakes the rows in the builder.
TickOvertakes(p, emit) ==
    /\ CanSend(p) /\ reader[p].epoch <= MaxEpoch /\ ~emit
    /\ chan' = [chan EXCEPT ![p] = Append(@, Checkpoint(reader[p].epoch))]
    /\ reader' = [reader EXCEPT ![p].epoch = @ + 1]
    /\ Stage(ck, p, reader[p].epoch, reader[p].next)
    /\ UNCHANGED <<task, store, log, pipeline, crashes>>

\* timer: the rows are sent, the offsets staged, and the barrier sent.
Tick(p, emit) ==
    /\ CanSend(p) /\ reader[p].epoch <= MaxEpoch
    /\ Send(p, emit, reader[p].builder, <<Checkpoint(reader[p].epoch)>>,
            [reader[p] EXCEPT !.epoch = @ + 1])
    /\ Stage(ck, p, reader[p].epoch, reader[p].next)
    /\ UNCHANGED <<task, store, log, pipeline, crashes>>

\* PartitionEOF: the rows are sent, and the reader says once that it is idle.
CaughtUp(p) ==
    /\ CanSend(p) /\ reader[p].next = Len(Topic[p])
    /\ ~reader[p].idle
    /\ LET due == WatermarkAdvances(InOrder(SeeRow, reader[p].wm, reader[p].builder))
       IN  Send(p, query = "window" /\ due, reader[p].builder, <<Idle>>,
                [reader[p] EXCEPT !.idle = TRUE])
    /\ UNCHANGED <<task, ck, store, log, pipeline, crashes>>

Reader(p) ==
    \/ StartReader(p) \/ CaughtUp(p)
    \/ \E emit \in BOOLEAN : ReadMessage(p, emit) \/ Flush(p, emit) \/ Tick(p, emit)
-----------------------------------------------------------------------------
(* The funnel.                                                             *)

NewFunnel ==
    [reached |-> [p \in Partition |-> None],   \* reached; ckpt
     wm      |-> [p \in Partition |-> NoTime],
     idle    |-> {},                           \* idle_marked
     lastWm  |-> NoTime]                       \* last_emitted

Forward(f, events) == [funnel |-> f, events |-> events]

\* align_flow_event_streams: a barrier blocks its input until all have it.
\* Other markers are taken from the first input only.  With one input there is
\* no funnel, and this passes everything on.
Blocked(f, p) == funnel # "merge" /\ f.reached[p] # None

\* Mutant: the inputs stay blocked when the barrier is forwarded.
AlignStaysBlocked(f, inputs, p, event) ==
    IF event.kind # "checkpoint" THEN Forward(f, <<event>>)
    ELSE LET g == [f EXCEPT !.reached[p] = event.epoch]
         IN  Forward(g, IF \E q \in inputs : g.reached[q] = None
                        THEN <<>> ELSE <<Checkpoint(event.epoch)>>)

Align(f, inputs, p, event) ==
    CASE event.kind = "data" -> Forward(f, <<event>>)
      [] event.kind = "checkpoint" ->
            LET g == [f EXCEPT !.reached[p] = event.epoch]
            IN  IF \E q \in inputs : g.reached[q] = None
                THEN Forward(g, <<>>)
                ELSE Forward(NewFunnel, <<Checkpoint(g.reached[Min(inputs)])>>)
      [] OTHER -> Forward(f, IF p = Min(inputs) THEN <<event>> ELSE <<>>)

\* merge_output_subchannels: the watermark is the least one of the inputs that
\* are not idle, and a barrier goes out when the last input delivers it.
MergedWatermark(f) ==
    LET active == Partition \ f.idle
        times(inputs) == {f.wm[q] : q \in inputs}
    IN  IF active = {} THEN Max(times(Partition)) ELSE Min(times(active))

Merge(f, p, event) ==
    IF event.kind = "data" THEN Forward([f EXCEPT !.idle = @ \ {p}], <<event>>)
    ELSE LET g == CASE event.kind = "watermark" ->
                            [f EXCEPT !.wm[p] = Later(@, event.time), !.idle = @ \ {p}]
                    [] event.kind = "checkpoint" ->
                            [f EXCEPT !.reached[p] = Later(@, event.epoch), !.idle = @ \ {p}]
                    [] OTHER -> [f EXCEPT !.idle = @ \cup {p}]
             wm == MergedWatermark(g)
             least(h) == Min({h.reached[q] : q \in Partition})
         IN  Forward([g EXCEPT !.lastWm = Later(@, wm)],
                     (IF wm > f.lastWm THEN <<Watermark(wm)>> ELSE <<>>)
                     \o (IF least(g) > least(f) THEN <<Checkpoint(least(g))>> ELSE <<>>))
-----------------------------------------------------------------------------
(* The window operator and the sink.                                       *)

\* The committed epoch, and with it the state that a restart finds.
RestoreEpochState ==
    IF ck.committed.epoch \in DOMAIN ck.state THEN ck.state[ck.committed.epoch] ELSE NoState

NewTask(i) ==
    [pc |-> IF i = First THEN "truncating" ELSE "ready", funnel |-> NewFunnel,
     acc |-> Restore(RestoreEpochState.snapshot), late |-> RestoreEpochState.late,
     buffer |-> NoRows, epoch |-> None]

\* The process is started: the window restores its state on its first poll, and
\* the first sink removes from the output what is beyond the committed epoch, if
\* there is one.
Start ==
    /\ ~Running
    /\ task' = [i \in Partition |-> IF i \in Sinks THEN NewTask(i) ELSE NoTask]
    /\ UNCHANGED <<reader, chan, ck, store, log, pipeline, crashes>>

Goto(i, pc) == task' = [task EXCEPT ![i].pc = pc]

\* truncate_after removes the log first, then the data files.
Truncate(i) ==
    /\ task[i].pc = "truncating"
    /\ IF ck.committed.epoch = None THEN Goto(i, "ready") /\ UNCHANGED log
       ELSE Goto(i, "deleting") /\ log' = TruncateLog(log, ck.committed.epoch)
    /\ UNCHANGED <<reader, chan, ck, store, pipeline, crashes>>

\* Mutant: only the log is truncated.
DeleteFilesNot(i) ==
    /\ task[i].pc = "deleting"
    /\ Goto(i, "ready")
    /\ UNCHANGED <<reader, chan, ck, store, log, pipeline, crashes>>

DeleteFiles(i) ==
    /\ task[i].pc = "deleting"
    /\ store' = TruncateFiles(store, ck.committed.epoch)
    /\ Goto(i, "ready")
    /\ UNCHANGED <<reader, chan, ck, log, pipeline, crashes>>

\* What an event does to the window and, for a data event, to the sink's buffer.
\* s holds the task, the objects of the checkpoint store, and whether the put of a
\* state is done.
Buffered(s, e) ==
    [s EXCEPT !.task.acc = e.acc, !.task.buffer = Plus(@, e.out), !.ck.chunks = e.chunks]

SinkBarrier(s, id) == [s EXCEPT !.task.pc = "barrier", !.task.epoch = id]

\* Mutant: the state of the epoch before is deleted, committed or not.
WindowBarrierDeletesLast(s, id) ==
    LET kept == (DOMAIN s.ck.state \cup {id}) \ {id - 1}
        state == [snapshot |-> Snapshot(s.task.acc, s.ck.chunks), late |-> s.task.late]
    IN  [s EXCEPT !.ck.state = [e \in kept |-> IF e = id THEN state ELSE s.ck.state[e]]]

\* Checkpoint: the window stages its state before it forwards the barrier, which
\* it does also if the put has failed, and deletes the state two epochs back if a
\* later one is committed.
WindowBarrier(s, id) ==
    LET stored == IF s.put THEN {id} ELSE {}
        kept == (DOMAIN s.ck.state \cup stored)
                    \ (IF id - 2 < s.ck.committed.epoch THEN {id - 2} ELSE {})
        state == [snapshot |-> Snapshot(s.task.acc, s.ck.chunks), late |-> s.task.late]
    IN  [s EXCEPT !.ck.state = [e \in kept |-> IF e \in stored THEN state ELSE s.ck.state[e]]]

WindowEvent(s, event) ==
    CASE event.kind = "data" ->
            LET t == [s EXCEPT !.task.late =
                        IF WindowEnd(event.row) <= s.task.acc.wm THEN @ \cup {event.row} ELSE @]
            IN  Buffered(t, WindowData(s.task.acc, s.ck.chunks, event.row))
      [] event.kind = "watermark" ->
            Buffered(s, WindowWatermark(s.task.acc, s.ck.chunks, event.time))
      [] event.kind = "checkpoint" -> SinkBarrier(WindowBarrier(s, event.epoch), event.epoch)
      [] OTHER -> s

MapEvent(s, event) ==
    CASE event.kind = "data" -> [s EXCEPT !.task.buffer = Plus(@, OneRow(event.row))]
      [] event.kind = "checkpoint" -> SinkBarrier(s, event.epoch)
      [] OTHER -> s

Event(s, event) == IF query = "window" THEN WindowEvent(s, event) ELSE MapEvent(s, event)

\* The task pulls the next event of an input through the funnel.
Pull(i, p) ==
    /\ task[i].pc = "ready" /\ p \in Inputs(i) /\ chan[p] # <<>>
    /\ ~Blocked(task[i].funnel, p)
    /\ \E put \in Puts("state") :
        LET event == Head(chan[p])
            f == IF funnel = "merge" THEN Merge(task[i].funnel, p, event)
                                     ELSE Align(task[i].funnel, Inputs(i), p, event)
            s == [task |-> [task[i] EXCEPT !.funnel = f.funnel], ck |-> ck, put |-> put]
            t == InOrder(Event, s, f.events)
        IN  task' = [task EXCEPT ![i] = t.task] /\ ck' = t.ck
    /\ chan' = [chan EXCEPT ![p] = Tail(@)]
    /\ UNCHANGED <<reader, store, log, pipeline, crashes>>

\* commit_epoch: the rows of the epoch are written under a name that another
\* attempt at the epoch writes again.  A sink alone commits the epoch then.
WritePart(i) ==
    /\ task[i].pc = "barrier"
    /\ store' = IF task[i].buffer = NoRows THEN store
                ELSE {f \in store : ~(f.batch = task[i].epoch /\ f.part = i)}
                        \cup {[batch |-> task[i].epoch, part |-> i, rows |-> task[i].buffer]}
    /\ Goto(i, IF Sinks = {i} THEN "complete" ELSE "written")
    /\ UNCHANGED <<reader, chan, ck, log, pipeline, crashes>>

\* One of several sinks leaves a marker, and commits the epoch if it finds the
\* markers of all.  The markers are never deleted: the path that is passed to
\* delete has the directory twice.
MarkDone(i) ==
    /\ task[i].pc = "written"
    /\ ck' = [ck EXCEPT !.done = @ \cup {<<task[i].epoch, i>>}]
    /\ Goto(i, "marked")
    /\ UNCHANGED <<reader, chan, store, log, pipeline, crashes>>

Finished(i) == task' = [task EXCEPT ![i].pc = "ready", ![i].buffer = NoRows]

ListMarkers(i) ==
    /\ task[i].pc = "marked"
    /\ IF \A j \in Sinks : <<task[i].epoch, j>> \in ck.done THEN Goto(i, "complete")
       ELSE Finished(i)
    /\ UNCHANGED <<reader, chan, ck, store, log, pipeline, crashes>>

\* write_global_committed: the offsets of the epoch, on top of the committed ones.
\* The epoch is deferred if the number of partitions is known and an offset is
\* missing.
EpochOffsets(i) ==
    [p \in Partition |-> Later(ck.committed.offsets[p], ck.staged[p][task[i].epoch])]
OffsetsAreComplete(i) == ck.expected => \A p \in Partition : EpochOffsets(i)[p] # None

MakeVisible(i) ==
    /\ task[i].pc = "complete"
    /\ IF OffsetsAreComplete(i)
       THEN /\ log' = CommitBatch(log, task[i].epoch, ListBatchFiles(store, task[i].epoch))
            /\ Goto(i, "visible")
       ELSE Finished(i) /\ UNCHANGED log
    /\ UNCHANGED <<reader, chan, ck, store, pipeline, crashes>>

CommitOffsets(i) ==
    /\ task[i].pc = "visible"
    /\ ck' = [ck EXCEPT !.committed = [epoch |-> task[i].epoch, offsets |-> EpochOffsets(i)]]
    /\ Finished(i)
    /\ UNCHANGED <<reader, chan, store, log, pipeline, crashes>>

Task(i) ==
    \/ Truncate(i) \/ DeleteFiles(i)
    \/ \E p \in Partition : Pull(i, p)
    \/ WritePart(i) \/ MarkDone(i) \/ ListMarkers(i)
    \/ MakeVisible(i) \/ CommitOffsets(i)

Tasks == Start \/ \E i \in Partition : Task(i)

\* The process is killed.
Crash ==
    /\ Running /\ crashes < MaxCrashes[funnel]
    /\ EarlyCrash \/ ck.committed.epoch # None
    /\ reader' = [p \in Partition |-> NoReader]
    /\ chan' = [p \in Partition |-> <<>>]
    /\ task' = [i \in Partition |-> NoTask]
    /\ crashes' = crashes + 1
    /\ UNCHANGED <<ck, store, log, pipeline>>

Next ==
    \/ \E p \in Partition : Reader(p)
    \/ Tasks
    \/ Crash

Spec == Init /\ [][Next]_vars

\* Weak fairness of the tasks: the process is started again, and goes on while one
\* of its tasks can.
TaskCanStep(i) ==
    /\ task[i] # NoTask
    /\ task[i].pc = "ready" => \E p \in Inputs(i) : chan[p] # <<>> /\ ~Blocked(task[i].funnel, p)
TasksCanStep == Running => \E i \in Sinks : TaskCanStep(i)
FairSpec == Spec /\ ([]<>~TasksCanStep \/ []<><<Tasks>>_vars)
-----------------------------------------------------------------------------
(* Properties.                                                             *)

\* The state has the types of the Rust structs and of the stored objects.
TypeOK ==
    /\ \A p \in Partition : reader[p].up =>
            /\ reader[p].next \in 0 .. Len(Topic[p]) /\ reader[p].epoch \in 0 .. MaxEpoch + 1
            /\ Len(reader[p].builder) < MaxBatch
    /\ \A i \in Partition : task[i] # NoTask =>
            /\ task[i].pc \in {"truncating", "deleting", "ready", "barrier", "written", "marked",
                               "complete", "visible"}
            /\ task[i].buffer \in Bag /\ task[i].late \subseteq Row
    /\ ck.done \subseteq Epoch \X Partition
    /\ ck.committed.epoch \in Epoch \cup {None}
    /\ \A p \in Partition : ck.committed.offsets[p] \in {None} \cup 0 .. Len(Topic[p])
    /\ DOMAIN ck.state \subseteq Epoch /\ DOMAIN log \subseteq Epoch
    /\ \A f \in store : f.batch \in Epoch /\ f.rows \in Bag

\* A data file has the same name in every attempt: the log lists the name, and a
\* reader gets what the file holds now.
Visible == {f \in store : \E g \in ReadCommittedFiles(log) : g.batch = f.batch /\ g.part = f.part}
Copies(r, files) == Cardinality(UNION {{f} \X (1 .. f.rows[r]) : f \in files})

\* No reader of the output ever sees a row twice, not even between a crash and
\* the truncation that follows it.
NoRowIsSeenTwice == \A r \in Row : Copies(r, Visible) <= 1

\* The rows that a restart will not read again.
Settled(r) == \E p \in Partition : \E i \in 1 .. ck.committed.offsets[p] : Topic[p][i] = r

\* How often a row counts: in the output up to the committed epoch, or in the
\* state of the window at that epoch.
Effects(r) ==
    Copies(r, {f \in Visible : f.batch <= ck.committed.epoch})
        + (IF query = "window" THEN RestoreEpochState.snapshot.rows[r] ELSE 0)

LateRows == IF query = "window" THEN RestoreEpochState.late ELSE {}

FateOf(r) ==
    CASE ~Settled(r) -> "arrived"
      [] Settled(r) /\ r \in LateRows /\ Effects(r) <= 1 -> "late"
      [] Settled(r) /\ r \notin LateRows /\ Effects(r) = 1 -> "delivered"
      [] OTHER -> "lost or doubled"

Abstract == INSTANCE ExactlyOnce WITH fate <- [r \in Row |-> FateOf(r)]

\* The query implements ExactlyOnce across crashes: the one put of
\* realtime/committed settles the rows up to its offsets together with their
\* effect in the visible files or in the state of that epoch, and no crash,
\* replay or truncation takes it back.
ImplementsExactlyOnce == Abstract!Spec

\* The state that a restart needs is there: the state of the committed epoch is
\* neither deleted too early nor committed before it is stored.
CommittedStateIsKept ==
    query = "window" /\ ck.committed.epoch # None => ck.committed.epoch \in DOMAIN ck.state

\* The rows behind the barrier do not come before it: the state of the committed
\* epoch has no row beyond the offsets that are committed with it ("a consistent
\* global cut (data <= every reader's `e` offset)").
StateIsConsistentCut ==
    query = "window" => \A r \in Row : RestoreEpochState.snapshot.rows[r] > 0 => Settled(r)

\* A barrier that every reader has sent is committed or lost in a crash, again
\* and again: the funnel never waits for an input that it does not read.
BarriersAreCommitted ==
    LET Outstanding == \E e \in Epoch : /\ ck.committed.epoch < e
                                        /\ \A p \in Partition : reader[p].up /\ reader[p].epoch > e
    IN  Outstanding ~> ~Outstanding
=============================================================================
