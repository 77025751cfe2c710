----------------------------- MODULE WindowAccum -----------------------------
(***************************************************************************)
(* The event-time operators of a streaming query: the watermark generator  *)
(* (WatermarkExec) and the window aggregation (WindowAccumExec, append     *)
(* mode), as functions from their state and an event to their new state    *)
(* and output.                                                             *)
(*                                                                         *)
(* An aggregate is abstracted to the bag of rows that went into it, so a   *)
(* partial state and an output are both bags of rows.  Times are natural   *)
(* numbers; NoTime is i64::MIN.  The operator drives a Final merge to its  *)
(* end before it reads the next event, so a merge is part of the event     *)
(* that starts it.                                                         *)
(***************************************************************************)
EXTENDS Integers, FiniteSets, FiniteSetsExt

CONSTANTS
    Row,              \* the rows of the source
    EventTime,        \* the event time of each row
    WindowSize,       \* the length of the tumbling windows
    Delay,            \* the delay of the watermark behind the latest row
    AllowedLateness,
    FinalThrottle,    \* FINAL_THROTTLE_MICROS
    StateBudget       \* how many rows of partial state stay in memory

ASSUME WindowAssumption ==
    /\ WindowSize \in Nat \ {0} /\ Delay \in Nat /\ AllowedLateness \in Nat
    /\ FinalThrottle \in Nat /\ StateBudget \in Nat
    /\ EventTime \in [Row -> Nat]
    /\ \A r \in Row : EventTime[r] >= Delay

NoTime == -1
Later(a, b) == IF a > b THEN a ELSE b

NoRows == [r \in Row |-> 0]
OneRow(r) == [NoRows EXCEPT ![r] = 1]
Plus(a, b) == [r \in Row |-> a[r] + b[r]]
Only(bag, Keep(_)) == [r \in Row |-> IF Keep(r) THEN bag[r] ELSE 0]
Bag == [Row -> Nat]

\* The end of the window that a row falls into.
WindowEnd(r) == (EventTime[r] \div WindowSize + 1) * WindowSize
-----------------------------------------------------------------------------
(* WatermarkExec on one partition: the latest event time, the last         *)
(* watermark, and whether one was emitted.  It is not checkpointed.        *)

NewWatermark == [maxTs |-> NoTime, lastWm |-> NoTime]

SeeRow(g, r) == [g EXCEPT !.maxTs = Later(@, EventTime[r])]

\* A watermark is emitted when it advances.  After a row the interval gate may
\* hold it back, except for the first one; before EndOfData it is flushed.
WatermarkAdvances(g) == g.maxTs # NoTime /\ g.maxTs - Delay > g.lastWm
MayHoldBack(g) == g.lastWm # NoTime
EmitWatermark(g) == [g EXCEPT !.lastWm = g.maxTs - Delay]
-----------------------------------------------------------------------------
(* WindowAccumExec.                                                        *)

AccumState ==
    [pending   |-> NoRows,  \* pending_rows
     bytes     |-> 0,       \* pending_bytes, in rows
     wm        |-> NoTime,  \* watermark_micros
     emitted   |-> {},      \* emitted_ends
     lastFinal |-> NoTime,  \* last_final_wm
     floor     |-> NoTime,  \* restore_wm_floor
     spilled   |-> {},      \* the spilled chunks of this state
     nextSpill |-> 0]

\* The spilled chunks are objects of the checkpoint store, by their index.
NoChunks == [i \in {} |-> NoRows]
ReadSpill(chunks, i) == IF i \in DOMAIN chunks THEN chunks[i] ELSE NoRows
WriteSpill(chunks, i, bag) == [k \in DOMAIN chunks \cup {i} |-> IF k = i THEN bag ELSE chunks[k]]
DeleteSpills(chunks, indexes) == [k \in DOMAIN chunks \ indexes |-> chunks[k]]

\* What an event does: the new state, the chunks, and the rows that come out.
Effect(acc, chunks, out) == [acc |-> acc, chunks |-> chunks, out |-> out]

\* Above the budget, the partial state in memory moves to a chunk of its own.
SpillOverBudget(acc, chunks) ==
    IF acc.bytes > StateBudget /\ acc.pending # NoRows
    THEN Effect([acc EXCEPT !.pending = NoRows, !.bytes = 0,
                            !.spilled = @ \cup {acc.nextSpill}, !.nextSpill = @ + 1],
                WriteSpill(chunks, acc.nextSpill, acc.pending), NoRows)
    ELSE Effect(acc, chunks, NoRows)

GatherPartials(acc, chunks) ==
    FoldSet(LAMBDA i, bag : Plus(bag, ReadSpill(chunks, i)), acc.pending, acc.spilled)

\* A row whose window is past its lateness is dropped.
DropLate(acc, r) == acc.wm # NoTime /\ WindowEnd(r) + AllowedLateness < acc.wm

WindowData(acc, chunks, r) ==
    IF DropLate(acc, r)
    THEN Effect(acc, chunks, NoRows)
    ELSE SpillOverBudget([acc EXCEPT !.pending = Plus(@, OneRow(r)), !.bytes = @ + 1], chunks)

Size(bag) == FoldSet(LAMBDA r, n : n + bag[r], 0, Row)

\* rebuild_retained_state: the open windows of each part of the old state are
\* taken over in turn, spilling to fresh chunks, and the old chunks deleted.
Absorb(e, bag, wm) ==
    LET kept == Only(bag, LAMBDA r : WindowEnd(r) > wm)
    IN  SpillOverBudget([e.acc EXCEPT !.pending = Plus(@, kept), !.bytes = @ + Size(kept)], e.chunks)

RebuildRetainedState(acc, chunks, wm) ==
    LET empty == [acc EXCEPT !.pending = NoRows, !.bytes = 0, !.spilled = {}]
        below[n \in 0 .. acc.nextSpill] ==   \* the part in memory and the chunks below n
            IF n = 0 THEN Absorb(Effect(empty, chunks, NoRows), acc.pending, wm)
            ELSE IF n - 1 \in acc.spilled THEN Absorb(below[n - 1], ReadSpill(chunks, n - 1), wm)
            ELSE below[n - 1]
    IN  [below[acc.nextSpill] EXCEPT !.chunks = DeleteSpills(@, acc.spilled)]

\* The windows that a merge at watermark wm fires (window_emit_mask).
Fires(acc, wm, r) ==
    /\ WindowEnd(r) <= wm
    /\ WindowEnd(r) > acc.floor
    /\ WindowEnd(r) \notin acc.emitted

\* A Final merge: closed windows are emitted once, then marked and dropped.
Finalize(acc, chunks, wm) ==
    LET full == GatherPartials(acc, chunks)
        closed == {WindowEnd(r) : r \in {x \in Row : full[x] > 0 /\ WindowEnd(x) <= wm}}
        marked == [acc EXCEPT !.lastFinal = wm, !.emitted = @ \cup closed,
                              !.floor = Later(@, wm - AllowedLateness)]
        rebuilt == RebuildRetainedState(marked, chunks, wm)
    IN  [rebuilt EXCEPT !.out = Only(full, LAMBDA r : Fires(acc, wm, r))]

\* A watermark: the marks of windows past their lateness are pruned, and the
\* merge runs if the watermark is far enough beyond the one of the last merge.
WindowWatermark(acc, chunks, w) ==
    LET wm == Later(acc.wm, w)
        seen == [acc EXCEPT !.wm = wm, !.emitted = {e \in @ : e + AllowedLateness >= wm}]
    IN  IF acc.lastFinal = NoTime \/ wm - acc.lastFinal >= FinalThrottle
        THEN Finalize(seen, chunks, wm)
        ELSE Effect(seen, chunks, NoRows)

\* The snapshot of the whole state, and what a new instance makes of it.
NoSnapshot == [rows |-> NoRows, wm |-> NoTime, emitted |-> {}]
Snapshot(acc, chunks) ==
    [rows |-> GatherPartials(acc, chunks), wm |-> acc.wm, emitted |-> acc.emitted]
Restore(s) ==
    [AccumState EXCEPT !.pending = s.rows, !.wm = s.wm, !.emitted = s.emitted, !.floor = s.wm]
=============================================================================
