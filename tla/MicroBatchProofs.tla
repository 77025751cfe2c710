-------------------------- MODULE MicroBatchProofs --------------------------
(***************************************************************************)
(* The streaming query in micro-batch mode implements ExactlyOnce, for any *)
(* number of rows, files per batch, stops and storage faults: every row    *)
(* has its effect exactly once.  The first invariant, Sound, is the one by *)
(* which a row is never there twice; the second, Complete, is the one by   *)
(* which no row is lost.  The theorems about both are at the end.          *)
(*                                                                         *)
(* Everything is said relative to the recovery line of MicroBatch: the     *)
(* rows up to the line are settled, in a file or in the state of the       *)
(* window; what is beyond it belongs to the one batch in flight, whose     *)
(* files will be cleaned when the batch is done again.                     *)
(***************************************************************************)
EXTENDS MicroBatch, TLAPS

\* The stops and storage faults that a query survives: what is staged is stored,
\* and the commit of the source is not cut off from what follows it.
Survivable ==
    \A q \in Query :
        /\ "source stage" \notin StorageFaults[q] /\ "state stage" \notin StorageFaults[q]
        /\ "source put" \notin StopPoints[q]
        /\ "source delete" \notin StorageFaults[q] /\ "state commit" \notin StorageFaults[q]
        /\ q = "window" => /\ "source promoted" \notin StopPoints[q]
                           /\ "source commit" \notin StorageFaults[q]

-----------------------------------------------------------------------------
(* Bags in which a row is at most once, and the rows they have.            *)

Flat == [Row -> {0, 1}]
Rows(bag) == {r \in Row : bag[r] # 0}

\* The rows of an accumulator, which has none of them twice.
Held(acc, chunks) == Rows(acc.pending) \cup UNION {Rows(chunks[i]) : i \in acc.spilled}
ChunksFlat(chunks) == \A i \in DOMAIN chunks : i \in Nat /\ chunks[i] \in Flat
Once(acc, chunks) ==
    /\ DOMAIN acc = {"pending", "bytes", "wm", "emitted", "lastFinal", "floor",
                     "spilled", "nextSpill"}
    /\ acc.pending \in Flat /\ acc.nextSpill \in Nat
    /\ acc.wm \in Int /\ acc.lastFinal \in Int /\ acc.floor \in Int
    /\ acc.spilled \subseteq DOMAIN chunks
    /\ \A i \in acc.spilled : i < acc.nextSpill /\ Rows(chunks[i]) \cap Rows(acc.pending) = {}
    /\ \A i, j \in acc.spilled : i # j => Rows(chunks[i]) \cap Rows(chunks[j]) = {}
-----------------------------------------------------------------------------
(* The invariant behind NoRowIsSeenTwice.                                  *)

InState == Rows(ck.state.rows)
Mine == ListBatchFiles(store, run.batch)
Written == UNION {Rows(f.rows) : f \in Mine}
InFlight == run.pc \in {"planned", "reading", "ended", "written", "logged", "marked"} \/ Settling
Gathered == run.pc \in {"ended", "written", "logged", "marked"} \/ Settling

\* The stored objects.
CkFields == {"staged", "committed", "offsets", "state", "stagedState", "chunks"}
Stored ==
    /\ DOMAIN ck = CkFields
    /\ \A record \in {ck.staged, ck.committed} : record.batch \in Int /\ record.files \subseteq input
    /\ \A s \in {ck.state} \cup ck.stagedState : s.rows \in Flat /\ s.wm \in Int
    /\ ck.offsets \subseteq Nat
    /\ ck.offsets # {} => \E m \in ck.offsets : \A n \in ck.offsets : n <= m
    /\ ChunksFlat(ck.chunks)
    /\ ck.staged = NoRecord /\ ck.committed = NoRecord => ck.offsets = {}
    /\ input \subseteq Row /\ late \subseteq Row /\ query \in Query
    /\ bound.attempt \in Nat /\ DOMAIN bound = {"troubles", "idle", "attempt"}

\* The files: those up to the line hold settled rows, the others the rest.
FilesOnce ==
    /\ \A f \in store : f.batch \in Nat /\ f.attempt \in Nat /\ f.rows \in Flat
    /\ \A f, g \in store : f # g => Rows(f.rows) \cap Rows(g.rows) = {}
Line ==
    /\ SettledBatch >= -1
    /\ InState \subseteq SettledRows
    /\ DOMAIN log \subseteq 0 .. SettledBatch + 1
    /\ \A f \in store : f.batch <= SettledBatch => Rows(f.rows) \subseteq SettledRows \ InState
    /\ \A f \in store : f.batch > SettledBatch =>
            f.batch = SettledBatch + 1 /\ Rows(f.rows) \subseteq InState \cup (input \ SettledRows)

\* The process, and the record of the batch in flight.
RunFields == {"pc", "marker", "batch", "files", "unread", "attempt", "acc", "wm", "out", "late"}
Running ==
    /\ "pc" \in DOMAIN run /\ run.pc \in Points \cup {"stopped"}
    /\ run.pc = "stopped" => run = Stopped
    /\ run.pc # "stopped" => "marker" \in DOMAIN run /\ run.marker \in Nat
    /\ run.pc \notin {"stopped", "idle"} => DOMAIN run = RunFields
    /\ query = "map" => run.pc \notin {"ended", "source promoted", "state put"}
    /\ run.pc # "source put" => ck.staged = NoRecord \/ ck.staged.batch = SettledBatch + 1
    /\ run.pc \in {"source promoted", "state put"} => ck.staged = NoRecord
    /\ run.pc \in {"source put", "source promoted"} => ck.committed.batch \in Nat
Flight ==
    InFlight =>
        /\ run.batch = SettledBatch + 1 /\ run.attempt \in Nat
        /\ run.files \subseteq input /\ run.files \cap SettledRows = {}
        /\ run.unread \subseteq run.files /\ run.late \subseteq run.files \ run.unread
        /\ run.pc = "planned" => run.unread = run.files
        /\ IF Settling THEN run.files \subseteq ck.committed.files
           ELSE ck.staged = [batch |-> run.batch, files |-> SettledRows \cup run.files]

\* "map": what is written of the batch is what is read of it.
Mapping ==
    query = "map" =>
        /\ ck.state = NoSnapshot /\ late = {}
        /\ InFlight => run.late = {}
        /\ run.pc = "reading" => Written = run.files \ run.unread
        /\ run.pc \in {"written", "logged", "marked"} => Written = run.files

\* "window": the state and the output share the rows of the batch, and those of
\* the state at the line, between them.
Windowing ==
    query = "window" =>
        /\ run.pc \in {"planned", "reading"} =>
              /\ Once(run.acc, ck.chunks) /\ run.out \in Flat
              /\ run.wm \in [maxTs : Int, lastWm : Int]
              /\ Held(run.acc, ck.chunks) \cap Rows(run.out) = {}
              /\ Held(run.acc, ck.chunks) \cup Rows(run.out)
                    \subseteq InState \cup (run.files \ run.unread)
        /\ run.pc \in {"reading", "ended"} => Written = {}
        /\ Gathered =>
              /\ run.out \in Flat
              /\ ck.stagedState # {}
              /\ \A s \in ck.stagedState :
                    /\ Rows(s.rows) \cap Rows(run.out) = {}
                    /\ Rows(s.rows) \cup Rows(run.out) \subseteq InState \cup run.files
              /\ run.unread = {}
        /\ Gathered /\ run.pc # "ended" => Written = Rows(run.out)

Sound == Stored /\ FilesOnce /\ Line /\ Running /\ Flight /\ Mapping /\ Windowing
-----------------------------------------------------------------------------
(* Bags and folds.                                                         *)

\* What the proofs use about sets of numbers and finite sets.  The lemmas take it
\* as a hypothesis; it is proved at the end, for the theorems.
SetLaws ==
    /\ \A S \in SUBSET Nat : S # {} => \E m \in S : \A i \in S : m <= i
    /\ \A n \in Int : IsFiniteSet(0 .. n)
    /\ \A S : \A T \in SUBSET S : IsFiniteSet(S) => IsFiniteSet(T)
    /\ \A S : IsFiniteSet(S) => Cardinality(S) \in Nat
    /\ \A S : \A x \in S : IsFiniteSet(S) => Cardinality(S \ {x}) = Cardinality(S) - 1
    /\ Cardinality({}) = 0
    /\ \A x : Cardinality({x}) = 1

\* A set of natural numbers that is not empty has a least element.
LEMMA LeastNumber ==
    ASSUME SetLaws, NEW S \in SUBSET Nat, S # {}
    PROVE  \E m \in S : \A i \in S : m <= i
  BY Zenon DEF SetLaws

\* The oldest of the unread files is one of them.
LEMMA MinIsMember ==
    ASSUME SetLaws, NEW S \in SUBSET Nat, S # {}
    PROVE  Min(S) \in S
  BY LeastNumber, Zenon DEF Min

\* A bag without rows, a bag of one row, and the sum of bags that have no row in
\* common are flat.
LEMMA FlatBags ==
    /\ NoRows \in Flat /\ Rows(NoRows) = {}
    /\ \A r \in Row : OneRow(r) \in Flat /\ Rows(OneRow(r)) = {r}
    /\ \A a, b \in Flat : Rows(a) \cap Rows(b) = {} =>
            Plus(a, b) \in Flat /\ Rows(Plus(a, b)) = Rows(a) \cup Rows(b)
    /\ \A a \in Flat : Plus(a, NoRows) = a
    /\ \A a \in Flat : Rows(a) = {} => a = NoRows
    /\ Flat \subseteq Bag
  <1>1. NoRows \in Flat /\ Rows(NoRows) = {}
    BY Zenon DEF NoRows, Flat, Rows
  <1>2. \A r \in Row : OneRow(r) \in Flat /\ Rows(OneRow(r)) = {r}
    BY DEF NoRows, Flat, Rows, OneRow
  <1>3. \A a, b \in Flat : Rows(a) \cap Rows(b) = {} =>
            Plus(a, b) \in Flat /\ Rows(Plus(a, b)) = Rows(a) \cup Rows(b)
    <2> SUFFICES ASSUME NEW a \in Flat, NEW b \in Flat, Rows(a) \cap Rows(b) = {}
                 PROVE  Plus(a, b) \in Flat /\ Rows(Plus(a, b)) = Rows(a) \cup Rows(b)
      BY Zenon
    <2> \A r \in Row : (a[r] = 0 \/ a[r] = 1) /\ (b[r] = 0 \/ b[r] = 1) /\ (a[r] = 0 \/ b[r] = 0)
      BY Zenon DEF Flat, Rows
    <2>2. QED
      BY DEF Plus, Flat, Rows
  <1>4. \A a \in Flat : Plus(a, NoRows) = a
    BY DEF Plus, NoRows, Flat
  <1> \A a \in Flat : Rows(a) = {} => a = NoRows
    BY Zenon DEF Rows, NoRows, Flat
  <1> Flat \subseteq Bag
    BY DEF Flat, Bag
  <1>7. QED
    BY <1>1, <1>2, <1>3, <1>4, Zenon
\* gather_partials: the sum of the part in memory and of the chunks has each of
\* their rows once.
LEMMA GatherRows ==
    ASSUME SetLaws, NEW acc, NEW chunks, Once(acc, chunks), ChunksFlat(chunks)
    PROVE  GatherPartials(acc, chunks) \in Flat /\ Rows(GatherPartials(acc, chunks)) = Held(acc, chunks)
  <1> DEFINE S == acc.spilled
             Sum(s) == [r \in Row |-> IF acc.pending[r] # 0 \/ \E i \in s : chunks[i][r] # 0
                                      THEN 1 ELSE 0]
             Any(s) == CHOOSE x \in s : TRUE
             Step(f, s) == IF s = {} THEN acc.pending
                           ELSE Plus(f[s \ {Any(s)}], ReadSpill(chunks, Any(s)))
             IsFold(f) == f = [s \in SUBSET S |-> Step(f, s)]
  <1>1. GatherPartials(acc, chunks) = (CHOOSE f : IsFold(f))[S]
    BY Zenon DEF GatherPartials, FoldSet, MapThenFoldSet
  <1>2. \A s \in SUBSET S : s # {} => Any(s) \in s
    BY Zenon
  <1>3. acc.pending = Sum({})
    BY Zenon DEF Once, Flat
  <1>4. ASSUME NEW s \in SUBSET S, NEW x \in s
        PROVE  Plus(Sum(s \ {x}), ReadSpill(chunks, x)) = Sum(s)
    <2>1. x \in DOMAIN chunks /\ chunks[x] \in Flat /\ ReadSpill(chunks, x) = chunks[x]
      BY Zenon DEF Once, ChunksFlat, ReadSpill
    <2>2. ASSUME NEW r \in Row, chunks[x][r] # 0
          PROVE  acc.pending[r] = 0 /\ \A i \in s \ {x} : chunks[i][r] = 0
      BY <2>2 DEF Once, Rows
    <2> ASSUME NEW r \in Row
        PROVE  Sum(s \ {x})[r] + chunks[x][r] = Sum(s)[r]
      <3>1. chunks[x][r] = 0 \/ chunks[x][r] = 1
        BY <2>1, Zenon DEF Flat
      <3>2. CASE chunks[x][r] = 0
        <4> USE <3>2
        <4> (\E i \in s \ {x} : chunks[i][r] # 0) <=> (\E i \in s : chunks[i][r] # 0)
          BY Zenon
        <4>2. QED
          OBVIOUS
      <3>3. CASE chunks[x][r] = 1
        BY <3>3, <2>2
      <3>4. QED
        BY <3>1, <3>2, <3>3, Zenon
    <2>4. QED
      BY <2>1 DEF Plus
  <1> HIDE DEF Any, Sum
  <1>5. \E f : IsFold(f)
    <2> DEFINE G == [s \in SUBSET S |-> Sum(s)]
    <2> ASSUME NEW s \in SUBSET S PROVE Step(G, s) = Sum(s)
      <3>1. CASE s = {}
        BY <3>1, <1>3, Zenon
      <3>2. CASE s # {}
        BY <3>2, <1>2, <1>4, Zenon
      <3>3. QED
        BY <3>1, <3>2, Zenon
    <2> G = [s \in SUBSET S |-> Step(G, s)]
      BY Zenon
    <2>3. QED
      BY Zenon
  <1>6. IsFold(CHOOSE f : IsFold(f))
    BY <1>5, Zenon
  <1> DEFINE F == CHOOSE f : IsFold(f)
  <1> HIDE DEF F
  <1>7. \A s \in SUBSET S : F[s] = Step(F, s)
    BY <1>6, Zenon DEF F
  <1>8. ASSUME NEW s \in SUBSET S, s # {}, F[s \ {Any(s)}] = Sum(s \ {Any(s)})
        PROVE  F[s] = Sum(s)
    BY <1>2, <1>4, <1>7, <1>8, Zenon
  <1>9. F[{}] = Sum({})
    BY <1>3, <1>7, Zenon
  <1>10. IsFiniteSet(S)
    <2> acc.nextSpill \in Int /\ S \subseteq 0 .. acc.nextSpill
      BY DEF Once, ChunksFlat
    <2> IsFiniteSet(0 .. acc.nextSpill)
      BY Zenon DEF SetLaws
    <2>3. QED
      BY Zenon DEF SetLaws
  <1>11. ASSUME NEW s \in SUBSET S, F[s] # Sum(s) PROVE FALSE
    <2> DEFINE Bad == {Cardinality(t) : t \in {u \in SUBSET S : F[u] # Sum(u)}}
    <2>1. \A t \in SUBSET S : IsFiniteSet(t) /\ Cardinality(t) \in Nat
      BY <1>10, Zenon DEF SetLaws
    <2>2. Bad \in SUBSET Nat /\ Bad # {}
      BY <2>1, <1>11, Zenon
    <2>3. PICK m \in Bad : \A i \in Bad : m <= i
      BY <2>2, LeastNumber, Zenon
    <2> PICK t \in SUBSET S : F[t] # Sum(t) /\ Cardinality(t) = m
      BY <2>3, Zenon
    <2>5. t # {}
      BY <1>9, Zenon
    <2>6. F[t \ {Any(t)}] # Sum(t \ {Any(t)})
      BY <2>5, <1>8, Zenon
    <2>7. Cardinality(t \ {Any(t)}) \in Bad
      BY <2>6, Zenon
    <2> HIDE DEF Bad
    <2> Cardinality(t \ {Any(t)}) = Cardinality(t) - 1
      BY <2>1, <2>5, <1>2, Zenon DEF SetLaws
    <2> m <= m - 1 /\ m \in Nat
      BY <2>1, <2>3, <2>7, Zenon
    <2>10. QED
      OBVIOUS
  <1> GatherPartials(acc, chunks) = Sum(S)
    BY <1>1, <1>11, Zenon DEF F
  <1>13. QED
    BY DEF Sum, Flat, Rows, Held
-----------------------------------------------------------------------------
(* The window operator.                                                    *)

\* The clock of an accumulator is untouched, and so are the chunks below n.
SameClock(a, b) ==
    /\ b.wm = a.wm /\ b.emitted = a.emitted
    /\ b.lastFinal = a.lastFinal /\ b.floor = a.floor
SameBelow(chunks, later, n) ==
    \A i \in DOMAIN chunks : i < n => i \in DOMAIN later /\ later[i] = chunks[i]

\* An effect whose accumulator holds exactly these rows.
Holds(e, rows) ==
    /\ e = Effect(e.acc, e.chunks, e.out)
    /\ Once(e.acc, e.chunks) /\ ChunksFlat(e.chunks) /\ Held(e.acc, e.chunks) = rows

\* Spilling moves the part in memory to a chunk with a fresh index, and neither
\* loses nor doubles a row.
LEMMA SpillRows ==
    ASSUME NEW acc, NEW chunks, Once(acc, chunks), ChunksFlat(chunks),
           NEW e, e = SpillOverBudget(acc, chunks)
    PROVE  /\ Holds(e, Held(acc, chunks)) /\ e.out = NoRows
           /\ SameClock(acc, e.acc) /\ SameBelow(chunks, e.chunks, acc.nextSpill)
           /\ e.acc.nextSpill >= acc.nextSpill
           /\ \A i \in e.acc.spilled : i \in acc.spilled \/ i >= acc.nextSpill
  <1> DEFINE n == acc.nextSpill
             spill == [acc EXCEPT !.pending = NoRows, !.bytes = 0,
                                  !.spilled = @ \cup {acc.nextSpill}, !.nextSpill = @ + 1]
             more == WriteSpill(chunks, n, acc.pending)
  <1>1. CASE e = Effect(acc, chunks, NoRows)
    BY <1>1 DEF Effect, Holds, SameClock, SameBelow, Once
  <1>2. CASE e = Effect(spill, more, NoRows)
    <2> /\ DOMAIN spill = DOMAIN acc /\ spill.pending = NoRows
        /\ spill.spilled = acc.spilled \cup {n} /\ spill.nextSpill = n + 1
        /\ SameClock(acc, spill)
      BY Zenon DEF Once, SameClock
    <2>2. /\ DOMAIN more = DOMAIN chunks \cup {n} /\ more[n] = acc.pending
          /\ \A i \in DOMAIN chunks : i # n => more[i] = chunks[i]
      BY Zenon DEF WriteSpill
    <2> n \in Nat /\ n \notin acc.spilled /\ acc.pending \in Flat
      BY DEF Once, ChunksFlat
    <2>4. ChunksFlat(more)
      BY <2>2, Zenon DEF ChunksFlat
    <2>5. \A i \in acc.spilled : more[i] = chunks[i] /\ i \in DOMAIN chunks /\ i < n /\ i \in Nat
      BY <2>2, Zenon DEF Once, ChunksFlat
    <2> HIDE DEF spill, more
    <2>6. Held(spill, more) = Held(acc, chunks)
      <3> UNION {Rows(more[i]) : i \in acc.spilled \cup {n}}
              = Rows(acc.pending) \cup UNION {Rows(chunks[i]) : i \in acc.spilled}
        BY <2>2, <2>5
      <3>2. QED
        BY FlatBags, Zenon DEF Held
    <2>7. Once(spill, more)
      <3>1. \A i \in spill.spilled : i < spill.nextSpill /\ Rows(more[i]) \cap Rows(spill.pending) = {}
        BY <2>5, FlatBags
      <3>2. \A i, j \in spill.spilled : i # j => Rows(more[i]) \cap Rows(more[j]) = {}
        BY <2>2, <2>5, Zenon DEF Once
      <3> /\ spill.wm \in Int /\ spill.lastFinal \in Int /\ spill.floor \in Int
          /\ spill.pending \in Flat /\ spill.nextSpill \in Nat
        BY FlatBags DEF Once, SameClock
      <3> spill.spilled \subseteq DOMAIN more
        BY <2>2, <2>5, Zenon
      <3>5. QED
        BY <3>1, <3>2, Zenon DEF Once
    <2> e.acc = spill /\ e.chunks = more /\ e.out = NoRows
      BY <1>2 DEF Effect
    <2> SameBelow(chunks, more, n)
      BY <2>2 DEF SameBelow, ChunksFlat
    <2>10. QED
      BY <1>2, <2>4, <2>6, <2>7 DEF Holds
  <1>3. QED
    BY <1>1, <1>2, Zenon DEF SpillOverBudget

\* An accumulator with more rows in memory.
Adds(acc, a, bag) ==
    /\ DOMAIN a = DOMAIN acc /\ a.pending = Plus(acc.pending, bag) /\ SameClock(acc, a)
    /\ a.nextSpill = acc.nextSpill /\ a.spilled = acc.spilled

\* It holds them, if it did not before.
LEMMA PendingRows ==
    ASSUME NEW acc, NEW chunks, Once(acc, chunks), NEW bag \in Flat,
           Rows(bag) \cap Held(acc, chunks) = {}, NEW a, Adds(acc, a, bag)
    PROVE  Once(a, chunks) /\ Held(a, chunks) = Held(acc, chunks) \cup Rows(bag)
  <1> /\ DOMAIN a = DOMAIN acc /\ a.pending = Plus(acc.pending, bag) /\ SameClock(acc, a)
      /\ a.nextSpill = acc.nextSpill /\ a.spilled = acc.spilled
    BY Zenon DEF Adds
  <1>2. acc.pending \in Flat /\ Rows(acc.pending) \cap Rows(bag) = {}
    BY Zenon DEF Once, Held
  <1> a.pending \in Flat /\ Rows(a.pending) = Rows(acc.pending) \cup Rows(bag)
    BY <1>2, FlatBags
  <1>4. Held(a, chunks) = Held(acc, chunks) \cup Rows(bag)
    BY Zenon DEF Held
  <1> \A i \in acc.spilled : i < acc.nextSpill /\ Rows(chunks[i]) \cap Rows(a.pending) = {}
    BY DEF Once, Held
  <1> Once(a, chunks)
    BY Zenon DEF Once, SameClock
  <1>7. QED
    BY <1>4, Zenon

\* A row that is given to the operator is held from then on, unless it is late.
LEMMA DataRows ==
    ASSUME NEW acc, NEW chunks, Once(acc, chunks), ChunksFlat(chunks),
           NEW r \in Row, r \notin Held(acc, chunks),
           NEW e, e = WindowData(acc, chunks, r)
    PROVE  /\ Holds(e, Held(acc, chunks) \cup IF DropLate(acc, r) THEN {} ELSE {r})
           /\ e.out = NoRows /\ SameClock(acc, e.acc)
  <1> DEFINE a == [acc EXCEPT !.pending = Plus(@, OneRow(r)), !.bytes = @ + 1]
  <1>1. CASE DropLate(acc, r)
    BY <1>1, Zenon DEF WindowData, Effect, Holds, SameClock
  <1>2. CASE ~DropLate(acc, r)
    <2>1. /\ OneRow(r) \in Flat /\ Rows(OneRow(r)) = {r}
          /\ Rows(OneRow(r)) \cap Held(acc, chunks) = {}
      BY FlatBags
    <2>2. Adds(acc, a, OneRow(r))
      BY Zenon DEF Adds, Once, SameClock
    <2> HIDE DEF a
    <2> Once(a, chunks) /\ Held(a, chunks) = Held(acc, chunks) \cup {r} /\ SameClock(acc, a)
      BY <2>1, <2>2, PendingRows DEF Adds
    <2> e = SpillOverBudget(a, chunks)
      BY <1>2, Zenon DEF WindowData, a
    <2> Holds(e, Held(acc, chunks) \cup {r}) /\ e.out = NoRows /\ SameClock(a, e.acc)
      BY SpillRows
    <2>6. QED
      BY <1>2, Zenon DEF SameClock
  <1>3. QED
    BY <1>1, <1>2, Zenon
\* Taking over a part of the old state: its rows in open windows are held, in
\* memory or in chunks with fresh indexes.
LEMMA AbsorbRows ==
    ASSUME NEW e, NEW rows, Holds(e, rows), NEW bag \in Flat, Rows(bag) \cap rows = {},
           NEW wm, NEW x, x = Absorb(e, bag, wm)
    PROVE  /\ Holds(x, rows \cup {r \in Rows(bag) : WindowEnd(r) > wm}) /\ x.out = NoRows
           /\ SameClock(e.acc, x.acc) /\ SameBelow(e.chunks, x.chunks, e.acc.nextSpill)
           /\ x.acc.nextSpill >= e.acc.nextSpill
           /\ \A i \in x.acc.spilled : i \in e.acc.spilled \/ i >= e.acc.nextSpill
  <1> DEFINE kept == Only(bag, LAMBDA r : WindowEnd(r) > wm)
             a == [e.acc EXCEPT !.pending = Plus(@, kept), !.bytes = @ + Size(kept)]
  <1>1. kept \in Flat /\ Rows(kept) = {r \in Rows(bag) : WindowEnd(r) > wm}
    BY Zenon DEF Only, Flat, Rows
  <1>2. x = SpillOverBudget(a, e.chunks)
    BY Zenon DEF Absorb
  <1> HIDE DEF kept
  <1>3. Adds(e.acc, a, kept)
    BY Zenon DEF Adds, Holds, Once, SameClock
  <1> HIDE DEF a
  <1> Once(e.acc, e.chunks) /\ ChunksFlat(e.chunks) /\ Held(e.acc, e.chunks) = rows
    BY Zenon DEF Holds
  <1>5. Rows(kept) \cap Held(e.acc, e.chunks) = {}
    BY <1>1, Zenon
  <1> Once(a, e.chunks) /\ Held(a, e.chunks) = rows \cup Rows(kept)
    BY <1>1, <1>3, <1>5, PendingRows
  <1> /\ Holds(x, Held(a, e.chunks)) /\ x.out = NoRows
      /\ SameClock(a, x.acc) /\ SameBelow(e.chunks, x.chunks, a.nextSpill)
      /\ x.acc.nextSpill >= a.nextSpill
      /\ \A i \in x.acc.spilled : i \in a.spilled \/ i >= a.nextSpill
    BY <1>2, SpillRows, Zenon
  <1>8. QED
    BY <1>1, <1>3, Zenon DEF Adds, SameClock

\* Induction over the natural numbers.
LEMMA Induction ==
    ASSUME SetLaws, NEW H, 0 \in H, \A n \in Nat : n \in H => n + 1 \in H
    PROVE  \A n \in Nat : n \in H
  <1> DEFINE Bad == Nat \ H
  <1> SUFFICES ASSUME Bad # {} PROVE FALSE
    BY Zenon
  <1> PICK m \in Bad : \A n \in Bad : m <= n
    BY LeastNumber, Zenon
  <1> m # 0 /\ m - 1 \in Nat
    OBVIOUS
  <1> m - 1 \in H
    OBVIOUS
  <1> (m - 1) + 1 \in H
    BY Zenon
  <1>5. QED
    OBVIOUS

\* The step of the recursion in rebuild_retained_state.
RebuildStep(acc, chunks, wm, f, n) ==
    IF n = 0
    THEN Absorb(Effect([acc EXCEPT !.pending = NoRows, !.bytes = 0, !.spilled = {}], chunks, NoRows),
                acc.pending, wm)
    ELSE IF n - 1 \in acc.spilled THEN Absorb(f[n - 1], ReadSpill(chunks, n - 1), wm)
    ELSE f[n - 1]

\* The recursion has a solution.
LEMMA RebuildIs ==
    ASSUME SetLaws, NEW acc, NEW chunks, NEW wm, acc.nextSpill \in Nat
    PROVE  \E f :
             /\ \A n \in 0 .. acc.nextSpill : f[n] = RebuildStep(acc, chunks, wm, f, n)
             /\ RebuildRetainedState(acc, chunks, wm)
                   = [f[acc.nextSpill] EXCEPT !.chunks = DeleteSpills(@, acc.spilled)]
  <1> DEFINE Step(f, n) == RebuildStep(acc, chunks, wm, f, n)
             Solves(f, n) == f = [i \in 0 .. n |-> Step(f, i)]
             H == {n \in Nat : \E f : Solves(f, n)}
             F == CHOOSE f : Solves(f, acc.nextSpill)
  <1>1. 0 \in H
    <2> DEFINE f == [i \in 0 .. 0 |-> Step(chunks, 0)]
    <2> \A i \in 0 .. 0 : Step(f, i) = Step(chunks, 0)
      BY DEF RebuildStep
    <2> f = [i \in 0 .. 0 |-> Step(f, i)]
      BY Zenon
    <2>3. QED
      BY Zenon
  <1>2. ASSUME NEW n \in Nat, n \in H
        PROVE  n + 1 \in H
    <2>1. PICK f : f = [i \in 0 .. n |-> Step(f, i)]
      BY <1>2, Zenon
    <2> DEFINE h == [i \in 0 .. n + 1 |-> Step(f, i)]
    <2>2. \A i \in 0 .. n : f[i] = Step(f, i)
      BY <2>1, Zenon
    <2>3. \A i \in 0 .. n + 1 : h[i] = Step(f, i)
      BY Zenon
    <2> HIDE DEF h
    <2>4. \A i \in 0 .. n : h[i] = f[i]
      BY <2>2, <2>3
    <2> \A i \in 0 .. n + 1 : Step(f, i) = Step(h, i)
      <3> \A i \in 0 .. n + 1 : i = 0 \/ i - 1 \in 0 .. n
        OBVIOUS
      <3>2. QED
        BY <2>4, Zenon DEF RebuildStep
    <2> h = [i \in 0 .. n + 1 |-> Step(h, i)]
      BY Zenon DEF h
    <2>7. QED
      OBVIOUS
  <1>3. \E f : Solves(f, acc.nextSpill)
    <2> HIDE DEF Solves
    <2> \A n \in Nat : n \in H
      <3> HIDE DEF H
      <3>1. QED
        BY <1>1, <1>2, Induction, Zenon
    <2>2. QED
      BY Zenon
  <1>4. Solves(F, acc.nextSpill)
    <2> HIDE DEF Solves
    <2>1. QED
      BY <1>3, Zenon
  <1> RebuildRetainedState(acc, chunks, wm)
          = [F[acc.nextSpill] EXCEPT !.chunks = DeleteSpills(@, acc.spilled)]
    BY Zenon DEF RebuildRetainedState, RebuildStep
  <1> HIDE DEF F
  <1> \A n \in 0 .. acc.nextSpill : F[n] = Step(F, n)
    BY <1>4, Zenon
  <1>7. QED
    BY Zenon

\* The state of the rebuild when these rows of the old state are done.
Rebuilding(acc, chunks, e, rows) ==
    /\ Holds(e, rows) /\ SameClock(acc, e.acc) /\ SameBelow(chunks, e.chunks, acc.nextSpill)
    /\ e.acc.nextSpill >= acc.nextSpill
    /\ \A i \in e.acc.spilled : i >= acc.nextSpill

\* Taking over one more part of the old state.
LEMMA RebuildAbsorb ==
    ASSUME NEW acc, NEW chunks, Once(acc, chunks), ChunksFlat(chunks),
           NEW e, NEW rows, Rebuilding(acc, chunks, e, rows),
           NEW bag \in Flat, Rows(bag) \cap rows = {}, NEW wm, NEW x, x = Absorb(e, bag, wm)
    PROVE  Rebuilding(acc, chunks, x, rows \cup {r \in Rows(bag) : WindowEnd(r) > wm})
  <1> DEFINE more == rows \cup {r \in Rows(bag) : WindowEnd(r) > wm}
  <1>1. Holds(e, rows)
    BY Zenon DEF Rebuilding
  <1> /\ Holds(x, more)
      /\ SameClock(e.acc, x.acc) /\ SameBelow(e.chunks, x.chunks, e.acc.nextSpill)
      /\ x.acc.nextSpill >= e.acc.nextSpill
      /\ \A i \in x.acc.spilled : i \in e.acc.spilled \/ i >= e.acc.nextSpill
    BY <1>1, AbsorbRows
  <1> HIDE DEF more
  <1> /\ acc.nextSpill \in Nat /\ e.acc.nextSpill \in Nat /\ x.acc.nextSpill \in Nat
      /\ e.acc.nextSpill >= acc.nextSpill
      /\ \A i \in DOMAIN chunks : i \in Nat
      /\ \A i \in x.acc.spilled : i \in Nat
    BY <1>1, Zenon DEF Rebuilding, Holds, Once, ChunksFlat
  <1>4. SameClock(acc, x.acc)
    BY Zenon DEF Rebuilding, SameClock
  <1>5. SameBelow(chunks, x.chunks, acc.nextSpill)
    BY DEF Rebuilding, SameBelow
  <1> \A i \in x.acc.spilled : i >= acc.nextSpill
    BY DEF Rebuilding
  <1> x.acc.nextSpill >= acc.nextSpill
    OBVIOUS
  <1>8. QED
    BY <1>4, <1>5, Zenon DEF Rebuilding, more

\* rebuild_retained_state keeps the rows in open windows, and no other.
LEMMA RebuildRows ==
    ASSUME SetLaws, NEW acc, NEW chunks, Once(acc, chunks), ChunksFlat(chunks), NEW wm,
           NEW x, x = RebuildRetainedState(acc, chunks, wm)
    PROVE  Holds(x, {r \in Held(acc, chunks) : WindowEnd(r) > wm}) /\ SameClock(acc, x.acc)
  <1> DEFINE N == acc.nextSpill
             upto(n) == Rows(acc.pending) \cup UNION {Rows(chunks[i]) : i \in {k \in acc.spilled : k < n}}
             open(rows) == {r \in rows : WindowEnd(r) > wm}
             empty == [acc EXCEPT !.pending = NoRows, !.bytes = 0, !.spilled = {}]
             start == Effect(empty, chunks, NoRows)
  <1>1. /\ N \in Nat /\ acc.pending \in Flat
        /\ \A i \in acc.spilled : i \in Nat /\ i < N /\ chunks[i] \in Flat /\ i \in DOMAIN chunks
    BY Zenon DEF Once, ChunksFlat
  <1>2. PICK f : /\ \A n \in 0 .. N : f[n] = RebuildStep(acc, chunks, wm, f, n)
                 /\ x = [f[N] EXCEPT !.chunks = DeleteSpills(@, acc.spilled)]
    BY <1>1, RebuildIs
  <1>3. Rebuilding(acc, chunks, start, {})
    <2> /\ DOMAIN empty = DOMAIN acc /\ empty.pending = NoRows /\ empty.spilled = {}
        /\ empty.nextSpill = N /\ SameClock(acc, empty)
      BY Zenon DEF Once, SameClock
    <2> HIDE DEF empty
    <2>2. Once(empty, chunks)
      BY FlatBags, Zenon DEF Once, SameClock
    <2>3. Held(empty, chunks) = {}
      BY FlatBags, Zenon DEF Held
    <2> start.acc = empty /\ start.chunks = chunks /\ start.out = NoRows
      BY Zenon DEF Effect
    <2> Holds(start, {})
      BY <2>2, <2>3, Zenon DEF Holds
    <2>6. QED
      BY <1>1 DEF Rebuilding, SameBelow
  <1> HIDE DEF empty
  <1>4. Rebuilding(acc, chunks, f[0], open(upto(0)))
    <2>1. f[0] = Absorb(start, acc.pending, wm)
      BY <1>1, <1>2 DEF RebuildStep, empty
    <2> Rebuilding(acc, chunks, f[0], {} \cup {r \in Rows(acc.pending) : WindowEnd(r) > wm})
      <3> HIDE DEF start
      <3>1. QED
        BY <1>1, <1>3, <2>1, RebuildAbsorb
    <2> {} \cup {r \in Rows(acc.pending) : WindowEnd(r) > wm} = open(upto(0))
      BY <1>1
    <2>4. QED
      BY Zenon
  <1>5. ASSUME NEW n \in Nat, n + 1 <= N, Rebuilding(acc, chunks, f[n], open(upto(n)))
        PROVE  Rebuilding(acc, chunks, f[n + 1], open(upto(n + 1)))
    <2>1. f[n + 1] = IF n \in acc.spilled THEN Absorb(f[n], ReadSpill(chunks, n), wm) ELSE f[n]
      <3> n + 1 \in 0 .. N /\ (n + 1) - 1 = n /\ n + 1 # 0
        BY <1>1, <1>5
      <3>2. QED
        BY <1>2, Zenon DEF RebuildStep
    <2>2. CASE n \notin acc.spilled
      <3> USE <2>2
      <3> upto(n + 1) = upto(n)
        BY <1>1
      <3> HIDE DEF upto, open
      <3>2. QED
        BY <1>5, <2>1, Zenon
    <2>3. CASE n \in acc.spilled
      <3> USE <2>3
      <3>1. ReadSpill(chunks, n) = chunks[n] /\ chunks[n] \in Flat
        BY <1>1, Zenon DEF ReadSpill
      <3>2. Rows(chunks[n]) \cap open(upto(n)) = {}
        BY <1>1 DEF Once
      <3>3. open(upto(n + 1)) = open(upto(n)) \cup {r \in Rows(chunks[n]) : WindowEnd(r) > wm}
        <4> {k \in acc.spilled : k < n + 1} = {k \in acc.spilled : k < n} \cup {n}
          BY <1>1
        <4> upto(n + 1) = upto(n) \cup Rows(chunks[n])
          BY Zenon
        <4> HIDE DEF upto
        <4>3. QED
          BY Zenon
      <3> f[n + 1] = Absorb(f[n], chunks[n], wm)
        BY <2>1, <3>1, Zenon
      <3> HIDE DEF upto, open
      <3> Rebuilding(acc, chunks, f[n + 1], open(upto(n)) \cup {r \in Rows(chunks[n]) : WindowEnd(r) > wm})
        BY <1>5, <3>1, <3>2, RebuildAbsorb
      <3>6. QED
        BY <3>3, Zenon
    <2>4. QED
      BY <2>2, <2>3, Zenon
  <1>6. Rebuilding(acc, chunks, f[N], open(upto(N)))
    <2> DEFINE H == {n \in Nat : n <= N => Rebuilding(acc, chunks, f[n], open(upto(n)))}
    <2> HIDE DEF upto, open
    <2>1. 0 \in H
      BY <1>4, Zenon
    <2> \A n \in Nat : n \in H => n + 1 \in H
      BY <1>1, <1>5
    <2> \A n \in Nat : n \in H
      <3> HIDE DEF H
      <3>1. QED
        BY <2>1, Induction, Zenon
    <2>4. QED
      BY <1>1
  <1>7. open(upto(N)) = open(Held(acc, chunks))
    <2> {k \in acc.spilled : k < N} = acc.spilled
      BY <1>1, Zenon
    <2>2. QED
      BY Zenon DEF Held
  <1> HIDE DEF upto, open
  <1> DEFINE e == f[N]
             left == DeleteSpills(e.chunks, acc.spilled)
  <1> Holds(e, open(Held(acc, chunks))) /\ SameClock(acc, e.acc) /\ \A i \in e.acc.spilled : i >= N
    BY <1>6, <1>7, Zenon DEF Rebuilding
  <1>9. x.acc = e.acc /\ x.chunks = left /\ x = Effect(x.acc, x.chunks, x.out)
    BY <1>2, Zenon DEF Holds, Effect
  <1> HIDE DEF e
  <1> \A i \in e.acc.spilled : i \in DOMAIN left /\ left[i] = e.chunks[i]
    BY <1>1 DEF DeleteSpills, Holds, Once, ChunksFlat
  <1>11. ChunksFlat(left)
    BY Zenon DEF Holds, ChunksFlat, DeleteSpills
  <1> HIDE DEF left
  <1> Once(e.acc, left)
    BY Zenon DEF Holds, Once
  <1> Held(e.acc, left) = Held(e.acc, e.chunks)
    BY Zenon DEF Held
  <1>14. QED
    BY <1>9, <1>11, Zenon DEF Holds, open

\* The end of a window is a natural number.
LEMMA WindowEndIsNumber == \A r \in Row : WindowEnd(r) \in Nat
  <1> ASSUME NEW r \in Row PROVE WindowEnd(r) \in Nat
    <2> EventTime[r] \in Nat /\ WindowSize \in Nat /\ WindowSize > 0
      BY WindowAssumption
    <2> DEFINE q == EventTime[r] \div WindowSize
    <2> q \in Nat
      OBVIOUS
    <2> HIDE DEF q
    <2> (q + 1) * WindowSize \in Nat
      OBVIOUS
    <2>4. QED
      BY Zenon DEF WindowEnd, q
  <1>2. QED
    BY Zenon

\* Two accumulators with the same rows in the same places.
SameRows(a, b) ==
    /\ DOMAIN b = DOMAIN a /\ b.pending = a.pending
    /\ b.nextSpill = a.nextSpill /\ b.spilled = a.spilled

\* They hold the same rows.
LEMMA SameRowsHeld ==
    ASSUME NEW a, NEW b, NEW chunks, Once(a, chunks), SameRows(a, b),
           b.wm \in Int, b.lastFinal \in Int, b.floor \in Int
    PROVE  Once(b, chunks) /\ Held(b, chunks) = Held(a, chunks)
  BY Zenon DEF Once, SameRows, Held

\* A Final merge, in terms of the rows that are held and that come out.
Merges(acc, chunks, e, wm) ==
    /\ Holds(e, {r \in Held(acc, chunks) : WindowEnd(r) > wm})
    /\ e.out \in Flat /\ Rows(e.out) = {r \in Held(acc, chunks) : Fires(acc, wm, r)}
    /\ e.acc.wm = acc.wm /\ e.acc.lastFinal = wm
    /\ e.acc.emitted = acc.emitted \cup
            {WindowEnd(r) : r \in {x \in Held(acc, chunks) : WindowEnd(x) <= wm}}
    /\ e.acc.floor = Later(acc.floor, wm - AllowedLateness)

\* finalize, of WindowAccum, is such a merge.
LEMMA FinalizeRows ==
    ASSUME SetLaws, NEW acc, NEW chunks, Once(acc, chunks), ChunksFlat(chunks), NEW wm \in Int,
           NEW e, e = Finalize(acc, chunks, wm)
    PROVE  Merges(acc, chunks, e, wm)
  <1> DEFINE full == GatherPartials(acc, chunks)
             closed == {WindowEnd(r) : r \in {x \in Row : full[x] > 0 /\ WindowEnd(x) <= wm}}
             floor == Later(acc.floor, wm - AllowedLateness)
             marked == [acc EXCEPT !.lastFinal = wm, !.emitted = @ \cup closed, !.floor = floor]
             rebuilt == RebuildRetainedState(marked, chunks, wm)
             out == Only(full, LAMBDA r : Fires(acc, wm, r))
  <1>1. e = [rebuilt EXCEPT !.out = out]
    BY Zenon DEF Finalize
  <1>2. full \in Flat /\ Rows(full) = Held(acc, chunks)
    BY GatherRows, Zenon
  <1> HIDE DEF full
  <1>3. closed = {WindowEnd(r) : r \in {x \in Held(acc, chunks) : WindowEnd(x) <= wm}}
    <2> \A x \in Row : full[x] > 0 <=> x \in Held(acc, chunks)
      BY <1>2 DEF Flat, Rows
    <2> Held(acc, chunks) \subseteq Row
      BY <1>2, Zenon DEF Rows
    <2>3. QED
      BY Zenon
  <1>4. out \in Flat /\ Rows(out) = {r \in Held(acc, chunks) : Fires(acc, wm, r)}
    <2> out \in Flat /\ Rows(out) = {r \in Rows(full) : Fires(acc, wm, r)}
      BY <1>2, Zenon DEF Only, Flat, Rows
    <2>2. QED
      BY <1>2, Zenon
  <1> HIDE DEF closed, out
  <1>5. /\ SameRows(acc, marked) /\ marked.wm = acc.wm /\ marked.lastFinal = wm
        /\ marked.emitted = acc.emitted \cup closed /\ marked.floor = floor
    BY Zenon DEF Once, SameRows
  <1>6. floor \in Int /\ acc.wm \in Int
    BY WindowAssumption DEF Later, Once
  <1> HIDE DEF marked, floor
  <1> Once(marked, chunks) /\ Held(marked, chunks) = Held(acc, chunks)
    BY <1>5, <1>6, SameRowsHeld, Zenon
  <1> Holds(rebuilt, {r \in Held(marked, chunks) : WindowEnd(r) > wm}) /\ SameClock(marked, rebuilt.acc)
    BY RebuildRows, Zenon
  <1> HIDE DEF rebuilt
  <1> e.acc = rebuilt.acc /\ e.chunks = rebuilt.chunks /\ e.out = out /\ e = Effect(e.acc, e.chunks, e.out)
    BY <1>1, Zenon DEF Holds, Effect
  <1> Holds(e, {r \in Held(acc, chunks) : WindowEnd(r) > wm})
    BY Zenon DEF Holds
  <1>11. QED
    BY <1>3, <1>4, <1>5, Zenon DEF Merges, SameClock, floor

\* A watermark either only moves the clock, or starts a merge.
LEMMA WatermarkRows ==
    ASSUME SetLaws, NEW acc, NEW chunks, Once(acc, chunks), ChunksFlat(chunks), NEW w \in Int,
           NEW e, e = WindowWatermark(acc, chunks, w)
    PROVE  \E seen : /\ SameRows(acc, seen) /\ Once(seen, chunks) /\ Held(seen, chunks) = Held(acc, chunks)
                     /\ seen.wm = Later(acc.wm, w) /\ seen.emitted \subseteq acc.emitted
                     /\ seen.lastFinal = acc.lastFinal /\ seen.floor = acc.floor
                     /\ IF acc.lastFinal = NoTime \/ seen.wm - acc.lastFinal >= FinalThrottle
                        THEN Merges(seen, chunks, e, seen.wm)
                        ELSE e = Effect(seen, chunks, NoRows)
  <1> DEFINE wm == Later(acc.wm, w)
             pruned == {x \in acc.emitted : x + AllowedLateness >= wm}
             seen == [acc EXCEPT !.wm = wm, !.emitted = pruned]
  <1>1. e = IF acc.lastFinal = NoTime \/ wm - acc.lastFinal >= FinalThrottle
            THEN Finalize(seen, chunks, wm) ELSE Effect(seen, chunks, NoRows)
    BY Zenon DEF WindowWatermark
  <1> wm \in Int /\ acc.lastFinal \in Int /\ acc.floor \in Int /\ pruned \subseteq acc.emitted
    BY Zenon DEF Later, Once
  <1> HIDE DEF wm, pruned
  <1> /\ SameRows(acc, seen) /\ seen.wm = wm /\ seen.emitted = pruned
      /\ seen.lastFinal = acc.lastFinal /\ seen.floor = acc.floor
    BY Zenon DEF Once, SameRows
  <1> HIDE DEF seen
  <1> Once(seen, chunks) /\ Held(seen, chunks) = Held(acc, chunks)
    BY SameRowsHeld, Zenon
  <1> e = Finalize(seen, chunks, wm) => Merges(seen, chunks, e, wm)
    BY FinalizeRows, Zenon
  <1>6. QED
    BY <1>1, Zenon DEF wm

\* A watermark shares the rows between the state and the output.
Splits(acc, chunks, e) ==
    /\ Once(e.acc, e.chunks) /\ ChunksFlat(e.chunks) /\ e.out \in Flat
    /\ Held(e.acc, e.chunks) \cap Rows(e.out) = {}
    /\ Held(e.acc, e.chunks) \cup Rows(e.out) \subseteq Held(acc, chunks)

\* Whether it merges or is throttled.
LEMMA WatermarkSplits ==
    ASSUME SetLaws, NEW acc, NEW chunks, Once(acc, chunks), ChunksFlat(chunks), NEW w \in Int,
           NEW e, e = WindowWatermark(acc, chunks, w)
    PROVE  Splits(acc, chunks, e)
  <1> PICK seen : /\ Once(seen, chunks) /\ Held(seen, chunks) = Held(acc, chunks)
                  /\ \/ Merges(seen, chunks, e, seen.wm)
                     \/ e = Effect(seen, chunks, NoRows)
    BY WatermarkRows
  <1>2. CASE Merges(seen, chunks, e, seen.wm)
    <2> \A r \in Held(acc, chunks) : WindowEnd(r) \in Nat
      BY WindowEndIsNumber, Zenon DEF Held, Rows
    <2> seen.wm \in Int
      BY Zenon DEF Once
    <2>3. QED
      BY <1>2 DEF Splits, Merges, Holds, Fires
  <1>3. CASE e = Effect(seen, chunks, NoRows)
    <2> e.acc = seen /\ e.chunks = chunks /\ e.out = NoRows
      BY <1>3 DEF Effect
    <2>2. QED
      BY FlatBags, Zenon DEF Splits
  <1>4. QED
    BY <1>2, <1>3, Zenon

\* What the operator has once it was given row r.
Gives(acc, chunks, r, e) ==
    /\ Once(e.acc, e.chunks) /\ ChunksFlat(e.chunks) /\ e.out \in Flat
    /\ Held(e.acc, e.chunks) \cap Rows(e.out) = {}
    /\ Held(e.acc, e.chunks) \cup Rows(e.out) \subseteq Held(acc, chunks) \cup {r}

\* A row, and the watermark that may follow it: the operator holds no row twice,
\* emits none that it holds, and has no row but its own and the one it was given.
LEMMA GivenRow ==
    ASSUME SetLaws, NEW acc, NEW chunks, Once(acc, chunks), ChunksFlat(chunks),
           NEW r \in Row, r \notin Held(acc, chunks),
           NEW data, data = WindowData(acc, chunks, r),
           NEW w \in Int, NEW e, e = data \/ e = WindowWatermark(data.acc, data.chunks, w)
    PROVE  Gives(acc, chunks, r, e)
  <1>1. /\ Holds(data, Held(acc, chunks) \cup IF DropLate(acc, r) THEN {} ELSE {r})
        /\ data.out = NoRows
    BY DataRows, Zenon
  <1>2. /\ Once(data.acc, data.chunks) /\ ChunksFlat(data.chunks)
        /\ Held(data.acc, data.chunks) \subseteq Held(acc, chunks) \cup {r}
    BY <1>1, Zenon DEF Holds
  <1>3. CASE e = WindowWatermark(data.acc, data.chunks, w)
    <2>1. Splits(data.acc, data.chunks, e)
      BY <1>2, <1>3, WatermarkSplits, Zenon
    <2>2. QED
      BY <1>2, <2>1, Zenon DEF Splits, Gives
  <1>4. CASE e = data
    <2>1. NoRows \in Flat /\ Rows(NoRows) = {}
      BY FlatBags, Zenon
    <2>2. QED
      BY <1>1, <1>2, <1>4, <2>1, Zenon DEF Gives
  <1>5. QED
    BY <1>3, <1>4, Zenon

-----------------------------------------------------------------------------
(* The steps.  Each action preserves Sound.                                *)

\* The record of the batch in flight, but for the point that it is at.
SameBatch ==
    /\ DOMAIN run' = RunFields
    /\ run'.batch = run.batch /\ run'.files = run.files /\ run'.attempt = run.attempt
SameWork ==
    /\ SameBatch /\ run'.unread = run.unread /\ run'.acc = run.acc /\ run'.wm = run.wm
    /\ run'.out = run.out /\ run'.late = run.late

\* A step to another point changes nothing else of the record.
LEMMA GotoPoint ==
    ASSUME NEW p, DOMAIN run = RunFields, Goto(p)
    PROVE  run'.pc = p /\ run'.marker = run.marker /\ SameWork
  BY Zenon DEF Goto, RunFields, SameWork, SameBatch

\* The line is where it was, if no commit is under way.
LEMMA LineStays ==
    ASSUME query' = query, ck'.committed = ck.committed, ~Settling, ~Settling'
    PROVE  SettledBatch' = SettledBatch /\ SettledRows' = SettledRows
  BY Zenon DEF SettledBatch, SettledRows

\* The points between which the source and the state are committed.
LEMMA SettlingPoints ==
    /\ Settling => run.pc \in {"source put", "source promoted"} /\ query = "window"
    /\ InFlight => run.pc \in Points
    /\ Gathered => InFlight
    /\ run.pc \in {"stopped", "idle", "state put"} => ~InFlight /\ ~Gathered /\ ~Settling
    /\ run.pc \in {"planned", "reading"} => InFlight /\ ~Gathered /\ ~Settling
    /\ run.pc \in {"ended", "written", "logged", "marked"} => InFlight /\ Gathered /\ ~Settling
  BY Zenon DEF Settling, InFlight, Gathered, Points

\* A new file.
LEMMA ArriveSound ==
    ASSUME Sound, NEW r \in Row, Arrive(r)
    PROVE  Sound'
  <1> /\ input \subseteq input' /\ input' \subseteq Row \cup input
      /\ UNCHANGED <<store, log, ck, run, query, late, bound>>
    BY Zenon DEF Arrive
  <1> /\ Settling' = Settling /\ SettledBatch' = SettledBatch /\ SettledRows' = SettledRows
      /\ InState' = InState /\ InFlight' = InFlight /\ Gathered' = Gathered
      /\ Mine' = Mine /\ Written' = Written
    BY Zenon DEF Settling, SettledBatch, SettledRows, InState, InFlight, Gathered, Mine, Written
  <1>3. Stored'
    BY Zenon DEF Sound, Stored
  <1>4. FilesOnce'
    BY Zenon DEF Sound, FilesOnce
  <1>5. Line'
    BY Zenon DEF Sound, Line
  <1>6. Running'
    BY Zenon DEF Sound, Running
  <1>7. Flight'
    BY Zenon DEF Sound, Flight
  <1> Mapping'
    BY Zenon DEF Sound, Mapping
  <1> Windowing'
    BY Zenon DEF Sound, Windowing
  <1>10. QED
    BY <1>3, <1>4, <1>5, <1>6, <1>7, Zenon DEF Sound

\* The marker that the runner starts with.
LEMMA NextMarker ==
    ASSUME Stored
    PROVE  /\ Max(ck.offsets \cup {-1}) + 1 \in Nat
           /\ ck.offsets = {} => Max(ck.offsets \cup {-1}) = -1
  <1> DEFINE S == ck.offsets \cup {-1}
  <1> \E m \in S : \A n \in S : m >= n
    <2>1. CASE ck.offsets = {}
      BY <2>1
    <2>2. CASE ck.offsets # {}
      BY <2>2 DEF Stored
    <2>3. QED
      BY <2>1, <2>2, Zenon
  <1> Max(S) \in S
    BY Zenon DEF Max
  <1>3. QED
    BY DEF Stored

\* The process is started.
LEMMA StartSound ==
    ASSUME Sound, Start
    PROVE  Sound'
  <1> /\ run.pc = "stopped" /\ run'.pc = "idle" /\ "pc" \in DOMAIN run' /\ "marker" \in DOMAIN run'
      /\ run'.marker = Max(ck.offsets \cup {-1}) + 1
      /\ UNCHANGED <<input, store, log, ck, query, late, bound>>
    BY Zenon DEF Start, Stopped
  <1>2. ~Settling /\ ~Settling' /\ ~InFlight' /\ ~Gathered'
    BY Zenon DEF Settling, InFlight, Gathered
  <1>3. SettledBatch' = SettledBatch /\ SettledRows' = SettledRows /\ InState' = InState
    BY <1>2, Zenon DEF SettledBatch, SettledRows, InState
  <1>4. Stored' /\ FilesOnce'
    BY Zenon DEF Sound, Stored, FilesOnce
  <1>5. Line'
    BY <1>3, Zenon DEF Sound, Line
  <1> Running'
    <2> run'.marker \in Nat
      BY NextMarker, Zenon DEF Sound
    <2>2. QED
      BY <1>3, Zenon DEF Sound, Running, Points
  <1> Flight' /\ Mapping' /\ Windowing'
    BY <1>2, Zenon DEF Sound, Flight, Mapping, Windowing
  <1>8. QED
    BY <1>4, <1>5, Zenon DEF Sound

\* A stop, at a point where no commit is under way.
LEMMA StopSound ==
    ASSUME Survivable, Sound, Stop
    PROVE  Sound' /\ ~Settling
  <1> /\ run.pc \in StopPoints[query] /\ run' = Stopped /\ run'.pc = "stopped" /\ "pc" \in DOMAIN run'
      /\ bound'.attempt = bound.attempt /\ DOMAIN bound' = DOMAIN bound
      /\ UNCHANGED <<input, store, log, ck, query, late>>
    BY Zenon DEF Stop, Stopped, Sound, Stored
  <1>2. run.pc # "source put" /\ ~Settling
    BY Zenon DEF Survivable, Settling, Sound, Stored
  <1>3. ~Settling' /\ ~InFlight' /\ ~Gathered'
    BY Zenon DEF Settling, InFlight, Gathered
  <1>4. SettledBatch' = SettledBatch /\ SettledRows' = SettledRows /\ InState' = InState
    BY <1>2, <1>3, Zenon DEF SettledBatch, SettledRows, InState
  <1>5. Stored' /\ FilesOnce'
    BY Zenon DEF Sound, Stored, FilesOnce
  <1>6. Line'
    BY <1>4, Zenon DEF Sound, Line
  <1> Running'
    BY <1>2, <1>4, Zenon DEF Sound, Running
  <1> Flight' /\ Mapping' /\ Windowing'
    BY <1>3, Zenon DEF Sound, Flight, Mapping, Windowing
  <1>9. QED
    BY <1>2, <1>5, <1>6, Zenon DEF Sound

\* Between two batches, the next one is the one after the line.
LEMMA NextBatch ==
    ASSUME Sound, run.pc = "idle"
    PROVE  CurrentBatchId = SettledBatch + 1 /\ SettledBatch = ck.committed.batch /\ SettledRows = ck.committed.files
  <1> SettledBatch = ck.committed.batch /\ SettledRows = ck.committed.files
    BY Zenon DEF SettledBatch, SettledRows, Settling
  <1> ck.staged # NoRecord => ck.staged.batch = SettledBatch + 1
    BY Zenon DEF Sound, Running
  <1> ck.staged = NoRecord /\ ck.committed = NoRecord => Max(ck.offsets \cup {-1}) + 1 = SettledBatch + 1
    BY NextMarker DEF Sound, Stored, NoRecord
  <1>4. QED
    BY Zenon DEF CurrentBatchId

\* The batch is staged, unless that is a write which may fail.
LEMMA StagesSource ==
    ASSUME Survivable, Sound, MakeStream
    PROVE  /\ ck' = [ck EXCEPT !.staged = [batch |-> CurrentBatchId,
                                           files |-> ck.committed.files \cup NewFiles]]
           /\ bound' = [bound EXCEPT !.attempt = @ + 1,
                                     !.idle = IF NewFiles = {} THEN @ + 1 ELSE @]
  <1> query \in Query
    BY Zenon DEF Sound, Stored
  <1> ~MayFail("source stage")
    BY Zenon DEF MayFail, Survivable
  <1>3. QED
    BY Zenon DEF MakeStream

\* make_stream: the window operator starts from the committed state.
LEMMA MakeStreamSound ==
    ASSUME Survivable, Sound, MakeStream
    PROVE  Sound'
  <1> DEFINE b == SettledBatch + 1
             new == NewFiles
  <1>1. /\ CurrentBatchId = b /\ SettledBatch = ck.committed.batch /\ SettledRows = ck.committed.files
        /\ run.pc = "idle"
    BY NextBatch, Zenon DEF MakeStream
  <1>2. /\ DOMAIN ck' = CkFields /\ ck'.staged = [batch |-> b, files |-> SettledRows \cup new]
        /\ ck'.committed = ck.committed /\ ck'.offsets = ck.offsets /\ ck'.state = ck.state
        /\ ck'.stagedState = ck.stagedState /\ ck'.chunks = ck.chunks
    BY <1>1, StagesSource, Zenon DEF Sound, Stored, CkFields
  <1>3. /\ DOMAIN run' = RunFields /\ run'.pc = "planned" /\ run'.marker = run.marker
        /\ run'.batch = b /\ run'.files = new /\ run'.unread = new /\ run'.attempt = bound.attempt
        /\ run'.acc = Restore(ck.state) /\ run'.wm = NewWatermark /\ run'.out = NoRows /\ run'.late = {}
    BY <1>1, Zenon DEF MakeStream, RunFields
  <1>4. /\ bound'.attempt = bound.attempt + 1 /\ DOMAIN bound' = DOMAIN bound
        /\ UNCHANGED <<input, store, log, query, late>>
    BY StagesSource, Zenon DEF MakeStream, Sound, Stored
  <1>5. new \subseteq input \ SettledRows
    BY <1>1, Zenon DEF NewFiles
  <1> HIDE DEF new
  <1>6. ~Settling /\ ~Settling' /\ ~Gathered' /\ InFlight'
    BY <1>1, <1>3, Zenon DEF Settling, Gathered, InFlight
  <1>7. SettledBatch' = SettledBatch /\ SettledRows' = SettledRows /\ InState' = InState
    BY <1>2, <1>4, <1>6, LineStays, Zenon DEF InState
  <1>8. b \in Nat
    BY <1>1 DEF Sound, Line, Stored
  <1> HIDE DEF b
  <1>9. Stored'
    <2> ck'.staged # NoRecord /\ ck'.staged.batch \in Int /\ ck'.staged.files \subseteq input
      BY <1>1, <1>2, <1>5, <1>8 DEF NoRecord, Sound, Stored
    <2>2. QED
      BY <1>2, <1>4 DEF Sound, Stored
  <1>10. FilesOnce'
    BY <1>4, Zenon DEF Sound, FilesOnce
  <1>11. Line'
    BY <1>4, <1>7, Zenon DEF Sound, Line
  <1>12. Running'
    BY <1>1, <1>2, <1>3, <1>4, <1>7 DEF Sound, Running, Points, RunFields, b
  <1>13. Flight'
    BY <1>2, <1>3, <1>4, <1>5, <1>6, <1>7, Zenon DEF Flight, Sound, Stored, b
  <1>14. Mapping'
    BY <1>2, <1>3, <1>4, Zenon DEF Sound, Mapping
  <1> Windowing'
    <2> DEFINE acc == Restore(ck.state)
    <2>1. /\ DOMAIN acc = {"pending", "bytes", "wm", "emitted", "lastFinal", "floor",
                           "spilled", "nextSpill"}
          /\ acc.pending = ck.state.rows /\ acc.spilled = {} /\ acc.nextSpill = 0
          /\ acc.wm = ck.state.wm /\ acc.floor = ck.state.wm /\ acc.lastFinal = -1
      BY Zenon DEF Restore, AccumState, NoTime
    <2> HIDE DEF acc
    <2> Once(acc, ck.chunks) /\ Held(acc, ck.chunks) = InState
      BY <2>1 DEF Once, Held, InState, Sound, Stored
    <2> NewWatermark \in [maxTs : Int, lastWm : Int]
      BY DEF NewWatermark, NoTime
    <2>4. QED
      BY <1>2, <1>3, <1>6, <1>7, FlatBags, Zenon DEF Windowing, acc
  <1>16. QED
    BY <1>9, <1>10, <1>11, <1>12, <1>13, <1>14, Zenon DEF Sound

\* The directory of the batch is emptied.
LEMMA CleanDirSound ==
    ASSUME Sound, CleanDir
    PROVE  Sound' /\ store' \subseteq store /\ \A f \in store : f.batch <= SettledBatch => f \in store'
  <1> DEFINE p == IF query = "map" /\ run.unread = {} THEN "written" ELSE "reading"
  <1> /\ run.pc = "planned" /\ DOMAIN run = RunFields
      /\ run'.pc = p /\ run'.marker = run.marker /\ SameWork
      /\ store' = store \ Mine /\ UNCHANGED <<input, log, ck, query, late, bound>>
    BY GotoPoint, Zenon DEF CleanDir, Sound, Running, CleanBatchDir, Mine
  <1>2. p \in {"written", "reading"} /\ (query = "window" => p = "reading")
    BY Zenon DEF Sound, Stored
  <1>3. ~Settling /\ ~Settling' /\ InFlight /\ InFlight' /\ (query = "window" => ~Gathered')
    BY <1>2, Zenon DEF Settling, InFlight, Gathered
  <1>4. SettledBatch' = SettledBatch /\ SettledRows' = SettledRows /\ InState' = InState
    BY <1>3, LineStays, Zenon DEF InState
  <1>5. Mine' = {} /\ Written' = {}
    BY Zenon DEF Mine, Written, ListBatchFiles, SameWork, SameBatch
  <1>6. Stored' /\ FilesOnce'
    BY Zenon DEF Sound, Stored, FilesOnce
  <1>7. Line'
    BY <1>4, Zenon DEF Sound, Line
  <1>8. Running'
    BY <1>2, <1>4, Zenon DEF Sound, Running, Points, SameWork, SameBatch
  <1>9. Flight'
    BY <1>2, <1>3, <1>4, Zenon DEF Sound, Flight, SameWork, SameBatch
  <1>10. Mapping'
    <2> run.unread = run.files /\ run'.unread = run.unread /\ run'.files = run.files /\ run'.late = run.late
      BY <1>3, Zenon DEF Sound, Flight, SameWork, SameBatch
    <2> run'.pc \in {"written", "reading"} /\ (run'.pc = "written" => run.unread = {})
      BY Zenon
    <2>3. QED
      BY <1>3, <1>5, Zenon DEF Sound, Mapping
  <1>11. Windowing'
    BY <1>2, <1>3, <1>4, <1>5, Zenon DEF Sound, Windowing, SameWork, SameBatch
  <1> \A f \in store : f.batch <= SettledBatch => f \notin Mine
    <2> run.batch = SettledBatch + 1 /\ SettledBatch \in Int
      BY <1>3, Zenon DEF Sound, Flight, Stored, SettledBatch
    <2>2. QED
      BY DEF Mine, ListBatchFiles, Sound, FilesOnce
  <1>13. QED
    BY <1>6, <1>7, <1>8, <1>9, <1>10, <1>11, Zenon DEF Sound

\* A new data file of the batch, with rows that no other file has.
LEMMA NewFileSound ==
    ASSUME Stored, FilesOnce, Line, Flight, InFlight, ~Settling, NEW rows \in Flat,
           Rows(rows) \subseteq InState \cup (input \ SettledRows), Rows(rows) \cap Written = {},
           store' = store \cup {DataFile(rows)},
           log' = log, ck'.state = ck.state, input' = input, SettledBatch' = SettledBatch, SettledRows' = SettledRows,
           run'.batch = run.batch
    PROVE  FilesOnce' /\ Line' /\ Written' = Written \cup Rows(rows)
  <1> DEFINE f == DataFile(rows)
  <1>1. f.batch = run.batch /\ f.attempt = run.attempt /\ f.rows = rows
    BY Zenon DEF DataFile
  <1> HIDE DEF f
  <1>2. run.batch = SettledBatch + 1 /\ SettledBatch \in Int /\ SettledBatch >= -1 /\ run.attempt \in Nat
    BY Zenon DEF Stored, Line, Flight, SettledBatch
  <1>3. InState' = InState
    BY Zenon DEF InState
  <1>4. \A g \in store : Rows(g.rows) \cap Rows(rows) = {}
    <2> SUFFICES ASSUME NEW g \in store PROVE Rows(g.rows) \cap Rows(rows) = {}
      BY Zenon
    <2>1. g.batch \in Nat
      BY Zenon DEF FilesOnce
    <2>2. CASE g.batch <= SettledBatch
      <3> Rows(g.rows) \subseteq SettledRows \ InState
        BY <2>2, Zenon DEF Line
      <3>2. QED
        BY Zenon
    <2>3. CASE g.batch > SettledBatch
      <3> g \in Mine
        BY <1>2, <2>3, Zenon DEF Line, Mine, ListBatchFiles
      <3>2. QED
        BY Zenon DEF Written
    <2>4. QED
      BY <1>2, <2>1, <2>2, <2>3
  <1>5. FilesOnce'
    <2> store' = store \cup {f} /\ run.batch \in Nat
      BY <1>2 DEF f
    <2> \A g \in store' : g.batch \in Nat /\ g.attempt \in Nat /\ g.rows \in Flat
      BY <1>1, <1>2, Zenon DEF FilesOnce
    <2> \A g, h \in store' : g # h => Rows(g.rows) \cap Rows(h.rows) = {}
      BY <1>1, <1>4, Zenon DEF FilesOnce
    <2>4. QED
      BY Zenon DEF FilesOnce
  <1>6. Line'
    BY <1>1, <1>2, <1>3 DEF Line, f
  <1> Mine' = Mine \cup {f}
    BY <1>1, Zenon DEF Mine, ListBatchFiles, f
  <1> Written' = Written \cup Rows(rows)
    BY <1>1, Zenon DEF Written
  <1>9. QED
    BY <1>5, <1>6, Zenon

\* "map": a task writes its row.
LEMMA WriteFileSound ==
    ASSUME Sound, NEW r \in Row, WriteFile(r)
    PROVE  Sound' /\ ~Settling /\ ~Settling'
  <1> DEFINE p == IF run.unread = {r} THEN "written" ELSE run.pc
  <1> /\ query = "map" /\ run.pc = "reading" /\ r \in run.unread /\ DOMAIN run = RunFields
      /\ UNCHANGED <<input, log, ck, query, late, bound>>
    BY Zenon DEF WriteFile, Sound, Running
  <1>2. /\ run'.pc = p /\ run'.marker = run.marker /\ SameBatch
        /\ run'.unread = run.unread \ {r} /\ run'.late = run.late
    BY Zenon DEF WriteFile, RunFields, SameBatch
  <1>3. p \in {"written", "reading"} /\ (p = "written" => run.unread = {r})
    BY Zenon
  <1> HIDE DEF p
  <1>4. ~Settling /\ ~Settling' /\ InFlight /\ InFlight'
    BY <1>2, <1>3, Zenon DEF Settling, InFlight
  <1>5. SettledBatch' = SettledBatch /\ SettledRows' = SettledRows /\ InState' = InState
    BY <1>4, LineStays, Zenon DEF InState
  <1>6. /\ r \in run.files /\ r \in input \ SettledRows /\ Written = run.files \ run.unread
        /\ run.unread \subseteq run.files
    BY <1>4, Zenon DEF Sound, Flight, Mapping
  <1>7. FilesOnce' /\ Line' /\ Written' = Written \cup Rows(OneRow(r))
    <2> OneRow(r) \in Flat /\ Rows(OneRow(r)) = {r}
      BY FlatBags, Zenon
    <2> store' = store \cup {DataFile(OneRow(r))} /\ run'.batch = run.batch /\ ck'.state = ck.state
      BY <1>2, Zenon DEF WriteFile, SameBatch
    <2> Rows(OneRow(r)) \subseteq InState \cup (input \ SettledRows) /\ Rows(OneRow(r)) \cap Written = {}
      BY <1>6, Zenon
    <2>4. QED
      BY <1>4, <1>5, NewFileSound, Zenon DEF Sound
  <1>8. Stored'
    BY Zenon DEF Sound, Stored
  <1>9. Running'
    BY <1>2, <1>3, <1>5, Zenon DEF Sound, Running, Points, SameBatch, RunFields
  <1>10. Flight'
    BY <1>2, <1>3, <1>4, <1>5, Zenon DEF Sound, Flight, SameBatch
  <1> Mapping'
    <2>1. Written' = Written \cup {r}
      BY <1>7, FlatBags, Zenon
    <2> run'.files = run.files
      BY <1>2, Zenon DEF SameBatch
    <2> /\ p = "reading" => Written' = run'.files \ run'.unread
        /\ p = "written" => Written' = run'.files
      BY <1>2, <1>3, <1>6, <2>1, Zenon
    <2>4. QED
      BY <1>2, <1>3, <1>4, Zenon DEF Sound, Mapping
  <1> Windowing'
    BY Zenon DEF Windowing
  <1>13. QED
    BY <1>4, <1>7, <1>8, <1>9, <1>10, Zenon DEF Sound

\* The generator sees a row, and emits a watermark.
LEMMA WatermarkClock ==
    ASSUME NEW g \in [maxTs : Int, lastWm : Int]
    PROVE  /\ \A r \in Row : /\ SeeRow(g, r) \in [maxTs : Int, lastWm : Int]
                             /\ SeeRow(g, r).maxTs \in {g.maxTs, EventTime[r]}
           /\ EmitWatermark(g) \in [maxTs : Int, lastWm : Int]
           /\ EmitWatermark(g).maxTs = g.maxTs /\ EmitWatermark(g).lastWm = g.maxTs - Delay
  <1> g = [maxTs |-> g.maxTs, lastWm |-> g.lastWm] /\ g.maxTs \in Int /\ g.lastWm \in Int
    BY Zenon
  <1> EmitWatermark(g) = [maxTs |-> g.maxTs, lastWm |-> g.maxTs - Delay] /\ g.maxTs - Delay \in Int
    BY WindowAssumption DEF EmitWatermark
  <1> ASSUME NEW r \in Row
      PROVE  /\ SeeRow(g, r) = [maxTs |-> Later(g.maxTs, EventTime[r]), lastWm |-> g.lastWm]
             /\ Later(g.maxTs, EventTime[r]) \in Int
             /\ Later(g.maxTs, EventTime[r]) \in {g.maxTs, EventTime[r]}
    BY WindowAssumption DEF SeeRow, Later
  <1>4. QED
    OBVIOUS

\* "window": the operator is given a row.
LEMMA ReadFileSound ==
    ASSUME SetLaws, Sound, NEW emit \in BOOLEAN, ReadFile(emit)
    PROVE  Sound' /\ ~Settling /\ ~Settling'
  <1> DEFINE r == Min(run.unread)
             seen == SeeRow(run.wm, r)
             data == WindowData(run.acc, ck.chunks, r)
             mark == EmitWatermark(seen)
             after == IF emit THEN WindowWatermark(data.acc, data.chunks, mark.lastWm) ELSE data
             late1 == IF WindowEnd(r) <= run.acc.wm THEN run.late \cup {r} ELSE run.late
  <1>1. /\ query = "window" /\ run.pc = "reading" /\ run.unread # {} /\ DOMAIN run = RunFields
        /\ UNCHANGED <<input, store, log, query, late, bound>>
    BY Zenon DEF ReadFile, Sound, Running
  <1>2. /\ run'.pc = "reading" /\ run'.marker = run.marker /\ SameBatch
        /\ run'.unread = run.unread \ {r} /\ run'.acc = after.acc /\ run'.late = late1
        /\ run'.wm = (IF emit THEN mark ELSE seen) /\ run'.out = Plus(run.out, after.out)
    BY <1>1, Zenon DEF ReadFile, RunFields, SameBatch
  <1>3. /\ DOMAIN ck' = CkFields /\ ck'.chunks = after.chunks
        /\ ck'.staged = ck.staged /\ ck'.committed = ck.committed /\ ck'.offsets = ck.offsets
        /\ ck'.state = ck.state /\ ck'.stagedState = ck.stagedState
    BY Zenon DEF ReadFile, Sound, Stored, CkFields
  <1>4. ~Settling /\ ~Settling' /\ InFlight /\ InFlight' /\ ~Gathered'
    BY <1>1, <1>2, Zenon DEF Settling, InFlight, Gathered
  <1>5. SettledBatch' = SettledBatch /\ SettledRows' = SettledRows /\ InState' = InState
    BY <1>1, <1>3, <1>4, LineStays, Zenon DEF InState
  <1>6. /\ run.files \subseteq input /\ run.files \cap SettledRows = {} /\ run.unread \subseteq run.files
        /\ input \subseteq Row /\ InState \subseteq SettledRows /\ run.late \subseteq run.files \ run.unread
    BY <1>4, Zenon DEF Sound, Flight, Stored, Line
  <1>7. r \in run.unread
    <2> run.unread \subseteq Nat
      BY <1>6, MicroBatchAssumption, Zenon
    <2>2. QED
      BY <1>1, MinIsMember, Zenon
  <1> HIDE DEF r
  <1>8. /\ Once(run.acc, ck.chunks) /\ ChunksFlat(ck.chunks) /\ run.out \in Flat
        /\ run.wm \in [maxTs : Int, lastWm : Int]
        /\ Held(run.acc, ck.chunks) \cap Rows(run.out) = {}
        /\ Held(run.acc, ck.chunks) \cup Rows(run.out) \subseteq InState \cup (run.files \ run.unread)
        /\ Written = {}
    BY <1>1, Zenon DEF Sound, Windowing, Stored
  <1>9. r \in Row /\ r \notin Held(run.acc, ck.chunks) /\ r \notin Rows(run.out)
    BY <1>6, <1>7, <1>8, Zenon
  <1>10. seen \in [maxTs : Int, lastWm : Int] /\ mark \in [maxTs : Int, lastWm : Int]
    <2> HIDE DEF seen, mark
    <2> seen \in [maxTs : Int, lastWm : Int]
      BY <1>8, <1>9, WatermarkClock, Zenon DEF seen
    <2>2. QED
      BY WatermarkClock, Zenon DEF mark
  <1>11. /\ Once(after.acc, after.chunks) /\ ChunksFlat(after.chunks) /\ after.out \in Flat
         /\ Held(after.acc, after.chunks) \cap Rows(after.out) = {}
         /\ Held(after.acc, after.chunks) \cup Rows(after.out) \subseteq Held(run.acc, ck.chunks) \cup {r}
    <2>1. mark.lastWm \in Int
      BY <1>10, Zenon
    <2>2. data = WindowData(run.acc, ck.chunks, r)
      BY Zenon
    <2>3. after = data \/ after = WindowWatermark(data.acc, data.chunks, mark.lastWm)
      BY Zenon
    <2> HIDE DEF seen, data, mark, after
    <2>4. Once(run.acc, ck.chunks) /\ ChunksFlat(ck.chunks) /\ r \in Row /\ r \notin Held(run.acc, ck.chunks)
      BY <1>8, <1>9, Zenon
    <2>5. Gives(run.acc, ck.chunks, r, after)
      BY <2>1, <2>2, <2>3, <2>4, GivenRow, Zenon
    <2>6. QED
      BY <2>5, Zenon DEF Gives
  <1> HIDE DEF seen, data, mark, after
  <1>12. Plus(run.out, after.out) \in Flat /\ Rows(Plus(run.out, after.out)) = Rows(run.out) \cup Rows(after.out)
    BY <1>8, <1>9, <1>11, FlatBags
  <1>13. Stored'
    BY <1>1, <1>3, <1>11, Zenon DEF Sound, Stored
  <1>14. FilesOnce' /\ Line'
    BY <1>1, <1>5, Zenon DEF Sound, FilesOnce, Line
  <1>15. Running'
    BY <1>1, <1>2, <1>3, <1>5, Zenon DEF Sound, Running, Points, SameBatch, RunFields
  <1>16. Flight'
    <2> late1 \subseteq run.files \ (run.unread \ {r})
      BY <1>6, <1>7, Zenon
    <2> HIDE DEF late1
    <2>2. QED
      BY <1>1, <1>2, <1>3, <1>4, <1>5, Zenon DEF Sound, Flight, SameBatch
  <1>17. Mapping'
    BY <1>1, Zenon DEF Mapping
  <1> Windowing'
    <2>1. run.files \ (run.unread \ {r}) = (run.files \ run.unread) \cup {r}
      BY <1>6, <1>7, Zenon
    <2>2. /\ Held(after.acc, after.chunks) \cap Rows(Plus(run.out, after.out)) = {}
          /\ Held(after.acc, after.chunks) \cup Rows(Plus(run.out, after.out))
                \subseteq InState \cup (run.files \ (run.unread \ {r}))
      BY <1>8, <1>9, <1>11, <1>12, <2>1, Zenon
    <2> Written' = {} /\ run'.files = run.files
      BY <1>1, <1>2, <1>8, Zenon DEF Written, Mine, SameBatch
    <2> run'.wm \in [maxTs : Int, lastWm : Int]
      BY <1>2, <1>10, Zenon
    <2>5. QED
      BY <1>2, <1>3, <1>4, <1>5, <1>11, <1>12, <2>2, Zenon DEF Windowing
  <1>19. QED
    BY <1>4, <1>13, <1>14, <1>15, <1>16, <1>17, Zenon DEF Sound

\* The accumulator gives up its rows: they are in the staged state or in the output.
LEMMA EndRows ==
    ASSUME SetLaws, NEW acc, NEW chunks, NEW e, Splits(acc, chunks, e)
    PROVE  /\ Snapshot(e.acc, e.chunks).rows \in Flat /\ Snapshot(e.acc, e.chunks).wm = e.acc.wm
           /\ Snapshot(e.acc, e.chunks).wm \in Int
           /\ Snapshot(e.acc, e.chunks).emitted = e.acc.emitted
           /\ Rows(Snapshot(e.acc, e.chunks).rows) = Held(e.acc, e.chunks)
  <1> /\ GatherPartials(e.acc, e.chunks) \in Flat
      /\ Rows(GatherPartials(e.acc, e.chunks)) = Held(e.acc, e.chunks)
    BY GatherRows, Zenon DEF Splits
  <1> e.acc.wm \in Int
    BY Zenon DEF Splits, Once
  <1>3. QED
    BY Zenon DEF Snapshot

\* The state is staged, unless that is a write which may fail.
LEMMA StagesState ==
    ASSUME Survivable, Sound, EndOfData
    PROVE  LET mark == EmitWatermark(run.wm)
               after == IF WatermarkAdvances(run.wm)
                        THEN WindowWatermark(run.acc, ck.chunks, mark.lastWm)
                        ELSE Effect(run.acc, ck.chunks, NoRows)
           IN  /\ ck' = [ck EXCEPT !.chunks = after.chunks,
                                   !.stagedState = {Snapshot(after.acc, after.chunks)}]
               /\ bound' = bound
  <1> query \in Query
    BY Zenon DEF Sound, Stored
  <1> ~Fault("state stage")
    BY Zenon DEF Fault, MayFail, Survivable
  <1>3. QED
    BY Zenon DEF EndOfData

\* "window": the data ends.
LEMMA EndOfDataSound ==
    ASSUME SetLaws, Survivable, Sound, EndOfData
    PROVE  Sound' /\ ~Settling /\ ~Settling'
  <1> DEFINE mark == EmitWatermark(run.wm)
             after == IF WatermarkAdvances(run.wm)
                      THEN WindowWatermark(run.acc, ck.chunks, mark.lastWm)
                      ELSE Effect(run.acc, ck.chunks, NoRows)
             snapshot == Snapshot(after.acc, after.chunks)
  <1>1. /\ query = "window" /\ run.pc = "reading" /\ run.unread = {} /\ DOMAIN run = RunFields
        /\ UNCHANGED <<input, store, log, query, late, bound>>
    BY StagesState, Zenon DEF EndOfData, Sound, Running
  <1>2. /\ run'.pc = "ended" /\ run'.marker = run.marker /\ SameBatch
        /\ run'.unread = run.unread /\ run'.late = run.late /\ run'.out = Plus(run.out, after.out)
    BY <1>1, Zenon DEF EndOfData, RunFields, SameBatch
  <1>3. /\ DOMAIN ck' = CkFields /\ ck'.chunks = after.chunks /\ ck'.stagedState = {snapshot}
        /\ ck'.staged = ck.staged /\ ck'.committed = ck.committed /\ ck'.offsets = ck.offsets
        /\ ck'.state = ck.state
    BY StagesState, Zenon DEF Sound, Stored, CkFields
  <1>4. ~Settling /\ ~Settling' /\ InFlight /\ InFlight' /\ Gathered'
    BY <1>1, <1>2, Zenon DEF Settling, InFlight, Gathered
  <1>5. SettledBatch' = SettledBatch /\ SettledRows' = SettledRows /\ InState' = InState
    BY <1>1, <1>3, <1>4, LineStays, Zenon DEF InState
  <1>6. /\ Once(run.acc, ck.chunks) /\ ChunksFlat(ck.chunks) /\ run.out \in Flat
        /\ run.wm \in [maxTs : Int, lastWm : Int]
        /\ Held(run.acc, ck.chunks) \cap Rows(run.out) = {}
        /\ Held(run.acc, ck.chunks) \cup Rows(run.out) \subseteq InState \cup run.files
        /\ Written = {}
    BY <1>1, Zenon DEF Sound, Windowing, Stored
  <1>7. Splits(run.acc, ck.chunks, after)
    <2>1. mark.lastWm \in Int
      BY <1>6, WatermarkClock, Zenon
    <2> HIDE DEF mark
    <2>2. CASE WatermarkAdvances(run.wm)
      <3> after = WindowWatermark(run.acc, ck.chunks, mark.lastWm)
        BY <2>2, Zenon
      <3> HIDE DEF after
      <3>2. QED
        BY <1>6, <2>1, WatermarkSplits, Zenon
    <2>3. CASE ~WatermarkAdvances(run.wm)
      <3> after.acc = run.acc /\ after.chunks = ck.chunks /\ after.out = NoRows
        BY <2>3, Zenon DEF Effect
      <3> HIDE DEF after
      <3>2. QED
        BY <1>6, FlatBags, Zenon DEF Splits
    <2>4. QED
      BY <2>2, <2>3, Zenon
  <1> HIDE DEF mark, after
  <1>8. snapshot.rows \in Flat /\ snapshot.wm \in Int /\ Rows(snapshot.rows) = Held(after.acc, after.chunks)
    BY <1>7, EndRows, Zenon
  <1> HIDE DEF snapshot
  <1>9. /\ ChunksFlat(after.chunks) /\ after.out \in Flat
        /\ Rows(snapshot.rows) \cap Rows(after.out) = {}
        /\ Rows(snapshot.rows) \cup Rows(after.out) \subseteq Held(run.acc, ck.chunks)
    BY <1>7, <1>8, Zenon DEF Splits
  <1>10. Plus(run.out, after.out) \in Flat /\ Rows(Plus(run.out, after.out)) = Rows(run.out) \cup Rows(after.out)
    BY <1>6, <1>9, FlatBags
  <1>11. Stored'
    BY <1>1, <1>3, <1>8, <1>9, Zenon DEF Sound, Stored
  <1>12. FilesOnce' /\ Line'
    BY <1>1, <1>5, Zenon DEF Sound, FilesOnce, Line
  <1>13. Running'
    BY <1>1, <1>2, <1>3, <1>5, Zenon DEF Sound, Running, Points, SameBatch, RunFields
  <1>14. Flight'
    BY <1>1, <1>2, <1>3, <1>4, <1>5, Zenon DEF Sound, Flight, SameBatch
  <1>15. Mapping'
    BY <1>1, Zenon DEF Mapping
  <1> Windowing'
    <2> /\ Rows(snapshot.rows) \cap Rows(Plus(run.out, after.out)) = {}
        /\ Rows(snapshot.rows) \cup Rows(Plus(run.out, after.out)) \subseteq InState \cup run.files
      BY <1>6, <1>9, <1>10, Zenon
    <2> Written' = {} /\ run'.files = run.files
      BY <1>1, <1>2, <1>6, Zenon DEF Written, Mine, SameBatch
    <2>3. QED
      BY <1>1, <1>2, <1>3, <1>4, <1>5, <1>10, Zenon DEF Windowing
  <1>17. QED
    BY <1>4, <1>11, <1>12, <1>13, <1>14, <1>15, Zenon DEF Sound

\* The output of the window operator is written.
LEMMA FinishFileSound ==
    ASSUME Sound, FinishFile
    PROVE  Sound' /\ ~Settling /\ ~Settling'
  <1> /\ run.pc = "ended" /\ query = "window" /\ DOMAIN run = RunFields
      /\ run'.pc = "written" /\ run'.marker = run.marker /\ SameWork
      /\ store' = store \cup {DataFile(run.out)} /\ UNCHANGED <<input, log, ck, query, late, bound>>
    <2> run.pc = "ended" /\ query = "window" /\ DOMAIN run = RunFields
      BY MicroBatchAssumption, Zenon DEF FinishFile, Sound, Running, Stored
    <2>2. QED
      BY GotoPoint, Zenon DEF FinishFile
  <1> ~Settling /\ ~Settling' /\ InFlight /\ InFlight' /\ Gathered /\ Gathered'
    BY Zenon DEF Settling, InFlight, Gathered
  <1>3. SettledBatch' = SettledBatch /\ SettledRows' = SettledRows /\ InState' = InState
    BY LineStays, Zenon DEF InState
  <1>4. FilesOnce' /\ Line' /\ Written' = Rows(run.out)
    <2> /\ run.out \in Flat /\ Rows(run.out) \subseteq InState \cup run.files /\ Written = {}
        /\ run.files \subseteq input \ SettledRows
      BY Zenon DEF Sound, Windowing, Flight
    <2>2. ck'.state = ck.state /\ run'.batch = run.batch
      BY Zenon DEF SameWork, SameBatch
    <2> Rows(run.out) \subseteq InState \cup (input \ SettledRows) /\ Rows(run.out) \cap Written = {}
      BY Zenon
    <2> FilesOnce' /\ Line' /\ Written' = Written \cup Rows(run.out)
      BY <1>3, <2>2, NewFileSound, Zenon DEF Sound
    <2>5. QED
      BY Zenon
  <1>5. Stored'
    BY Zenon DEF Sound, Stored
  <1>6. Running'
    BY <1>3, Zenon DEF Sound, Running, Points, SameWork, SameBatch, RunFields
  <1>7. Flight'
    BY <1>3, Zenon DEF Sound, Flight, SameWork, SameBatch
  <1> Mapping'
    BY Zenon DEF Mapping
  <1> Windowing'
    BY <1>3, <1>4, Zenon DEF Sound, Windowing, SameWork, SameBatch
  <1>10. QED
    BY <1>4, <1>5, <1>6, <1>7, Zenon DEF Sound

\* The batch is logged.
LEMMA CommitLogSound ==
    ASSUME Sound, CommitLog
    PROVE  Sound' /\ ~Settling /\ ~Settling'
  <1> /\ run.pc = "written" /\ DOMAIN run = RunFields
      /\ run'.pc = "logged" /\ run'.marker = run.marker /\ SameWork
      /\ log' = CommitBatch(log, run.batch, Mine) /\ UNCHANGED <<input, store, ck, query, late, bound>>
    BY GotoPoint, Zenon DEF CommitLog, Sound, Running, Mine
  <1> ~Settling /\ ~Settling' /\ InFlight /\ InFlight' /\ Gathered /\ Gathered'
    BY Zenon DEF Settling, InFlight, Gathered
  <1>3. SettledBatch' = SettledBatch /\ SettledRows' = SettledRows /\ InState' = InState
    BY LineStays, Zenon DEF InState
  <1>4. Written' = Written
    BY Zenon DEF Written, Mine, SameWork, SameBatch
  <1>5. Stored' /\ FilesOnce'
    BY Zenon DEF Sound, Stored, FilesOnce
  <1>6. Line'
    <2>1. run.batch = SettledBatch + 1 /\ SettledBatch \in Int /\ SettledBatch >= -1
      BY Zenon DEF Sound, Flight, Line, Stored, SettledBatch
    <2> DOMAIN log' = DOMAIN log \cup {run.batch}
      BY Zenon DEF CommitBatch
    <2> DOMAIN log' \subseteq 0 .. SettledBatch + 1
      BY <2>1 DEF Sound, Line
    <2>4. QED
      BY <1>3, Zenon DEF Sound, Line
  <1>7. Running'
    BY <1>3, Zenon DEF Sound, Running, Points, SameWork, SameBatch, RunFields
  <1>8. Flight'
    BY <1>3, Zenon DEF Sound, Flight, SameWork, SameBatch
  <1> Mapping'
    BY <1>4, Zenon DEF Sound, Mapping, SameWork, SameBatch
  <1> Windowing'
    BY <1>3, <1>4, Zenon DEF Sound, Windowing, SameWork, SameBatch
  <1>11. QED
    BY <1>5, <1>6, <1>7, <1>8, Zenon DEF Sound

\* The marker of the batch.
LEMMA PutOffsetsSound ==
    ASSUME Sound, PutOffsets
    PROVE  Sound' /\ ~Settling /\ ~Settling'
  <1>1. /\ run.pc = "logged" /\ DOMAIN run = RunFields
        /\ run'.pc = "marked" /\ run'.marker = run.marker + 1 /\ SameWork
        /\ UNCHANGED <<input, store, log, query, late>>
    <2> run.pc = "logged" /\ DOMAIN run = RunFields
      BY Zenon DEF PutOffsets, Sound, Running
    <2>2. QED
      BY Zenon DEF PutOffsets, RunFields, SameWork, SameBatch
  <1>2. /\ DOMAIN ck' = CkFields /\ ck'.offsets \in {ck.offsets, ck.offsets \cup {run.marker}}
        /\ ck'.staged = ck.staged /\ ck'.committed = ck.committed /\ ck'.chunks = ck.chunks
        /\ ck'.state = ck.state /\ ck'.stagedState = ck.stagedState
    BY Zenon DEF PutOffsets, Sound, Stored, CkFields
  <1>3. bound'.attempt = bound.attempt /\ DOMAIN bound' = DOMAIN bound
    BY Zenon DEF PutOffsets, Fault, Sound, Stored
  <1>4. ~Settling /\ ~Settling' /\ InFlight /\ InFlight' /\ Gathered /\ Gathered'
    BY <1>1, Zenon DEF Settling, InFlight, Gathered
  <1>5. SettledBatch' = SettledBatch /\ SettledRows' = SettledRows /\ InState' = InState
    BY <1>1, <1>2, <1>4, LineStays, Zenon DEF InState
  <1>6. Written' = Written
    BY <1>1, Zenon DEF Written, Mine, SameWork, SameBatch
  <1>7. run.marker \in Nat
    BY <1>1, Zenon DEF Sound, Running
  <1>8. Stored'
    <2>1. ck.staged # NoRecord
      <3> ck.staged.batch = SettledBatch + 1 /\ SettledBatch >= -1 /\ SettledBatch \in Int
        BY <1>4 DEF Sound, Flight, Line, Stored, SettledBatch
      <3>2. QED
        BY DEF NoRecord
    <2>2. ck'.offsets \subseteq Nat
      BY <1>2, <1>7, Zenon DEF Sound, Stored
    <2> ck'.offsets # {} => \E m \in ck'.offsets : \A n \in ck'.offsets : n <= m
      <3>1. CASE ck'.offsets = ck.offsets
        BY <3>1, Zenon DEF Sound, Stored
      <3>2. CASE ck'.offsets = ck.offsets \cup {run.marker}
        <4>1. CASE ck.offsets = {}
          BY <1>7, <3>2, <4>1
        <4>2. CASE ck.offsets # {}
          <5> PICK m \in ck.offsets : \A n \in ck.offsets : n <= m
            BY <4>2, Zenon DEF Sound, Stored
          <5> ck.offsets \subseteq Nat
            BY Zenon DEF Sound, Stored
          <5>3. CASE m >= run.marker
            BY <1>7, <3>2, <5>3, Zenon
          <5>4. CASE m < run.marker
            BY <1>7, <3>2, <5>4
          <5>5. QED
            BY <1>7, <5>3, <5>4
        <4>3. QED
          BY <4>1, <4>2, Zenon
      <3>3. QED
        BY <1>2, <3>1, <3>2, Zenon
    <2>4. QED
      BY <1>1, <1>2, <1>3, <2>1, <2>2, Zenon DEF Sound, Stored
  <1>9. FilesOnce' /\ Line'
    BY <1>1, <1>5, Zenon DEF Sound, FilesOnce, Line
  <1>10. Running'
    BY <1>1, <1>2, <1>5, <1>7 DEF Sound, Running, Points, SameWork, SameBatch, RunFields
  <1>11. Flight'
    BY <1>1, <1>2, <1>4, <1>5, Zenon DEF Sound, Flight, SameWork, SameBatch
  <1> Mapping'
    BY <1>1, <1>2, <1>4, <1>6, Zenon DEF Sound, Mapping, SameWork, SameBatch
  <1> Windowing'
    BY <1>1, <1>2, <1>4, <1>5, <1>6, Zenon DEF Sound, Windowing, SameWork, SameBatch
  <1>14. QED
    BY <1>4, <1>8, <1>9, <1>10, <1>11, Zenon DEF Sound

\* What the commit of the source does to the record of the process and to the
\* checkpoint.
Promotes ==
    /\ run.pc = "marked" /\ DOMAIN run = RunFields
    /\ run'.pc = "source put" /\ run'.marker = run.marker /\ SameWork
    /\ DOMAIN ck' = CkFields /\ ck'.committed = ck.staged
    /\ ck'.staged = ck.staged /\ ck'.offsets = ck.offsets /\ ck'.chunks = ck.chunks
    /\ ck'.state = ck.state /\ ck'.stagedState = ck.stagedState
    /\ late' = late \cup run.late /\ bound' = bound
    /\ UNCHANGED <<input, store, log, query>>
\* The commit of the source fails, and the runner goes on to the next trigger.
NotPromoted ==
    /\ run.pc = "marked" /\ query = "map" /\ run'.pc = "idle" /\ run'.marker = run.marker
    /\ SameWork /\ bound'.attempt = bound.attempt /\ DOMAIN bound' = DOMAIN bound
    /\ UNCHANGED <<input, store, log, query, ck, late>>

\* A query that survives its faults does one or the other.
LEMMA CommitSourceIs ==
    ASSUME Survivable, Sound, CommitSource
    PROVE  Promotes \/ NotPromoted
  <1>1. run.pc = "marked" /\ DOMAIN run = RunFields /\ UNCHANGED <<input, store, log, query>>
    BY Zenon DEF CommitSource, Sound, Running
  <1>2. CASE /\ ck.staged # NoRecord
             /\ ck' = [ck EXCEPT !.committed = ck.staged]
             /\ late' = late \cup run.late
             /\ Goto("source put") /\ UNCHANGED bound
    BY <1>1, <1>2, GotoPoint, Zenon DEF Sound, Stored, CkFields, Promotes
  <1>3. CASE Fault("source commit") /\ Goto(AfterSource) /\ UNCHANGED <<ck, late>>
    <2> USE <1>3
    <2> query \in Query /\ query = "map"
      BY MicroBatchAssumption, Zenon DEF Fault, MayFail, Survivable, Sound, Stored
    <2> Goto("idle")
      BY Zenon DEF AfterSource
    <2> bound'.attempt = bound.attempt /\ DOMAIN bound' = DOMAIN bound
      BY Zenon DEF Fault, Sound, Stored
    <2>4. QED
      BY <1>1, GotoPoint, Zenon DEF NotPromoted
  <1>4. ck.staged # NoRecord
    <2> ~Settling /\ InFlight
      BY <1>1, Zenon DEF Settling, InFlight
    <2> ck.staged.batch = SettledBatch + 1 /\ SettledBatch \in Int /\ SettledBatch >= -1
      BY DEF Sound, Flight, Line, Stored, SettledBatch
    <2>3. QED
      BY DEF NoRecord
  <1>5. QED
    BY <1>2, <1>3, <1>4, Zenon DEF CommitSource

\* The batch will be done again, and its files cleaned.
LEMMA NotPromotedSound ==
    ASSUME Sound, NotPromoted
    PROVE  Sound' /\ ~Settling /\ ~Settling'
  <1> ~Settling /\ ~Settling' /\ ~InFlight' /\ ~Gathered'
    BY Zenon DEF NotPromoted, Settling, InFlight, Gathered
  <1> SettledBatch' = SettledBatch /\ SettledRows' = SettledRows /\ InState' = InState
    BY LineStays, Zenon DEF NotPromoted, InState
  <1>3. Stored' /\ FilesOnce' /\ Line'
    BY Zenon DEF NotPromoted, Sound, Stored, FilesOnce, Line
  <1> Running'
    BY Zenon DEF NotPromoted, Sound, Running, Points, SameWork, SameBatch, RunFields
  <1> Flight' /\ Mapping' /\ Windowing'
    BY Zenon DEF NotPromoted, Sound, Flight, Mapping, Windowing
  <1>6. QED
    BY <1>3, Zenon DEF Sound

\* Where the line is after the commit of the source: for a window query it has
\* not moved yet.
LEMMA PromotedLine ==
    ASSUME Sound, Promotes
    PROVE  /\ ~Settling /\ InFlight /\ Gathered
           /\ run.batch = SettledBatch + 1 /\ SettledBatch \in Int /\ SettledBatch >= -1
           /\ run.files \subseteq input /\ run.files \cap SettledRows = {} /\ run.late \subseteq run.files
           /\ ck.staged = [batch |-> run.batch, files |-> SettledRows \cup run.files]
           /\ InState' = InState /\ Written' = Written /\ Mine' = Mine
           /\ query = "window" => /\ Settling' /\ InFlight' /\ Gathered'
                                  /\ SettledBatch' = SettledBatch /\ SettledRows' = SettledRows
           /\ query = "map" => /\ ~Settling' /\ ~InFlight' /\ ~Gathered'
                               /\ SettledBatch' = SettledBatch + 1
                               /\ SettledRows' = SettledRows \cup run.files
  <1>1. ~Settling /\ InFlight /\ Gathered
    BY Zenon DEF Promotes, Settling, InFlight, Gathered
  <1>2. /\ run.batch = SettledBatch + 1 /\ SettledBatch \in Int /\ SettledBatch >= -1
        /\ run.files \subseteq input /\ run.files \cap SettledRows = {} /\ run.late \subseteq run.files
        /\ ck.staged = [batch |-> run.batch, files |-> SettledRows \cup run.files]
    <2> SettledBatch \in Int
      BY DEF Sound, Stored, SettledBatch
    <2>2. QED
      BY <1>1, Zenon DEF Sound, Flight, Line
  <1>3. InState' = InState /\ Written' = Written /\ Mine' = Mine
    BY Zenon DEF Promotes, InState, Written, Mine, SameWork, SameBatch
  <1>4. /\ ck'.committed.batch = SettledBatch + 1 /\ ck'.committed.files = SettledRows \cup run.files
        /\ run'.files = run.files
    <2> ck'.committed = ck.staged /\ run'.files = run.files
      BY Zenon DEF Promotes, SameWork, SameBatch
    <2> ck.staged.batch = run.batch /\ ck.staged.files = SettledRows \cup run.files
      BY <1>2
    <2>3. QED
      BY <1>2, Zenon
  <1>5. CASE query = "window"
    <2> USE <1>5
    <2> Settling' /\ InFlight' /\ Gathered'
      BY Zenon DEF Promotes, Settling, InFlight, Gathered
    <2> SettledBatch' = SettledBatch
      BY <1>2, <1>4 DEF SettledBatch
    <2> SettledRows' = SettledRows
      BY <1>2, <1>4, Zenon DEF SettledRows
    <2>4. QED
      BY <1>1, <1>2, <1>3, Zenon
  <1>6. CASE query = "map"
    <2> USE <1>6
    <2> ~Settling' /\ ~InFlight' /\ ~Gathered'
      BY Zenon DEF Promotes, Settling, InFlight, Gathered
    <2> SettledBatch' = SettledBatch + 1 /\ SettledRows' = SettledRows \cup run.files
      BY <1>4, Zenon DEF SettledBatch, SettledRows
    <2>3. QED
      BY <1>1, <1>2, <1>3, Zenon
  <1> query \in {"map", "window"}
    BY MicroBatchAssumption, Zenon DEF Sound, Stored
  <1>8. QED
    BY <1>5, <1>6, Zenon

\* commit_source_offsets: the record of the source is promoted.
LEMMA PromotesSound ==
    ASSUME Sound, Promotes
    PROVE  Sound'
  <1>1. /\ query' = query /\ input' = input /\ store' = store /\ log' = log /\ bound' = bound
        /\ late' = late \cup run.late /\ run.pc = "marked" /\ run'.pc = "source put"
    BY Zenon DEF Promotes
  <1>2. /\ run.batch = SettledBatch + 1 /\ SettledBatch \in Int /\ SettledBatch >= -1
        /\ run.files \subseteq input /\ run.files \cap SettledRows = {} /\ run.late \subseteq run.files
        /\ ck.staged.batch = run.batch /\ ck.staged.files = SettledRows \cup run.files
        /\ run.batch \in Nat /\ InFlight /\ Gathered
    <2> /\ run.batch = SettledBatch + 1 /\ SettledBatch \in Int /\ SettledBatch >= -1
        /\ run.files \subseteq input /\ run.files \cap SettledRows = {} /\ run.late \subseteq run.files
        /\ ck.staged = [batch |-> run.batch, files |-> SettledRows \cup run.files]
        /\ InFlight /\ Gathered
      BY PromotedLine, Zenon
    <2> ck.staged.batch = run.batch /\ ck.staged.files = SettledRows \cup run.files
      OBVIOUS
    <2> run.batch \in Nat
      OBVIOUS
    <2>4. QED
      BY Zenon
  <1>3. Stored'
    <2>1. ck.staged # NoRecord
      <3> ck.staged.batch # -1
        BY <1>2
      <3>2. QED
        BY DEF NoRecord
    <2> /\ DOMAIN ck' = CkFields /\ ck'.committed = ck.staged
        /\ ck'.staged = ck.staged /\ ck'.offsets = ck.offsets /\ ck'.chunks = ck.chunks
        /\ ck'.state = ck.state /\ ck'.stagedState = ck.stagedState
      BY Zenon DEF Promotes
    <2> late' \subseteq Row
      BY <1>1, <1>2, Zenon DEF Sound, Stored
    <2>4. QED
      BY <1>1, <2>1, Zenon DEF Sound, Stored
  <1>4. FilesOnce'
    BY <1>1, Zenon DEF Sound, FilesOnce
  <1>5. Line'
    <2>1. CASE query = "window"
      <3> SettledBatch' = SettledBatch /\ SettledRows' = SettledRows /\ InState' = InState
        BY <2>1, PromotedLine, Zenon
      <3>2. QED
        BY <1>1, Zenon DEF Sound, Line
    <2>2. CASE query = "map"
      <3>1. /\ SettledBatch' = SettledBatch + 1 /\ SettledRows' = SettledRows \cup run.files /\ InState' = InState
        BY <2>2, PromotedLine, Zenon
      <3>2. Written = run.files /\ InState = {}
        <4> ck.state = NoSnapshot /\ Written = run.files
          BY <1>1, <2>2, Zenon DEF Sound, Mapping
        <4>2. QED
          BY FlatBags DEF InState, NoSnapshot
      <3>3. \A f \in store : /\ f.batch \in Nat /\ f.batch <= SettledBatch + 1
                             /\ Rows(f.rows) \subseteq SettledRows \cup run.files
        <4> SUFFICES ASSUME NEW f \in store
                     PROVE  /\ f.batch \in Nat /\ f.batch <= SettledBatch + 1
                            /\ Rows(f.rows) \subseteq SettledRows \cup run.files
          BY Zenon
        <4> f.batch \in Nat
          BY Zenon DEF Sound, FilesOnce
        <4>2. CASE f.batch <= SettledBatch
          BY <1>2, <4>2 DEF Sound, Line
        <4>3. CASE f.batch > SettledBatch
          <5> f.batch = SettledBatch + 1
            BY <4>3, Zenon DEF Sound, Line
          <5> f \in Mine
            BY <1>2, Zenon DEF Mine, ListBatchFiles
          <5>3. QED
            BY <1>2, <3>2 DEF Written
        <4>4. QED
          BY <1>2, <4>2, <4>3
      <3>4. DOMAIN log \subseteq 0 .. (SettledBatch + 1) + 1
        BY <1>2 DEF Sound, Line
      <3>0. SettledBatch + 1 \in Int /\ SettledBatch + 1 >= -1
        BY <1>2
      <3>5. InState' = {} /\ SettledBatch' >= -1 /\ DOMAIN log' \subseteq 0 .. SettledBatch' + 1
        BY <1>1, <3>0, <3>1, <3>2, <3>4, Zenon
      <3>6. \A f \in store' : f.batch <= SettledBatch' /\ Rows(f.rows) \subseteq SettledRows'
        BY <1>1, <3>1, <3>3, Zenon
      <3> \A f \in store' : ~ (f.batch > SettledBatch')
        <4> \A f \in store : ~ (f.batch > SettledBatch + 1)
          BY <3>0, <3>3
        <4>2. QED
          BY <1>1, <3>1, Zenon
      <3>8. QED
        BY <3>5, <3>6, Zenon DEF Line
    <2> query \in {"map", "window"}
      BY MicroBatchAssumption, Zenon DEF Sound, Stored
    <2>4. QED
      BY <2>1, <2>2, Zenon
  <1>6. Running'
    <2> ck'.committed.batch \in Nat
      <3> ck'.committed = ck.staged
        BY Zenon DEF Promotes
      <3>2. QED
        BY <1>2, Zenon
    <2>2. QED
      BY <1>1, Zenon DEF Promotes, Sound, Running, Points, SameWork, SameBatch, RunFields
  <1>7. Flight'
    <2>1. CASE query = "window"
      <3>1. SettledBatch' = SettledBatch /\ SettledRows' = SettledRows /\ Settling'
        BY <2>1, PromotedLine, Zenon
      <3>2. ck'.committed = ck.staged /\ run'.unread = run.unread /\ run'.late = run.late
            /\ run'.batch = run.batch /\ run'.files = run.files /\ run'.attempt = run.attempt
        BY Zenon DEF Promotes, SameWork, SameBatch
      <3> /\ run.attempt \in Nat /\ run.unread \subseteq run.files /\ run.late \subseteq run.files \ run.unread
        BY <1>2, Zenon DEF Sound, Flight
      <3> run.files \subseteq ck.staged.files
        BY <1>2, Zenon
      <3>5. QED
        BY <1>1, <1>2, <3>1, <3>2, Zenon DEF Flight
    <2>2. CASE query # "window"
      <3> ~InFlight'
        BY <1>1, <2>2, Zenon DEF InFlight, Settling
      <3>2. QED
        BY Zenon DEF Flight
    <2>3. QED
      BY <2>1, <2>2, Zenon
  <1>8. Mapping'
    <2> query = "map" => ~InFlight' /\ run.late = {} /\ late = {}
      BY <1>2, PromotedLine, Zenon DEF Sound, Mapping
    <2>2. QED
      BY <1>1, Zenon DEF Promotes, Sound, Mapping
  <1> Windowing'
    <2> query = "window" => InState' = InState /\ Written' = Written
      BY PromotedLine, Zenon
    <2>2. QED
      BY <1>1, <1>2, Zenon DEF Promotes, Sound, Windowing, SameWork, SameBatch
  <1>10. QED
    BY <1>3, <1>4, <1>5, <1>6, <1>7, <1>8, Zenon DEF Sound

\* Where there is no record and no snapshot.
LEMMA Absent ==
    /\ NoRecord.batch \in Int /\ NoRecord.files = {}
    /\ \A r : r.batch \in Nat => r # NoRecord
  <1>1. NoRecord.batch = -1 /\ NoRecord.files = {}
    BY Zenon DEF NoRecord
  <1>2. QED
    BY <1>1

\* The staged record of the source is deleted.
LEMMA DeleteStagedSourceSound ==
    ASSUME Survivable, Sound, DeleteStagedSource
    PROVE  /\ Sound' /\ Settling' = Settling /\ SettledBatch' = SettledBatch /\ SettledRows' = SettledRows
           /\ SameWork /\ ck'.state = ck.state /\ ck'.stagedState = ck.stagedState /\ ck'.chunks = ck.chunks
           /\ run'.pc \in {"idle", "source promoted"}
           /\ UNCHANGED <<input, store, log, query, late>>
  <1> DEFINE p == IF query = "window" THEN "source promoted" ELSE "idle"
  <1> /\ run.pc = "source put" /\ DOMAIN run = RunFields
      /\ run'.pc = p /\ run'.marker = run.marker /\ SameWork
      /\ UNCHANGED <<input, store, log, query, late>>
    BY GotoPoint, Zenon DEF DeleteStagedSource, Sound, Running, AfterSource
  <1>2. ck' = [ck EXCEPT !.staged = NoRecord] /\ UNCHANGED bound
    <2> query \in Query
      BY Zenon DEF Sound, Stored
    <2> ~Fault("source delete")
      BY Zenon DEF Fault, MayFail, Survivable
    <2>3. QED
      BY Zenon DEF DeleteStagedSource
  <1>3. /\ DOMAIN ck' = CkFields /\ ck'.staged = NoRecord
        /\ ck'.committed = ck.committed /\ ck'.offsets = ck.offsets /\ ck'.chunks = ck.chunks
        /\ ck'.state = ck.state /\ ck'.stagedState = ck.stagedState
    BY <1>2, Zenon DEF Sound, Stored, CkFields
  <1> p \in {"idle", "source promoted"} /\ (query = "window" <=> p = "source promoted")
    BY Zenon
  <1>5. (Settling <=> query = "window") /\ (Settling' <=> query = "window")
    BY Zenon DEF Settling
  <1>6. Settling' = Settling /\ InFlight' = InFlight /\ Gathered' = Gathered
    BY <1>5, Zenon DEF Settling, InFlight, Gathered
  <1>7. SettledBatch' = SettledBatch /\ SettledRows' = SettledRows /\ InState' = InState
    BY <1>3, <1>5, Zenon DEF SettledBatch, SettledRows, InState, SameWork, SameBatch
  <1>8. Written' = Written
    BY Zenon DEF Written, Mine, SameWork, SameBatch
  <1>9. ck.committed.batch \in Nat
    BY Zenon DEF Sound, Running
  <1>10. Stored'
    <2> ck.committed # NoRecord /\ NoRecord.batch \in Int /\ NoRecord.files = {}
      BY <1>9, Absent, Zenon
    <2>3. QED
      BY <1>2, <1>3, Zenon DEF Sound, Stored
  <1>11. FilesOnce' /\ Line'
    BY <1>7, Zenon DEF Sound, FilesOnce, Line
  <1>12. Running'
    BY <1>3, <1>7, <1>9, Zenon DEF Sound, Running, Points, SameWork, SameBatch, RunFields
  <1>13. Flight'
    <2> InFlight' => Settling
      BY <1>5, Zenon DEF InFlight
    <2>2. QED
      BY <1>3, <1>6, <1>7, Zenon DEF Sound, Flight, SameWork, SameBatch
  <1> Mapping'
    BY <1>3, <1>6, <1>8, Zenon DEF Sound, Mapping, SameWork, SameBatch
  <1> Windowing'
    BY <1>3, <1>6, <1>7, <1>8, Zenon DEF Sound, Windowing, SameWork, SameBatch
  <1>16. QED
    BY <1>3, <1>6, <1>7, <1>10, <1>11, <1>12, <1>13, Zenon DEF Sound

\* What the commit of the state does: the line moves over the batch.
PromotesState ==
    /\ run.pc = "source promoted" /\ query = "window" /\ DOMAIN run = RunFields
    /\ run'.pc = "state put" /\ run'.marker = run.marker /\ SameWork
    /\ DOMAIN ck' = CkFields /\ ck'.state \in ck.stagedState /\ ck'.stagedState = ck.stagedState
    /\ ck'.staged = ck.staged /\ ck'.committed = ck.committed /\ ck'.offsets = ck.offsets
    /\ ck'.chunks = ck.chunks
    /\ UNCHANGED <<input, store, log, query, late, bound>>

\* No fault that the query survives keeps the state from its commit.
LEMMA CommitStateIs ==
    ASSUME Survivable, Sound, CommitState
    PROVE  PromotesState
  <1>1. query \in Query /\ query = "window" /\ run.pc = "source promoted" /\ DOMAIN run = RunFields
    BY MicroBatchAssumption, Zenon DEF CommitState, Sound, Stored, Running
  <1> PICK snapshot \in ck.stagedState :
          ck' = [ck EXCEPT !.state = snapshot] /\ Goto("state put") /\ UNCHANGED bound
    <2>1. ~Fault("state commit")
      BY <1>1, Zenon DEF Fault, MayFail, Survivable
    <2>2. ck.stagedState # {}
      BY <1>1, Zenon DEF Sound, Windowing, Gathered, Settling
    <2>3. QED
      BY <2>1, <2>2, Zenon DEF CommitState
  <1> UNCHANGED <<input, store, log, query, late>>
    BY Zenon DEF CommitState
  <1> /\ DOMAIN ck' = CkFields /\ ck'.state = snapshot /\ ck'.stagedState = ck.stagedState
      /\ ck'.staged = ck.staged /\ ck'.committed = ck.committed /\ ck'.offsets = ck.offsets
      /\ ck'.chunks = ck.chunks
    BY Zenon DEF Sound, Stored, CkFields
  <1>5. QED
    BY <1>1, GotoPoint, Zenon DEF PromotesState

\* Where the line is after the commit of the state.
LEMMA PromotedStateLine ==
    ASSUME Sound, PromotesState
    PROVE  /\ Settling /\ ~Settling' /\ ~InFlight' /\ ~Gathered' /\ Gathered /\ InFlight
           /\ run.batch = SettledBatch + 1 /\ SettledBatch \in Int /\ SettledBatch >= -1
           /\ run.files \subseteq input /\ run.files \cap SettledRows = {}
           /\ SettledBatch' = SettledBatch + 1 /\ SettledRows' = SettledRows \cup run.files
           /\ InState' = Rows(ck'.state.rows)
           /\ Rows(ck'.state.rows) \cap Written = {}
           /\ Rows(ck'.state.rows) \cup Written \subseteq InState \cup run.files
           /\ Written = Rows(run.out)
  <1> Settling /\ ~Settling' /\ ~InFlight' /\ ~Gathered' /\ Gathered /\ InFlight
    BY Zenon DEF PromotesState, Settling, InFlight, Gathered
  <1>2. ck.committed.batch \in Nat
    BY Zenon DEF PromotesState, Sound, Running
  <1>3. SettledBatch = ck.committed.batch - 1 /\ SettledRows = ck.committed.files \ run.files
    BY Zenon DEF SettledBatch, SettledRows
  <1>4. SettledBatch' = ck.committed.batch /\ SettledRows' = ck.committed.files
    BY Zenon DEF SettledBatch, SettledRows, PromotesState
  <1>5. /\ run.batch = SettledBatch + 1 /\ run.files \subseteq ck.committed.files
        /\ run.files \subseteq input /\ run.files \cap SettledRows = {}
    BY Zenon DEF Sound, Flight
  <1>6. /\ Rows(ck'.state.rows) \cap Rows(run.out) = {}
        /\ Rows(ck'.state.rows) \cup Rows(run.out) \subseteq InState \cup run.files
        /\ Written = Rows(run.out)
    BY Zenon DEF PromotesState, Sound, Windowing
  <1>7. InState' = Rows(ck'.state.rows)
    BY Zenon DEF PromotesState, InState
  <1> SettledBatch \in Int /\ SettledBatch >= -1 /\ SettledBatch' = SettledBatch + 1
    BY <1>2, <1>3, <1>4
  <1> SettledRows' = SettledRows \cup run.files
    BY <1>3, <1>4, <1>5, Zenon
  <1>10. QED
    BY <1>5, <1>6, <1>7, Zenon

\* The state of the operators is promoted.
LEMMA PromotesStateSound ==
    ASSUME Sound, PromotesState
    PROVE  Sound'
  <1>1. /\ query' = query /\ input' = input /\ store' = store /\ log' = log /\ bound' = bound
        /\ late' = late /\ query = "window" /\ run.pc = "source promoted" /\ run'.pc = "state put"
    BY Zenon DEF PromotesState
  <1>2. /\ run.batch = SettledBatch + 1 /\ SettledBatch \in Int /\ SettledBatch >= -1
        /\ run.files \subseteq input /\ run.files \cap SettledRows = {}
        /\ SettledBatch' = SettledBatch + 1 /\ SettledRows' = SettledRows \cup run.files
        /\ InState' = Rows(ck'.state.rows)
        /\ Rows(ck'.state.rows) \cap Written = {}
        /\ Rows(ck'.state.rows) \cup Written \subseteq InState \cup run.files
    BY PromotedStateLine, Zenon
  <1>3. Stored'
    BY <1>1, Zenon DEF PromotesState, Sound, Stored
  <1>4. FilesOnce'
    BY <1>1, Zenon DEF Sound, FilesOnce
  <1>5. Line'
    <2>1. InState \subseteq SettledRows
      BY Zenon DEF Sound, Line
    <2>2. InState' \subseteq SettledRows'
      BY <1>2, <2>1, Zenon
    <2>3. ASSUME NEW f \in store
          PROVE  /\ f.batch <= SettledBatch + 1 /\ ~ (f.batch > SettledBatch + 1)
                 /\ Rows(f.rows) \subseteq SettledRows' \ InState'
      <3>1. f.batch \in Nat
        BY Zenon DEF Sound, FilesOnce
      <3>2. CASE f.batch <= SettledBatch
        <4> USE <3>2
        <4> Rows(f.rows) \subseteq SettledRows \ InState
          BY Zenon DEF Sound, Line
        <4> Rows(f.rows) \subseteq SettledRows' \ InState'
          BY <1>2, Zenon
        <4>3. QED
          BY <1>2, <3>1
      <3>3. CASE f.batch > SettledBatch
        <4> f.batch = SettledBatch + 1
          BY <3>3, Zenon DEF Sound, Line
        <4>2. f \in Mine
          BY <1>2, Zenon DEF Mine, ListBatchFiles
        <4> Rows(f.rows) \subseteq Written
          BY <4>2, Zenon DEF Written
        <4> Rows(f.rows) \subseteq SettledRows' \ InState'
          BY <1>2, <2>1, Zenon
        <4>5. QED
          BY <1>2
      <3>4. QED
        BY <1>2, <3>1, <3>2, <3>3
    <2>4. DOMAIN log \subseteq 0 .. (SettledBatch + 1) + 1
      BY <1>2 DEF Sound, Line
    <2> SettledBatch + 1 >= -1
      BY <1>2
    <2> SettledBatch' = SettledBatch + 1 /\ store' = store /\ log' = log
      BY <1>1, <1>2, Zenon
    <2>7. QED
      BY <2>2, <2>3, <2>4, ZenonT(30) DEF Line
  <1>6. Running'
    BY <1>1, Zenon DEF PromotesState, Sound, Running, Points, SameWork, SameBatch, RunFields
  <1> Flight' /\ Mapping' /\ Windowing'
    <2> ~InFlight' /\ ~Gathered'
      BY PromotedStateLine, Zenon
    <2>2. QED
      BY <1>1, Zenon DEF Flight, Mapping, Windowing
  <1>8. QED
    BY <1>3, <1>4, <1>5, <1>6, Zenon DEF Sound

\* The staged state is deleted.
LEMMA DeleteStagedStateSound ==
    ASSUME Sound, DeleteStagedState
    PROVE  /\ Sound' /\ ~Settling /\ ~Settling' /\ run'.pc = "idle" /\ ck'.state = ck.state
           /\ ck'.committed = ck.committed
  <1> /\ run.pc = "state put" /\ DOMAIN run = RunFields
      /\ run'.pc = "idle" /\ run'.marker = run.marker /\ SameWork
      /\ UNCHANGED <<input, store, log, query, late, bound>>
    BY GotoPoint, Zenon DEF DeleteStagedState, Sound, Running
  <1> /\ DOMAIN ck' = CkFields /\ ck'.stagedState = {}
      /\ ck'.staged = ck.staged /\ ck'.committed = ck.committed /\ ck'.offsets = ck.offsets
      /\ ck'.chunks = ck.chunks /\ ck'.state = ck.state
    BY Zenon DEF DeleteStagedState, Sound, Stored, CkFields
  <1> ~Settling /\ ~Settling' /\ ~InFlight' /\ ~Gathered'
    BY Zenon DEF Settling, InFlight, Gathered
  <1>4. SettledBatch' = SettledBatch /\ SettledRows' = SettledRows /\ InState' = InState
    BY LineStays, Zenon DEF InState
  <1>5. Stored'
    BY Zenon DEF Sound, Stored
  <1>6. FilesOnce' /\ Line'
    BY <1>4, Zenon DEF Sound, FilesOnce, Line
  <1>7. Running'
    BY <1>4, Zenon DEF Sound, Running, Points, SameWork, SameBatch, RunFields
  <1> Flight' /\ Windowing'
    BY Zenon DEF Flight, Windowing
  <1> Mapping'
    BY Zenon DEF Sound, Mapping
  <1>10. QED
    BY <1>5, <1>6, <1>7, Zenon DEF Sound
-----------------------------------------------------------------------------
(* A row is never seen twice.                                              *)

\* Nothing is stored when the query is started for the first time.
LEMMA InitSound ==
    ASSUME Init
    PROVE  Sound
  <1> /\ run.pc = "stopped" /\ "pc" \in DOMAIN run /\ run = Stopped
      /\ input = {} /\ store = {} /\ late = {} /\ log = NoLog /\ query \in Query
    BY Zenon DEF Init, Stopped
  <1>2. /\ DOMAIN ck = CkFields /\ ck.staged = NoRecord /\ ck.committed = NoRecord
        /\ ck.offsets = {} /\ ck.state = NoSnapshot /\ ck.stagedState = {}
        /\ ck.chunks = NoChunks
    BY Zenon DEF Init, CkFields
  <1>3. ~Settling /\ ~InFlight /\ ~Gathered
    BY Zenon DEF Settling, InFlight, Gathered
  <1>4. SettledBatch = -1 /\ SettledRows = {}
    BY <1>2, <1>3 DEF SettledBatch, SettledRows, NoRecord
  <1>5. /\ NoSnapshot.rows \in Flat /\ NoSnapshot.wm \in Int /\ Rows(NoSnapshot.rows) = {}
    BY FlatBags DEF NoSnapshot, NoTime
  <1>6. Stored
    <2>1. ChunksFlat(NoChunks)
      BY Zenon DEF ChunksFlat, NoChunks
    <2> bound.attempt \in Nat /\ DOMAIN bound = {"troubles", "idle", "attempt"}
      BY Zenon DEF Init
    <2> NoRecord.batch \in Int /\ NoRecord.files \subseteq input
      BY DEF NoRecord
    <2>4. QED
      BY <1>2, <1>5, <2>1, Zenon DEF Stored
  <1>7. FilesOnce
    BY Zenon DEF FilesOnce
  <1>8. Line
    <2> DOMAIN log = {}
      BY Zenon DEF NoLog
    <2>2. QED
      BY <1>2, <1>4, <1>5 DEF Line, InState
  <1> Running
    BY <1>2, Zenon DEF Running
  <1> Flight /\ Mapping /\ Windowing
    BY <1>2, <1>3, Zenon DEF Flight, Mapping, Windowing
  <1>11. QED
    BY <1>6, <1>7, <1>8, Zenon DEF Sound

\* Every step of the system keeps the invariant.
LEMMA NextSound ==
    ASSUME SetLaws, Survivable, Sound, [Next]_vars
    PROVE  Sound'
  <1>1. ASSUME NEW r \in Row, Arrive(r)
        PROVE  Sound'
    BY <1>1, ArriveSound, Zenon
  <1>2. CASE Start
    BY <1>2, StartSound, Zenon
  <1>3. CASE MakeStream
    BY <1>3, MakeStreamSound, Zenon
  <1>4. CASE CleanDir
    BY <1>4, CleanDirSound, Zenon
  <1>5. ASSUME NEW r \in Row, WriteFile(r)
        PROVE  Sound'
    BY <1>5, WriteFileSound, Zenon
  <1>6. ASSUME NEW emit \in BOOLEAN, ReadFile(emit)
        PROVE  Sound'
    BY <1>6, ReadFileSound, Zenon
  <1>7. CASE EndOfData
    BY <1>7, EndOfDataSound, Zenon
  <1>8. CASE FinishFile
    BY <1>8, FinishFileSound, Zenon
  <1>9. CASE CommitLog
    BY <1>9, CommitLogSound, Zenon
  <1>10. CASE PutOffsets
    BY <1>10, PutOffsetsSound, Zenon
  <1>11. CASE CommitSource
    BY <1>11, CommitSourceIs, NotPromotedSound, PromotesSound, Zenon
  <1>12. CASE DeleteStagedSource
    BY <1>12, DeleteStagedSourceSound, Zenon
  <1>13. CASE CommitState
    BY <1>13, CommitStateIs, PromotesStateSound, Zenon
  <1>14. CASE DeleteStagedState
    BY <1>14, DeleteStagedStateSound, Zenon
  <1>15. CASE Stop
    BY <1>15, StopSound, Zenon
  <1>16. CASE UNCHANGED vars
    <2> /\ input' = input /\ store' = store /\ log' = log /\ ck' = ck /\ run' = run
        /\ query' = query /\ late' = late /\ bound' = bound
      BY <1>16, Zenon DEF vars
    <2>2. Settling' <=> Settling
      BY Zenon DEF Settling
    <2>3. SettledBatch' = SettledBatch /\ SettledRows' = SettledRows
      BY <2>2, Zenon DEF SettledBatch, SettledRows
    <2> /\ InState' = InState /\ Mine' = Mine /\ (InFlight' <=> InFlight)
        /\ (Gathered' <=> Gathered)
      BY <2>2, Zenon DEF InState, Mine, InFlight, Gathered
    <2>5. Written' = Written
      BY Zenon DEF Written
    <2>6. Stored' /\ FilesOnce'
      BY Zenon DEF Sound, Stored, FilesOnce
    <2>7. Line' /\ Running'
      BY <2>3, Zenon DEF Sound, Line, Running
    <2> Flight'
      BY <2>2, <2>3, Zenon DEF Sound, Flight
    <2> Mapping' /\ Windowing'
      BY <2>5, Zenon DEF Sound, Mapping, Windowing
    <2>10. QED
      BY <2>6, <2>7, Zenon DEF Sound
  <1>17. QED
    BY <1>1, <1>2, <1>3, <1>4, <1>5, <1>6, <1>7, <1>8, <1>9, <1>10, <1>11, <1>12, <1>13, <1>14,
       <1>15, <1>16, Zenon DEF Next, Runner

\* A reader that takes files of the store has at most one copy of a row.
LEMMA OneCopy ==
    ASSUME SetLaws, FilesOnce, NEW files \in SUBSET store, NEW r \in Row
    PROVE  Copies(r, files) = IF \E f \in files : r \in Rows(f.rows) THEN 1 ELSE 0
  <1> DEFINE all == UNION {{f} \X (1 .. f.rows[r]) : f \in files}
  <1>1. \A f \in files : f.rows[r] \in {0, 1} /\ (r \in Rows(f.rows) <=> f.rows[r] = 1)
    BY DEF FilesOnce, Flat, Rows
  <1>2. ASSUME NEW f \in files, r \in Rows(f.rows)
        PROVE  Copies(r, files) = 1
    <2>1. \A g \in files : g # f => g.rows[r] = 0
      BY <1>1, <1>2, Zenon DEF FilesOnce
    <2>2. \A g \in files : g # f => {g} \X (1 .. g.rows[r]) = {}
      BY <2>1
    <2> {f} \X (1 .. f.rows[r]) = {<<f, 1>>}
      BY <1>1, <1>2
    <2> all = {<<f, 1>>}
      BY <2>2, Zenon
    <2>5. QED
      BY Zenon DEF SetLaws, Copies
  <1>3. ASSUME ~ \E f \in files : r \in Rows(f.rows)
        PROVE  Copies(r, files) = 0
    <2> \A g \in files : {g} \X (1 .. g.rows[r]) = {}
      BY <1>1, <1>3
    <2> all = {}
      BY Zenon
    <2>3. QED
      BY Zenon DEF SetLaws, Copies
  <1>4. QED
    BY <1>2, <1>3, Zenon
-----------------------------------------------------------------------------
(* No row is lost: a settled row is in the state of the window or in a     *)
(* listed file, or it is late, and so are the rows of the batch in flight  *)
(* once they are read.                                                     *)

\* No watermark that advances is held back by the throttle of the Final merge.
Spaced ==
    \A r, s \in Row : EventTime[r] > EventTime[s] => EventTime[r] - EventTime[s] >= FinalThrottle

\* The watermarks that there are, and the rows excused from the output.
Moments == {NoTime} \cup {EventTime[r] - Delay : r \in Row}
Excused == late \cup run.late

\* No row that is not excused is in a closed window of the accumulator.
Timely(acc, chunks, excused) ==
    /\ acc.wm \in Moments /\ acc.lastFinal \in Moments
    /\ acc.lastFinal <= acc.wm /\ acc.floor <= acc.wm
    /\ \A e \in acc.emitted : e \in Int /\ e <= acc.wm
    /\ \A r \in Held(acc, chunks) \ excused : WindowEnd(r) > acc.wm
TimelySnapshot(s, excused) ==
    /\ s.wm \in Moments
    /\ \A e \in s.emitted : e \in Int /\ e <= s.wm
    /\ \A r \in Rows(s.rows) \ excused : WindowEnd(r) > s.wm

\* The commit log lists the files up to the line, and those of a logged batch.
Listed ==
    /\ \A b \in DOMAIN log : ~IsCompaction(b) => \A f \in log[b] : f.batch = b
    /\ \A f \in store : f.batch <= SettledBatch => f \in ReadCommittedFiles(log)
    /\ run.pc \in {"logged", "marked"} \/ Settling =>
           Mine \subseteq ReadCommittedFiles(log)

\* No settled row is lost.
Delivered == UNION {Rows(f.rows) : f \in {g \in store : g.batch <= SettledBatch}}
Lasting ==
    /\ SettledRows \ late \subseteq InState \cup Delivered
    /\ TimelySnapshot(ck.state, late)

\* None of the batch in flight is lost either.
Pursued ==
    /\ Settling => run.late \subseteq late
    /\ query = "window" =>
          /\ run.pc \in {"planned", "reading"} =>
                /\ run.wm.maxTs \in {NoTime} \cup {EventTime[r] : r \in Row}
                /\ (InState \cup (run.files \ run.unread)) \ Excused
                       \subseteq Held(run.acc, ck.chunks) \cup Rows(run.out)
                /\ Timely(run.acc, ck.chunks, Excused)
          /\ Gathered =>
                \A s \in ck.stagedState :
                    /\ (InState \cup run.files) \ Excused \subseteq Rows(s.rows) \cup Rows(run.out)
                    /\ TimelySnapshot(s, Excused)

Complete == Listed /\ Lasting /\ Pursued
-----------------------------------------------------------------------------
(* The window operator.                                                    *)

\* When no watermark is held back by the throttle, a watermark emits every window
\* that it closes: of the rows that are not excused, none is lost.
LEMMA WatermarkTimely ==
    ASSUME SetLaws, Spaced, NEW acc, NEW chunks, Once(acc, chunks), ChunksFlat(chunks),
           NEW excused, Timely(acc, chunks, excused), NEW w \in Moments,
           NEW e, e = WindowWatermark(acc, chunks, w)
    PROVE  /\ Timely(e.acc, e.chunks, excused)
           /\ Held(acc, chunks) \ excused \subseteq Held(e.acc, e.chunks) \cup Rows(e.out)
  <1> /\ \A t \in Moments : t \in Int /\ t >= -1
      /\ \A r \in Held(acc, chunks) : WindowEnd(r) \in Nat
    BY WindowEndIsNumber, WindowAssumption DEF Held, Rows, Moments, NoTime
  <1>2. w \in Int
    BY Zenon
  <1>3. PICK seen : /\ Once(seen, chunks) /\ Held(seen, chunks) = Held(acc, chunks)
                    /\ seen.wm = Later(acc.wm, w) /\ seen.emitted \subseteq acc.emitted
                    /\ seen.lastFinal = acc.lastFinal /\ seen.floor = acc.floor
                    /\ IF acc.lastFinal = NoTime \/ seen.wm - acc.lastFinal >= FinalThrottle
                       THEN Merges(seen, chunks, e, seen.wm)
                       ELSE e = Effect(seen, chunks, NoRows)
    BY <1>2, WatermarkRows
  <1> /\ acc.wm \in Moments /\ acc.lastFinal \in Moments /\ acc.floor \in Int
      /\ acc.lastFinal <= acc.wm /\ acc.floor <= acc.wm
      /\ \A x \in acc.emitted : x \in Int /\ x <= acc.wm
      /\ \A r \in Held(acc, chunks) \ excused : WindowEnd(r) > acc.wm
    BY Zenon DEF Timely, Once
  <1> seen.wm \in Moments /\ seen.wm >= acc.wm
    BY <1>3 DEF Later
  <1>6. CASE Merges(seen, chunks, e, seen.wm)
    <2> /\ Held(e.acc, e.chunks) = {r \in Held(acc, chunks) : WindowEnd(r) > seen.wm}
        /\ Rows(e.out) = {r \in Held(acc, chunks) : Fires(seen, seen.wm, r)}
        /\ e.acc.wm = seen.wm /\ e.acc.lastFinal = seen.wm
        /\ e.acc.emitted = seen.emitted \cup
              {WindowEnd(r) : r \in {x \in Held(acc, chunks) : WindowEnd(x) <= seen.wm}}
        /\ e.acc.floor = Later(acc.floor, seen.wm - AllowedLateness)
      BY <1>3, <1>6, Zenon DEF Merges, Holds
    <2>2. \A r \in Held(acc, chunks) \ excused : WindowEnd(r) <= seen.wm => Fires(seen, seen.wm, r)
      BY <1>3 DEF Fires
    <2>3. Held(acc, chunks) \ excused \subseteq Held(e.acc, e.chunks) \cup Rows(e.out)
      BY <2>2
    <2> \A x \in e.acc.emitted : x \in Int /\ x <= e.acc.wm
      BY <1>3
    <2> e.acc.floor <= e.acc.wm
      BY WindowAssumption DEF Later
    <2>6. QED
      BY <2>3 DEF Timely
  <1>7. CASE acc.lastFinal # NoTime /\ seen.wm - acc.lastFinal < FinalThrottle
    <2>1. seen.wm = acc.wm
      <3>1. acc.lastFinal >= 0 /\ seen.wm >= acc.lastFinal
        BY <1>7 DEF NoTime
      <3>2. PICK r \in Row : acc.lastFinal = EventTime[r] - Delay
        BY <1>7, Zenon DEF Moments
      <3> PICK s \in Row : seen.wm = EventTime[s] - Delay
        <4> seen.wm # NoTime
          BY <3>1 DEF NoTime
        <4>2. QED
          BY Zenon DEF Moments
      <3> EventTime[r] \in Nat /\ EventTime[s] \in Nat /\ Delay \in Nat /\ FinalThrottle \in Nat
        BY WindowAssumption, Zenon
      <3> ~ (EventTime[s] > EventTime[r])
        BY <1>7, <3>2 DEF Spaced
      <3> seen.wm = acc.lastFinal
        BY <3>1, <3>2
      <3>7. QED
        OBVIOUS
    <2> e.acc = seen /\ e.chunks = chunks
      <3> ~ (seen.wm - acc.lastFinal >= FinalThrottle)
        BY <1>7, WindowAssumption
      <3>2. QED
        BY <1>3, <1>7 DEF Effect
    <2>3. QED
      BY <1>3, <2>1, Zenon DEF Timely
  <1>8. QED
    <2> seen.wm \in Int /\ acc.lastFinal \in Int /\ FinalThrottle \in Nat
      BY WindowAssumption, Zenon
    <2>2. QED
      BY <1>3, <1>6, <1>7
-----------------------------------------------------------------------------
(* Every row has its effect exactly once.                                  *)

\* The settled part of the output, and a step that leaves the line where it is.
SettledFiles == {f \in store : f.batch <= SettledBatch}
Quiet ==
    /\ query' = query /\ late' = late /\ ck'.state = ck.state
    /\ SettledBatch' = SettledBatch /\ SettledRows' = SettledRows
    /\ SettledFiles' = SettledFiles /\ input \subseteq input'

\* The commit log after the commit of a batch: the files of the batch are listed,
\* and so is what was listed before, but for the same batch.
LEMMA CommitBatchLists ==
    ASSUME NEW b \in Nat, NEW files, DOMAIN log \subseteq 0 .. b,
           \A x \in DOMAIN log : ~IsCompaction(x) => \A f \in log[x] : f.batch = x,
           \A f \in files : f.batch = b, log' = CommitBatch(log, b, files)
    PROVE  /\ \A x \in DOMAIN log' : ~IsCompaction(x) => \A f \in log'[x] : f.batch = x
           /\ files \subseteq ReadCommittedFiles(log')
           /\ \A f \in ReadCommittedFiles(log) : f.batch # b => f \in ReadCommittedFiles(log')
  <1> DEFINE compact == {x \in DOMAIN log : IsCompaction(x)}
             compact1 == {x \in DOMAIN log' : IsCompaction(x)}
             newest == {x \in DOMAIN log : \A c \in compact : x >= c}
             newest1 == {x \in DOMAIN log' : \A c \in compact1 : x >= c}
             old == ReadLiveEntries(log, 0 .. b)
             entries == files \cup (IF IsCompaction(b) THEN old ELSE {})
  <1>1. /\ DOMAIN log' = DOMAIN log \cup {b} /\ log'[b] = entries
        /\ \A x \in DOMAIN log : x # b => log'[x] = log[x]
    BY Zenon DEF CommitBatch
  <1>2. ReadCommittedFiles(log) = UNION {log[x] : x \in newest}
    <2> DOMAIN log \cap DOMAIN log = DOMAIN log
      BY Zenon
    <2>2. QED
      BY Zenon DEF ReadCommittedFiles, ReadLiveEntries
  <1>3. ReadCommittedFiles(log') = UNION {log'[x] : x \in newest1}
    <2> DOMAIN log' \cap DOMAIN log' = DOMAIN log'
      BY Zenon
    <2>2. QED
      BY Zenon DEF ReadCommittedFiles, ReadLiveEntries
  <1>4. old = UNION {log[x] : x \in newest}
    <2> DOMAIN log \cap 0 .. b = DOMAIN log
      BY Zenon
    <2>2. QED
      BY Zenon DEF ReadLiveEntries
  <1>5. b \in newest1
    BY <1>1
  <1> HIDE DEF old
  <1>6. \A x \in DOMAIN log' : ~IsCompaction(x) => \A f \in log'[x] : f.batch = x
    BY <1>1, Zenon
  <1>7. entries \subseteq ReadCommittedFiles(log')
    <2> HIDE DEF entries, newest1
    <2>1. QED
      BY <1>1, <1>3, <1>5, Zenon
  <1>8. ASSUME NEW f \in ReadCommittedFiles(log), f.batch # b
        PROVE  f \in ReadCommittedFiles(log')
    <2>1. CASE IsCompaction(b)
      <3> f \in entries
        BY <1>2, <1>4, <1>8, <2>1, Zenon
      <3>2. QED
        BY <1>7, Zenon
    <2>2. CASE ~IsCompaction(b)
      <3> PICK x \in newest : f \in log[x]
        BY <1>2, <1>8, Zenon
      <3>2. compact1 = compact
        BY <1>1, <2>2, Zenon
      <3>3. x # b
        BY <1>8, <2>2, Zenon
      <3> x \in newest1 /\ f \in log'[x]
        <4> log'[x] = log[x] /\ x \in DOMAIN log'
          BY <1>1, <3>3, Zenon
        <4>2. QED
          BY <3>2, Zenon
      <3> HIDE DEF newest1
      <3>5. QED
        BY <1>3, Zenon
    <2>3. QED
      BY <2>1, <2>2, Zenon
  <1>9. QED
    BY <1>6, <1>7, <1>8, Zenon

\* A step that logs nothing and lets the line be keeps the log complete.
LEMMA ListedStays ==
    ASSUME Listed, Quiet, log' = log,
           run'.pc \in {"logged", "marked"} \/ Settling' =>
               /\ run.pc \in {"logged", "marked"} \/ Settling
               /\ run'.batch = run.batch /\ store' = store
    PROVE  Listed'
  <1> \A f \in store' : f.batch <= SettledBatch' => f \in ReadCommittedFiles(log')
    BY Zenon DEF Listed, Quiet, SettledFiles
  <1> run'.pc \in {"logged", "marked"} \/ Settling' => Mine' \subseteq ReadCommittedFiles(log')
    BY Zenon DEF Listed, Mine
  <1>3. QED
    BY Zenon DEF Listed

\* A step that lets the line be takes nothing away from what is settled.
LEMMA LastingStays ==
    ASSUME Lasting, Quiet
    PROVE  Lasting' /\ InState' = InState
  BY Zenon DEF Lasting, Quiet, SettledFiles, Delivered, InState

\* No batch is in flight after the step.
LEMMA PursuedIdle ==
    ASSUME run'.pc \in {"idle", "stopped", "state put"}
    PROVE  Pursued'
  BY Zenon DEF Pursued, Settling, Gathered

\* A step that keeps the record of the batch.
LEMMA PursuedStays ==
    ASSUME Pursued, Quiet, SameWork, ck'.chunks = ck.chunks, ck'.stagedState = ck.stagedState,
           Settling' => Settling, Gathered' => Gathered,
           run'.pc \in {"planned", "reading"} /\ query = "window" => run.pc \in {"planned", "reading"}
    PROVE  Pursued'
  <1> InState' = InState /\ Excused' = Excused /\ query' = query /\ late' = late
    BY Zenon DEF Quiet, InState, SameWork, Excused
  <1> /\ run'.late = run.late /\ run'.wm = run.wm /\ run'.files = run.files /\ run'.unread = run.unread
      /\ run'.acc = run.acc /\ run'.out = run.out
    BY Zenon DEF SameWork, SameBatch
  <1>3. QED
    BY Zenon DEF Pursued

\* A step outside of the commits, which leaves the settled files alone.
LEMMA QuietStep ==
    ASSUME query' = query, late' = late, ck'.state = ck.state, ck'.committed = ck.committed,
           ~Settling, ~Settling', input \subseteq input',
           {f \in store' : f.batch <= SettledBatch} = SettledFiles
    PROVE  Quiet
  <1> SettledBatch' = SettledBatch /\ SettledRows' = SettledRows
    BY LineStays, Zenon
  <1> SettledFiles' = SettledFiles
    BY Zenon DEF SettledFiles
  <1>3. QED
    BY Zenon DEF Quiet

\* A step of the source directory alone.
LEMMA QuietRow ==
    ASSUME query' = query, late' = late, ck' = ck, run' = run, store' = store, input \subseteq input'
    PROVE  Quiet /\ (Settling' <=> Settling) /\ (Gathered' <=> Gathered)
  <1> Settling' <=> Settling
    BY Zenon DEF Settling
  <1> SettledBatch' = SettledBatch /\ SettledRows' = SettledRows
    BY Zenon DEF SettledBatch, SettledRows
  <1> SettledFiles' = SettledFiles
    BY Zenon DEF SettledFiles
  <1> Gathered' <=> Gathered
    BY Zenon DEF Gathered
  <1>5. QED
    BY Zenon DEF Quiet

\* A file arrives, or nothing happens.
LEMMA ArriveComplete ==
    ASSUME Complete, query' = query, late' = late, ck' = ck, run' = run, store' = store, log' = log,
           input \subseteq input'
    PROVE  Complete' /\ Quiet
  <1> Quiet /\ (Settling' <=> Settling) /\ (Gathered' <=> Gathered)
    BY QuietRow, Zenon
  <1>2. Listed'
    BY ListedStays, Zenon DEF Complete
  <1> Lasting' /\ InState' = InState
    BY LastingStays, Zenon DEF Complete
  <1> Pursued'
    <2> Excused' = Excused
      BY Zenon DEF Excused
    <2>2. QED
      BY Zenon DEF Complete, Pursued
  <1>5. QED
    BY <1>2, Zenon DEF Complete

\* The process is started, or stops.
LEMMA RestartComplete ==
    ASSUME Complete, ~Settling, run'.pc \in {"idle", "stopped"},
           ck'.state = ck.state, ck'.committed = ck.committed,
           UNCHANGED <<input, store, log, query, late>>
    PROVE  Complete' /\ Quiet
  <1>1. ~Settling'
    BY Zenon DEF Settling
  <1> Quiet
    BY <1>1, QuietStep, Zenon DEF SettledFiles
  <1>3. Listed'
    BY <1>1, ListedStays, Zenon DEF Complete
  <1> Lasting'
    BY LastingStays, Zenon DEF Complete
  <1> Pursued'
    BY PursuedIdle, Zenon
  <1>6. QED
    BY <1>3, Zenon DEF Complete

\* make_stream: the restored operator has the rows of the committed state.
LEMMA MakeStreamComplete ==
    ASSUME Survivable, Sound, Complete, MakeStream
    PROVE  Complete' /\ Quiet
  <1>1. /\ run.pc = "idle" /\ ck'.committed = ck.committed /\ ck'.state = ck.state /\ ck'.chunks = ck.chunks
        /\ UNCHANGED <<input, store, log, query, late>>
    BY StagesSource, Zenon DEF MakeStream, Sound, Stored, CkFields
  <1>2. /\ run'.pc = "planned" /\ run'.files = run'.unread /\ run'.acc = Restore(ck.state)
        /\ run'.wm = NewWatermark /\ run'.late = {}
    BY Zenon DEF MakeStream
  <1>3. ~Settling /\ ~Settling' /\ ~Gathered'
    BY <1>1, <1>2, Zenon DEF Settling, Gathered
  <1>4. Quiet
    BY <1>1, <1>3, QuietStep, Zenon DEF SettledFiles
  <1>5. Listed'
    BY <1>1, <1>2, <1>3, <1>4, ListedStays, Zenon DEF Complete
  <1>6. Lasting' /\ InState' = InState
    BY <1>4, LastingStays, Zenon DEF Complete
  <1> Pursued'
    <2> DEFINE acc == Restore(ck.state)
    <2>1. /\ acc.pending = ck.state.rows /\ acc.spilled = {} /\ acc.emitted = ck.state.emitted
          /\ acc.wm = ck.state.wm /\ acc.floor = ck.state.wm /\ acc.lastFinal = NoTime
      BY Zenon DEF Restore, AccumState
    <2> HIDE DEF acc
    <2>2. Held(acc, ck.chunks) = InState
      BY <2>1, Zenon DEF Held, InState
    <2>3. Excused' = late
      BY <1>1, <1>2, Zenon DEF Excused
    <2> Timely(acc, ck.chunks, late)
      <3> TimelySnapshot(ck.state, late)
        BY Zenon DEF Complete, Lasting
      <3>2. ck.state.wm \in Int /\ ck.state.wm >= -1
        BY WindowAssumption DEF TimelySnapshot, Moments, NoTime
      <3>3. acc.wm \in Moments /\ acc.lastFinal \in Moments
        BY <2>1, Zenon DEF TimelySnapshot, Moments
      <3> acc.lastFinal <= acc.wm /\ acc.floor <= acc.wm
        BY <2>1, <3>2 DEF NoTime
      <3> /\ \A e \in acc.emitted : e \in Int /\ e <= acc.wm
          /\ \A r \in Held(acc, ck.chunks) \ late : WindowEnd(r) > acc.wm
        BY <2>1, <2>2, Zenon DEF TimelySnapshot, InState
      <3>6. QED
        BY <3>3, Zenon DEF Timely
    <2> run'.wm.maxTs = NoTime
      BY <1>2 DEF NewWatermark
    <2>6. QED
      BY <1>1, <1>2, <1>3, <1>6, <2>2, <2>3, Zenon DEF Pursued, acc
  <1>8. QED
    BY <1>4, <1>5, <1>6, Zenon DEF Complete

\* The directory of the batch is emptied.
LEMMA CleanDirComplete ==
    ASSUME Sound, Complete, CleanDir
    PROVE  Complete' /\ Quiet
  <1> DEFINE p == IF query = "map" /\ run.unread = {} THEN "written" ELSE "reading"
  <1>1. /\ run.pc = "planned" /\ run'.pc = p /\ SameWork
        /\ UNCHANGED <<input, log, ck, query, late, bound>>
    BY GotoPoint, Zenon DEF CleanDir, Sound, Running
  <1>2. p \in {"written", "reading"} /\ (query = "window" => p = "reading")
    BY Zenon
  <1> HIDE DEF p
  <1>3. ~Settling /\ ~Settling' /\ (query = "window" => ~Gathered')
    BY <1>1, <1>2, Zenon DEF Settling, Gathered
  <1>4. store' \subseteq store /\ \A f \in store : f.batch <= SettledBatch => f \in store'
    BY CleanDirSound, Zenon
  <1> Quiet
    <2> {f \in store' : f.batch <= SettledBatch} = SettledFiles
      BY <1>4, Zenon DEF SettledFiles
    <2>2. QED
      BY <1>1, <1>3, QuietStep, Zenon
  <1>6. Listed'
    BY <1>1, <1>2, <1>3, ListedStays, Zenon DEF Complete
  <1>7. Lasting' /\ InState' = InState
    BY LastingStays, Zenon DEF Complete
  <1> Pursued'
    <2>1. CASE query = "window"
      BY <1>1, <1>3, <2>1, PursuedStays, Zenon DEF Complete
    <2>2. CASE query # "window"
      BY <1>1, <2>2, Zenon DEF Pursued, Settling
    <2>3. QED
      BY <2>1, <2>2, Zenon
  <1>9. QED
    BY <1>6, <1>7, Zenon DEF Complete

\* A new file of the batch in flight is not among the settled ones.
LEMMA NewFileQuiet ==
    ASSUME Sound, InFlight, NEW rows, store' = store \cup {DataFile(rows)}
    PROVE  {f \in store' : f.batch <= SettledBatch} = SettledFiles
  <1>1. DataFile(rows).batch = run.batch
    BY Zenon DEF DataFile
  <1> run.batch = SettledBatch + 1 /\ SettledBatch \in Int
    BY DEF Sound, Flight, Stored, SettledBatch
  <1> ~ (DataFile(rows).batch <= SettledBatch)
    BY <1>1
  <1>4. QED
    BY Zenon DEF SettledFiles

\* "map": a task writes its row.
LEMMA WriteFileComplete ==
    ASSUME Sound, Complete, NEW r \in Row, WriteFile(r)
    PROVE  Complete' /\ Quiet
  <1> /\ query = "map" /\ run.pc = "reading" /\ DOMAIN run = RunFields
      /\ store' = store \cup {DataFile(OneRow(r))}
      /\ UNCHANGED <<input, log, ck, query, late, bound>>
    BY Zenon DEF WriteFile, Sound, Running
  <1>2. run'.pc \in {"written", "reading"}
    BY Zenon DEF WriteFile, RunFields
  <1>3. ~Settling /\ ~Settling' /\ InFlight
    BY Zenon DEF Settling, InFlight
  <1> Quiet
    BY <1>3, QuietStep, NewFileQuiet, Zenon
  <1>5. Listed'
    BY <1>2, <1>3, ListedStays, Zenon DEF Complete
  <1> Lasting'
    BY LastingStays, Zenon DEF Complete
  <1> Pursued'
    BY Zenon DEF Pursued, Settling
  <1>8. QED
    BY <1>5, Zenon DEF Complete

\* The output of the window operator is written.
LEMMA FinishFileComplete ==
    ASSUME Sound, Complete, FinishFile
    PROVE  Complete' /\ Quiet
  <1> /\ run.pc = "ended" /\ run'.pc = "written" /\ SameWork
      /\ store' = store \cup {DataFile(run.out)}
      /\ UNCHANGED <<input, log, ck, query, late, bound>>
    BY GotoPoint, Zenon DEF FinishFile, Sound, Running
  <1> ~Settling /\ ~Settling' /\ InFlight /\ Gathered
    BY Zenon DEF Settling, InFlight, Gathered
  <1> Quiet
    BY QuietStep, NewFileQuiet, Zenon
  <1>4. Listed'
    BY ListedStays, Zenon DEF Complete
  <1> Lasting'
    BY LastingStays, Zenon DEF Complete
  <1> Pursued'
    BY PursuedStays, Zenon DEF Complete
  <1>7. QED
    BY <1>4, Zenon DEF Complete

\* The batch is logged.
LEMMA CommitLogComplete ==
    ASSUME Sound, Complete, CommitLog
    PROVE  Complete' /\ Quiet
  <1>1. /\ run.pc = "written" /\ run'.pc = "logged" /\ SameWork
        /\ log' = CommitBatch(log, run.batch, Mine)
        /\ UNCHANGED <<input, store, ck, query, late, bound>>
    BY GotoPoint, Zenon DEF CommitLog, Sound, Running, Mine
  <1>2. ~Settling /\ ~Settling' /\ InFlight /\ Gathered
    BY <1>1, Zenon DEF Settling, InFlight, Gathered
  <1>3. Quiet
    BY <1>1, <1>2, QuietStep, Zenon DEF SettledFiles
  <1>4. Listed'
    <2>1. run.batch = SettledBatch + 1 /\ SettledBatch \in Int /\ SettledBatch >= -1
      BY <1>2, Zenon DEF Sound, Flight, Line, Stored, SettledBatch
    <2>2. run.batch \in Nat /\ DOMAIN log \subseteq 0 .. run.batch
      BY <2>1 DEF Sound, Line
    <2>3. \A f \in Mine : f.batch = run.batch
      BY Zenon DEF Mine, ListBatchFiles
    <2>4. /\ \A x \in DOMAIN log' : ~IsCompaction(x) => \A f \in log'[x] : f.batch = x
          /\ Mine \subseteq ReadCommittedFiles(log')
          /\ \A f \in ReadCommittedFiles(log) : f.batch # run.batch => f \in ReadCommittedFiles(log')
      BY <1>1, <2>2, <2>3, CommitBatchLists DEF Complete, Listed
    <2>5. \A f \in store : f.batch <= SettledBatch => f.batch # run.batch
      BY <2>1 DEF Sound, FilesOnce
    <2> Mine' = Mine
      BY <1>1, Zenon DEF Mine, SameWork, SameBatch
    <2> SettledBatch' = SettledBatch
      BY <1>3, Zenon DEF Quiet
    <2>8. QED
      BY <1>1, <2>4, <2>5, Zenon DEF Complete, Listed
  <1> Lasting'
    BY <1>3, LastingStays, Zenon DEF Complete
  <1> Pursued'
    BY <1>1, <1>2, <1>3, PursuedStays, Zenon DEF Complete
  <1>7. QED
    BY <1>3, <1>4, Zenon DEF Complete

\* The marker of the batch.
LEMMA PutOffsetsComplete ==
    ASSUME Sound, Complete, PutOffsets
    PROVE  Complete' /\ Quiet
  <1> /\ run.pc = "logged" /\ run'.pc = "marked" /\ SameWork
      /\ UNCHANGED <<input, store, log, query, late>>
    <2> run.pc = "logged" /\ DOMAIN run = RunFields
      BY Zenon DEF PutOffsets, Sound, Running
    <2>2. QED
      BY Zenon DEF PutOffsets, RunFields, SameWork, SameBatch
  <1>2. /\ ck'.state = ck.state /\ ck'.committed = ck.committed
        /\ ck'.stagedState = ck.stagedState /\ ck'.chunks = ck.chunks
    BY Zenon DEF PutOffsets, Sound, Stored, CkFields
  <1> ~Settling /\ ~Settling' /\ Gathered
    BY Zenon DEF Settling, Gathered
  <1> Quiet
    BY <1>2, QuietStep, Zenon DEF SettledFiles
  <1>5. Listed'
    BY ListedStays, Zenon DEF Complete, SameWork, SameBatch
  <1> Lasting'
    BY LastingStays, Zenon DEF Complete
  <1> Pursued'
    BY <1>2, PursuedStays, Zenon DEF Complete
  <1>8. QED
    BY <1>5, Zenon DEF Complete

\* The staged record of the source is deleted.
LEMMA DeleteStagedSourceComplete ==
    ASSUME Survivable, Sound, Complete, DeleteStagedSource
    PROVE  Complete' /\ Quiet
  <1> /\ Settling' = Settling /\ SettledBatch' = SettledBatch /\ SettledRows' = SettledRows
      /\ SameWork /\ ck'.state = ck.state /\ ck'.stagedState = ck.stagedState /\ ck'.chunks = ck.chunks
      /\ run'.pc \in {"idle", "source promoted"}
      /\ UNCHANGED <<input, store, log, query, late>>
    BY DeleteStagedSourceSound, Zenon
  <1> Quiet
    BY Zenon DEF Quiet, SettledFiles
  <1>3. Gathered' => Gathered
    BY Zenon DEF Gathered
  <1>4. Listed'
    BY ListedStays, Zenon DEF Complete, SameWork, SameBatch
  <1> Lasting'
    BY LastingStays, Zenon DEF Complete
  <1> Pursued'
    BY <1>3, PursuedStays, Zenon DEF Complete
  <1>7. QED
    BY <1>4, Zenon DEF Complete

\* When the line moves over a batch, its files are added to the settled ones.
LEMMA DeliveredGrows ==
    ASSUME Sound, run.batch = SettledBatch + 1, SettledBatch \in Int,
           store' = store, SettledBatch' = SettledBatch + 1
    PROVE  Delivered' = Delivered \cup Written
  <1>1. \A f \in store : f.batch <= SettledBatch + 1 <=> f.batch <= SettledBatch \/ f \in Mine
    BY DEF Sound, FilesOnce, Mine, ListBatchFiles
  <1> Mine \subseteq store
    BY Zenon DEF Mine, ListBatchFiles
  <1> {g \in store : g.batch <= SettledBatch + 1} = {g \in store : g.batch <= SettledBatch} \cup Mine
    BY <1>1, Zenon
  <1>4. QED
    BY Zenon DEF Delivered, Written

\* What the log has of the batch is what it has up to the line, once that moves.
LEMMA ListedMoves ==
    ASSUME Sound, Listed, run.batch = SettledBatch + 1, SettledBatch \in Int,
           store' = store, log' = log, SettledBatch' = SettledBatch + 1,
           run.pc = "marked" \/ Settling, ~Settling', run'.pc \notin {"logged", "marked"}
    PROVE  Listed'
  <1>1. \A f \in store : f.batch <= SettledBatch + 1 => f.batch <= SettledBatch \/ f \in Mine
    BY DEF Sound, FilesOnce, Mine, ListBatchFiles
  <1> Mine \subseteq ReadCommittedFiles(log)
    BY Zenon DEF Listed
  <1> \A f \in store : f.batch <= SettledBatch + 1 => f \in ReadCommittedFiles(log)
    BY <1>1, Zenon DEF Listed
  <1>4. QED
    BY Zenon DEF Listed

\* More rows are excused.
LEMMA ExcusedGrows ==
    ASSUME NEW s, NEW few, NEW many, few \subseteq many, TimelySnapshot(s, few)
    PROVE  TimelySnapshot(s, many)
  BY Zenon DEF TimelySnapshot

\* A step of the commit keeps the settled rows settled, and each of them is late
\* after it if and only if it was late before.
Settles ==
    /\ input' = input /\ SettledRows \subseteq SettledRows'
    /\ \A r \in SettledRows : r \in late' <=> r \in late

\* The record of the source is promoted.
LEMMA PromotesComplete ==
    ASSUME Sound, Complete, Promotes
    PROVE  Complete' /\ Settles
  <1>1. /\ run.batch = SettledBatch + 1 /\ SettledBatch \in Int
        /\ run.files \cap SettledRows = {} /\ run.late \subseteq run.files
        /\ InState' = InState /\ Gathered /\ ~Settling
    BY PromotedLine, Zenon
  <1> /\ run.pc = "marked" /\ run'.pc = "source put" /\ SameWork
      /\ ck'.state = ck.state /\ ck'.stagedState = ck.stagedState
      /\ late' = late \cup run.late /\ input' = input /\ store' = store /\ log' = log /\ query' = query
    BY Zenon DEF Promotes
  <1>3. TimelySnapshot(ck'.state, late')
    <2> TimelySnapshot(ck.state, late) /\ late \subseteq late'
      BY Zenon DEF Complete, Lasting
    <2>2. QED
      BY ExcusedGrows, Zenon
  <1>4. CASE query = "window"
    <2>1. Settling' /\ SettledBatch' = SettledBatch /\ SettledRows' = SettledRows
      BY <1>4, PromotedLine, Zenon
    <2>2. Settles
      BY <1>1, <2>1, Zenon DEF Settles
    <2>3. Listed'
      <3> Mine' = Mine
        BY Zenon DEF Mine, SameWork, SameBatch
      <3>2. QED
        BY <2>1, Zenon DEF Complete, Listed
    <2>4. Lasting'
      <3>1. Delivered' = Delivered
        BY <2>1, Zenon DEF Delivered
      <3> SettledRows \ late \subseteq InState \cup Delivered
        BY Zenon DEF Complete, Lasting
      <3> SettledRows' \ late' \subseteq InState' \cup Delivered'
        BY <1>1, <2>1, <3>1, Zenon
      <3>4. QED
        BY <1>3, Zenon DEF Lasting
    <2> Pursued'
      <3> run'.late = run.late /\ run'.files = run.files /\ run'.out = run.out
        BY Zenon DEF SameWork, SameBatch
      <3>2. Excused' = Excused
        BY Zenon DEF Excused
      <3> \A s \in ck.stagedState :
              /\ (InState \cup run.files) \ Excused \subseteq Rows(s.rows) \cup Rows(run.out)
              /\ TimelySnapshot(s, Excused)
        BY <1>1, <1>4, Zenon DEF Complete, Pursued
      <3> run'.late \subseteq late'
        BY Zenon
      <3>5. QED
        BY <1>1, <3>2, Zenon DEF Pursued
    <2>6. QED
      BY <2>2, <2>3, <2>4, Zenon DEF Complete
  <1>5. CASE query = "map"
    <2> ~Settling' /\ SettledBatch' = SettledBatch + 1 /\ SettledRows' = SettledRows \cup run.files
      BY <1>5, PromotedLine, Zenon
    <2>2. Settles
      BY <1>1, Zenon DEF Settles
    <2>3. Listed'
      BY <1>1, ListedMoves, Zenon DEF Complete
    <2> Lasting'
      <3>1. Delivered' = Delivered \cup Written
        BY <1>1, DeliveredGrows, Zenon
      <3>2. Written = run.files
        BY <1>5, Zenon DEF Sound, Mapping
      <3> SettledRows \ late \subseteq InState \cup Delivered
        BY Zenon DEF Complete, Lasting
      <3> SettledRows' \ late' \subseteq InState' \cup Delivered'
        BY <1>1, <3>1, <3>2, Zenon
      <3>5. QED
        BY <1>3, Zenon DEF Lasting
    <2> Pursued'
      BY <1>5, Zenon DEF Pursued
    <2>6. QED
      BY <2>2, <2>3, Zenon DEF Complete
  <1> query \in {"map", "window"}
    BY MicroBatchAssumption, Zenon DEF Sound, Stored
  <1>7. QED
    BY <1>4, <1>5, Zenon

\* The state of the operators is promoted.
LEMMA PromotesStateComplete ==
    ASSUME Sound, Complete, PromotesState
    PROVE  Complete' /\ Settles
  <1> /\ Settling /\ ~Settling' /\ Gathered
      /\ run.batch = SettledBatch + 1 /\ SettledBatch \in Int
      /\ SettledBatch' = SettledBatch + 1 /\ SettledRows' = SettledRows \cup run.files
      /\ InState' = Rows(ck'.state.rows) /\ Written = Rows(run.out)
    BY PromotedStateLine, Zenon
  <1> /\ run'.pc = "state put" /\ ck'.state \in ck.stagedState /\ query = "window"
      /\ UNCHANGED <<input, store, log, query, late>>
    BY Zenon DEF PromotesState
  <1>3. Settles
    BY Zenon DEF Settles
  <1>4. Listed'
    BY ListedMoves, Zenon DEF Complete
  <1> Lasting'
    <2>1. Delivered' = Delivered \cup Written
      BY DeliveredGrows, Zenon
    <2>2. Excused = late
      BY Zenon DEF Complete, Pursued, Excused
    <2> /\ (InState \cup run.files) \ late \subseteq Rows(ck'.state.rows) \cup Rows(run.out)
        /\ TimelySnapshot(ck'.state, late)
      BY <2>2, Zenon DEF Complete, Pursued
    <2> SettledRows \ late \subseteq InState \cup Delivered
      BY Zenon DEF Complete, Lasting
    <2> SettledRows' \ late' \subseteq InState' \cup Delivered'
      BY <2>1, Zenon
    <2>6. QED
      BY Zenon DEF Lasting
  <1> Pursued'
    BY PursuedIdle, Zenon
  <1>7. QED
    BY <1>3, <1>4, Zenon DEF Complete

\* The times of the generator are those of rows.
Clocked(g) == g \in [maxTs : Int, lastWm : Int] /\ g.maxTs \in {NoTime} \cup {EventTime[r] : r \in Row}

\* A row is given to the operator: it is held, unless it is excused.
TakesRow(acc, chunks, r, excused, e) ==
    /\ Once(e.acc, e.chunks) /\ ChunksFlat(e.chunks) /\ Timely(e.acc, e.chunks, excused)
    /\ (Held(acc, chunks) \cup {r}) \ excused \subseteq Held(e.acc, e.chunks)
    /\ e.out = NoRows

\* A row is excused if its window is closed when it comes.
LEMMA DataTimely ==
    ASSUME NEW acc, NEW chunks, Once(acc, chunks), ChunksFlat(chunks),
           NEW r \in Row, r \notin Held(acc, chunks), NEW excused, NEW excused1,
           excused \subseteq excused1, WindowEnd(r) <= acc.wm => r \in excused1,
           Timely(acc, chunks, excused), NEW e, e = WindowData(acc, chunks, r)
    PROVE  TakesRow(acc, chunks, r, excused1, e)
  <1>1. /\ Holds(e, Held(acc, chunks) \cup IF DropLate(acc, r) THEN {} ELSE {r})
        /\ e.out = NoRows /\ SameClock(acc, e.acc)
    BY DataRows, Zenon
  <1> /\ Once(e.acc, e.chunks) /\ ChunksFlat(e.chunks)
      /\ Held(e.acc, e.chunks) = Held(acc, chunks) \cup IF DropLate(acc, r) THEN {} ELSE {r}
      /\ e.acc.wm = acc.wm /\ e.acc.emitted = acc.emitted
      /\ e.acc.lastFinal = acc.lastFinal /\ e.acc.floor = acc.floor
    BY <1>1, Zenon DEF Holds, SameClock
  <1>3. WindowEnd(r) \in Nat /\ acc.wm \in Int /\ AllowedLateness \in Nat
    BY WindowEndIsNumber, WindowAssumption, Zenon DEF Once
  <1>4. DropLate(acc, r) => r \in excused1
    BY <1>3 DEF DropLate
  <1>5. r \notin excused1 => WindowEnd(r) > acc.wm
    BY <1>3
  <1>6. (Held(acc, chunks) \cup {r}) \ excused1 \subseteq Held(e.acc, e.chunks)
    BY <1>4, Zenon
  <1> \A x \in Held(e.acc, e.chunks) \ excused1 : WindowEnd(x) > e.acc.wm
    BY <1>5, Zenon DEF Timely
  <1> Timely(e.acc, e.chunks, excused1)
    BY Zenon DEF Timely
  <1>9. QED
    BY <1>1, <1>6, Zenon DEF TakesRow

\* The watermark that is emitted is a moment.
LEMMA WatermarkIsMoment ==
    ASSUME NEW g, Clocked(g)
    PROVE  /\ \A r \in Row : Clocked(SeeRow(g, r))
           /\ Clocked(EmitWatermark(g))
           /\ WatermarkAdvances(g) => EmitWatermark(g).lastWm \in Moments
  <1> g \in [maxTs : Int, lastWm : Int] /\ g.maxTs \in {NoTime} \cup {EventTime[r] : r \in Row}
    BY Zenon DEF Clocked
  <1> /\ \A r \in Row : /\ SeeRow(g, r) \in [maxTs : Int, lastWm : Int]
                        /\ SeeRow(g, r).maxTs \in {g.maxTs, EventTime[r]}
      /\ EmitWatermark(g) \in [maxTs : Int, lastWm : Int]
      /\ EmitWatermark(g).maxTs = g.maxTs /\ EmitWatermark(g).lastWm = g.maxTs - Delay
    BY WatermarkClock, Zenon
  <1>3. WatermarkAdvances(g) => g.maxTs - Delay \in Moments
    BY Zenon DEF WatermarkAdvances, Moments
  <1> \A r \in Row : Clocked(SeeRow(g, r))
    BY Zenon DEF Clocked
  <1> Clocked(EmitWatermark(g))
    BY Zenon DEF Clocked
  <1>6. QED
    BY <1>3, Zenon

\* "window": the operator is given a row.
LEMMA ReadFileComplete ==
    ASSUME SetLaws, Spaced, Sound, Complete, NEW emit \in BOOLEAN, ReadFile(emit)
    PROVE  Complete' /\ Quiet
  <1> DEFINE r == Min(run.unread)
             seen == SeeRow(run.wm, r)
             data == WindowData(run.acc, ck.chunks, r)
             mark == EmitWatermark(seen)
             after == IF emit THEN WindowWatermark(data.acc, data.chunks, mark.lastWm) ELSE data
             late1 == IF WindowEnd(r) <= run.acc.wm THEN run.late \cup {r} ELSE run.late
  <1>1. /\ query = "window" /\ run.pc = "reading" /\ run.unread # {} /\ DOMAIN run = RunFields
        /\ UNCHANGED <<input, store, log, query, late, bound>>
        /\ emit => WatermarkAdvances(seen)
    BY Zenon DEF ReadFile, Sound, Running
  <1>2. /\ run'.pc = "reading" /\ SameBatch
        /\ run'.unread = run.unread \ {r} /\ run'.acc = after.acc /\ run'.late = late1
        /\ run'.wm = (IF emit THEN mark ELSE seen) /\ run'.out = Plus(run.out, after.out)
    BY <1>1, Zenon DEF ReadFile, RunFields, SameBatch
  <1>3. ck'.chunks = after.chunks /\ ck'.committed = ck.committed /\ ck'.state = ck.state
    BY Zenon DEF ReadFile, Sound, Stored, CkFields
  <1>4. ~Settling /\ ~Settling' /\ InFlight /\ ~Gathered'
    BY <1>1, <1>2, Zenon DEF Settling, InFlight, Gathered
  <1>5. Quiet
    BY <1>1, <1>3, <1>4, QuietStep, Zenon DEF SettledFiles
  <1>6. Listed'
    BY <1>1, <1>2, <1>4, <1>5, ListedStays, Zenon DEF Complete
  <1>7. Lasting' /\ InState' = InState
    BY <1>5, LastingStays, Zenon DEF Complete
  <1>8. /\ run.files \subseteq input /\ run.files \cap SettledRows = {} /\ run.unread \subseteq run.files
        /\ input \subseteq Row /\ InState \subseteq SettledRows
    BY <1>4, Zenon DEF Sound, Flight, Stored, Line
  <1>9. r \in run.unread
    <2> run.unread \subseteq Nat
      BY <1>8, MicroBatchAssumption, Zenon
    <2>2. QED
      BY <1>1, MinIsMember, Zenon
  <1> HIDE DEF r
  <1>10. /\ Once(run.acc, ck.chunks) /\ ChunksFlat(ck.chunks) /\ run.out \in Flat
         /\ Held(run.acc, ck.chunks) \cap Rows(run.out) = {}
         /\ Held(run.acc, ck.chunks) \cup Rows(run.out) \subseteq InState \cup (run.files \ run.unread)
         /\ run.wm \in [maxTs : Int, lastWm : Int]
    BY <1>1, Zenon DEF Sound, Windowing, Stored
  <1>11. /\ (InState \cup (run.files \ run.unread)) \ Excused
                \subseteq Held(run.acc, ck.chunks) \cup Rows(run.out)
         /\ Timely(run.acc, ck.chunks, Excused) /\ Clocked(run.wm)
    BY <1>1, <1>10, Zenon DEF Complete, Pursued, Clocked
  <1>12. r \in Row /\ r \notin Held(run.acc, ck.chunks) /\ r \notin Rows(run.out)
    BY <1>8, <1>9, <1>10, Zenon
  <1>13. Excused' = late \cup late1 /\ Excused \subseteq late \cup late1
    BY <1>1, <1>2, Zenon DEF Excused
  <1>14. WindowEnd(r) <= run.acc.wm => r \in late \cup late1
    BY Zenon
  <1>15. /\ Once(data.acc, data.chunks) /\ ChunksFlat(data.chunks)
         /\ Timely(data.acc, data.chunks, late \cup late1)
         /\ (Held(run.acc, ck.chunks) \cup {r}) \ (late \cup late1) \subseteq Held(data.acc, data.chunks)
         /\ data.out = NoRows
    <2>1. data = WindowData(run.acc, ck.chunks, r)
      BY Zenon
    <2> DEFINE all == late \cup late1
    <2> Excused \subseteq all /\ (WindowEnd(r) <= run.acc.wm => r \in all)
      BY <1>13, <1>14, Zenon
    <2> HIDE DEF data, late1, all
    <2> TakesRow(run.acc, ck.chunks, r, all, data)
      BY <1>10, <1>11, <1>12, <2>1, DataTimely, Zenon
    <2>4. QED
      BY Zenon DEF all, TakesRow
  <1>16. Clocked(seen) /\ Clocked(mark) /\ (emit => mark.lastWm \in Moments)
    <2> Clocked(seen)
      BY <1>11, <1>12, WatermarkIsMoment, Zenon
    <2> HIDE DEF seen
    <2>2. QED
      BY <1>1, WatermarkIsMoment, Zenon
  <1> HIDE DEF seen, mark, data, late1
  <1>17. /\ Timely(after.acc, after.chunks, late \cup late1) /\ after.out \in Flat
         /\ Held(data.acc, data.chunks) \ (late \cup late1)
                \subseteq Held(after.acc, after.chunks) \cup Rows(after.out)
         /\ Rows(after.out) \subseteq Held(data.acc, data.chunks)
    <2>1. CASE emit
      <3> after = WindowWatermark(data.acc, data.chunks, mark.lastWm)
        BY <2>1, Zenon
      <3> mark.lastWm \in Moments /\ mark.lastWm \in Int
        BY <1>16, <2>1, Zenon DEF Clocked
      <3> HIDE DEF after
      <3> Splits(data.acc, data.chunks, after)
        BY <1>15, WatermarkSplits, Zenon
      <3> /\ Timely(after.acc, after.chunks, late \cup late1)
          /\ Held(data.acc, data.chunks) \ (late \cup late1)
                 \subseteq Held(after.acc, after.chunks) \cup Rows(after.out)
        BY <1>15, WatermarkTimely, Zenon
      <3>5. QED
        BY Zenon DEF Splits
    <2>2. CASE ~emit
      <3> after = data
        BY <2>2, Zenon
      <3> HIDE DEF after
      <3> NoRows \in Flat /\ Rows(NoRows) = {}
        BY FlatBags, Zenon
      <3>3. QED
        BY <1>15, Zenon
    <2>3. QED
      BY <2>1, <2>2, Zenon
  <1> HIDE DEF after
  <1>18. Rows(Plus(run.out, after.out)) = Rows(run.out) \cup Rows(after.out)
    <2> Held(data.acc, data.chunks) \subseteq Held(run.acc, ck.chunks) \cup {r}
      BY <1>10, <1>12, DataRows DEF Holds, data
    <2> Rows(run.out) \cap Rows(after.out) = {}
      BY <1>10, <1>12, <1>17, Zenon
    <2>3. QED
      BY <1>10, <1>17, FlatBags, Zenon
  <1> Pursued'
    <2>1. run.files \ (run.unread \ {r}) = (run.files \ run.unread) \cup {r}
      BY <1>8, <1>9, Zenon
    <2>2. (InState \cup (run.files \ (run.unread \ {r}))) \ (late \cup late1)
              \subseteq Held(after.acc, after.chunks) \cup Rows(Plus(run.out, after.out))
      BY <1>11, <1>13, <1>15, <1>17, <1>18, <2>1, Zenon
    <2> run'.files = run.files
      BY <1>2, Zenon DEF SameBatch
    <2> run'.wm.maxTs \in {NoTime} \cup {EventTime[x] : x \in Row}
      BY <1>2, <1>16, Zenon DEF Clocked
    <2>5. QED
      BY <1>2, <1>3, <1>4, <1>7, <1>13, <1>17, <2>2, Zenon DEF Pursued
  <1>20. QED
    BY <1>5, <1>6, <1>7, Zenon DEF Complete

\* "window": the data ends, and the staged state and the output have the rows.
LEMMA EndOfDataComplete ==
    ASSUME SetLaws, Survivable, Spaced, Sound, Complete, EndOfData
    PROVE  Complete' /\ Quiet
  <1> DEFINE mark == EmitWatermark(run.wm)
             after == IF WatermarkAdvances(run.wm)
                      THEN WindowWatermark(run.acc, ck.chunks, mark.lastWm)
                      ELSE Effect(run.acc, ck.chunks, NoRows)
             snapshot == Snapshot(after.acc, after.chunks)
  <1>1. /\ query = "window" /\ run.pc = "reading" /\ run.unread = {} /\ DOMAIN run = RunFields
        /\ UNCHANGED <<input, store, log, query, late, bound>>
    BY StagesState, Zenon DEF EndOfData, Sound, Running
  <1>2. /\ run'.pc = "ended" /\ SameBatch
        /\ run'.late = run.late /\ run'.out = Plus(run.out, after.out)
    BY <1>1, Zenon DEF EndOfData, RunFields, SameBatch
  <1>3. ck'.stagedState = {snapshot} /\ ck'.committed = ck.committed /\ ck'.state = ck.state
    BY StagesState, Zenon DEF Sound, Stored, CkFields
  <1>4. ~Settling /\ ~Settling'
    BY <1>1, <1>2, Zenon DEF Settling
  <1>5. Quiet
    BY <1>1, <1>3, <1>4, QuietStep, Zenon DEF SettledFiles
  <1>6. Listed'
    BY <1>1, <1>2, <1>4, <1>5, ListedStays, Zenon DEF Complete
  <1>7. Lasting' /\ InState' = InState
    BY <1>5, LastingStays, Zenon DEF Complete
  <1>8. /\ Once(run.acc, ck.chunks) /\ ChunksFlat(ck.chunks) /\ run.out \in Flat
        /\ run.wm \in [maxTs : Int, lastWm : Int]
        /\ Held(run.acc, ck.chunks) \cap Rows(run.out) = {}
    BY <1>1, Zenon DEF Sound, Windowing, Stored
  <1>9. /\ Clocked(run.wm) /\ Timely(run.acc, ck.chunks, Excused)
        /\ (InState \cup run.files) \ Excused \subseteq Held(run.acc, ck.chunks) \cup Rows(run.out)
    BY <1>1, <1>8, Zenon DEF Complete, Pursued, Clocked
  <1> /\ Splits(run.acc, ck.chunks, after) /\ Timely(after.acc, after.chunks, Excused)
      /\ Held(run.acc, ck.chunks) \ Excused \subseteq Held(after.acc, after.chunks) \cup Rows(after.out)
    <2>1. CASE WatermarkAdvances(run.wm)
      <3> USE <2>1
      <3> mark.lastWm \in Moments /\ mark.lastWm \in Int
        BY <1>9, WatermarkIsMoment, Zenon DEF Clocked
      <3> after = WindowWatermark(run.acc, ck.chunks, mark.lastWm)
        BY Zenon
      <3> HIDE DEF mark, after
      <3> Splits(run.acc, ck.chunks, after)
        BY <1>8, WatermarkSplits, Zenon
      <3>4. QED
        BY <1>8, <1>9, WatermarkTimely, Zenon
    <2>2. CASE ~WatermarkAdvances(run.wm)
      <3> after.acc = run.acc /\ after.chunks = ck.chunks /\ after.out = NoRows
        BY <2>2, Zenon DEF Effect
      <3> HIDE DEF mark, after
      <3>2. QED
        BY <1>8, <1>9, FlatBags, Zenon DEF Splits
    <2>3. QED
      BY <2>1, <2>2, Zenon
  <1> HIDE DEF mark, after
  <1>11. /\ snapshot.wm = after.acc.wm /\ snapshot.emitted = after.acc.emitted
         /\ Rows(snapshot.rows) = Held(after.acc, after.chunks)
    BY EndRows, Zenon
  <1> HIDE DEF snapshot
  <1>12. TimelySnapshot(snapshot, Excused)
    BY <1>11, Zenon DEF Timely, TimelySnapshot
  <1>13. Rows(Plus(run.out, after.out)) = Rows(run.out) \cup Rows(after.out)
    <2> after.out \in Flat /\ Rows(after.out) \subseteq Held(run.acc, ck.chunks)
      BY Zenon DEF Splits
    <2>2. QED
      BY <1>8, FlatBags, Zenon
  <1>14. (InState \cup run.files) \ Excused \subseteq Rows(snapshot.rows) \cup Rows(Plus(run.out, after.out))
    BY <1>9, <1>11, <1>13, Zenon
  <1> Pursued'
    <2> Excused' = Excused /\ run'.files = run.files
      BY <1>1, <1>2, Zenon DEF Excused, SameBatch
    <2>2. QED
      BY <1>2, <1>3, <1>4, <1>7, <1>12, <1>14, Zenon DEF Pursued
  <1>16. QED
    BY <1>5, <1>6, <1>7, Zenon DEF Complete

\* The first state.
LEMMA InitComplete ==
    ASSUME Init
    PROVE  Complete
  <1> /\ store = {} /\ DOMAIN log = {} /\ late = {} /\ run.pc = "stopped"
      /\ ck.committed = NoRecord /\ ck.state = NoSnapshot
    BY Zenon DEF Init, NoLog, Stopped
  <1>2. ~Settling /\ ~Gathered
    BY Zenon DEF Settling, Gathered
  <1>3. SettledRows = {}
    BY <1>2 DEF SettledRows, NoRecord
  <1>4. TimelySnapshot(ck.state, late)
    <2> /\ ck.state.rows = NoRows /\ ck.state.wm = NoTime /\ ck.state.emitted = {}
        /\ Rows(NoRows) = {}
      BY FlatBags DEF NoSnapshot
    <2>2. QED
      BY Zenon DEF TimelySnapshot, Moments
  <1>5. Listed
    BY <1>2, Zenon DEF Listed
  <1> Lasting
    BY <1>3, <1>4, Zenon DEF Lasting
  <1> Pursued
    BY <1>2, Zenon DEF Pursued
  <1>8. QED
    BY <1>5, Zenon DEF Complete

\* Every step of the system loses no row, and settles rows or lets the line be.
LEMMA NextComplete ==
    ASSUME SetLaws, Survivable, Spaced, Sound, Complete, [Next]_vars
    PROVE  Complete' /\ (Quiet \/ Settles)
  <1> DEFINE Goal == Complete' /\ (Quiet \/ Settles)
  <1>1. ASSUME NEW r \in Row, Arrive(r)
        PROVE  Goal
    BY <1>1, ArriveComplete, Zenon DEF Arrive
  <1>2. CASE Start
    <2> run.pc = "stopped" /\ run'.pc = "idle" /\ UNCHANGED <<input, store, log, ck, query, late>>
      BY <1>2, Zenon DEF Start, Stopped
    <2> ~Settling
      BY Zenon DEF Settling
    <2>3. QED
      BY RestartComplete, Zenon
  <1>3. CASE MakeStream
    BY <1>3, MakeStreamComplete, Zenon
  <1>4. CASE CleanDir
    BY <1>4, CleanDirComplete, Zenon
  <1>5. ASSUME NEW r \in Row, WriteFile(r)
        PROVE  Goal
    BY <1>5, WriteFileComplete, Zenon
  <1>6. ASSUME NEW emit \in BOOLEAN, ReadFile(emit)
        PROVE  Goal
    BY <1>6, ReadFileComplete, Zenon
  <1>7. CASE EndOfData
    BY <1>7, EndOfDataComplete, Zenon
  <1>8. CASE FinishFile
    BY <1>8, FinishFileComplete, Zenon
  <1>9. CASE CommitLog
    BY <1>9, CommitLogComplete, Zenon
  <1>10. CASE PutOffsets
    BY <1>10, PutOffsetsComplete, Zenon
  <1>11. CASE CommitSource
    <2>1. CASE Promotes
      BY <2>1, PromotesComplete, Zenon
    <2>2. CASE NotPromoted
      <3> USE <2>2
      <3> ~Settling
        BY Zenon DEF NotPromoted, Settling
      <3>2. QED
        BY RestartComplete, Zenon DEF NotPromoted
    <2>3. QED
      BY <1>11, <2>1, <2>2, CommitSourceIs, Zenon
  <1>12. CASE DeleteStagedSource
    BY <1>12, DeleteStagedSourceComplete, Zenon
  <1>13. CASE CommitState
    BY <1>13, CommitStateIs, PromotesStateComplete, Zenon
  <1>14. CASE DeleteStagedState
    <2> USE <1>14
    <2> UNCHANGED <<input, store, log, query, late>>
      BY Zenon DEF DeleteStagedState
    <2>2. QED
      BY DeleteStagedStateSound, RestartComplete, Zenon
  <1>15. CASE Stop
    <2> USE <1>15
    <2> run'.pc = "stopped" /\ ck' = ck /\ UNCHANGED <<input, store, log, query, late>>
      BY Zenon DEF Stop, Stopped
    <2>2. QED
      BY StopSound, RestartComplete, Zenon
  <1>16. CASE UNCHANGED vars
    BY <1>16, ArriveComplete, Zenon DEF vars
  <1>17. QED
    BY <1>1, <1>2, <1>3, <1>4, <1>5, <1>6, <1>7, <1>8, <1>9, <1>10, <1>11, <1>12, <1>13, <1>14,
       <1>15, <1>16, Zenon DEF Next, Runner

\* What the invariants make of a row: it is never lost or doubled.
Mark(r) ==
    IF r \notin input THEN "absent"
    ELSE IF r \notin SettledRows THEN "arrived"
    ELSE IF r \in late THEN "late" ELSE "delivered"
Marked == (\A r \in Row : FateOf(r) = Mark(r)) /\ SettledRows \subseteq input

\* FateOf, of MicroBatch, finds every row where it belongs.
LEMMA RowsAreMarked == ASSUME SetLaws, Sound, Complete PROVE Marked
  <1>1. {f \in Visible : f.batch <= SettledBatch} = SettledFiles
    BY Zenon DEF Complete, Listed, Visible, SettledFiles
  <1>2. SettledFiles \in SUBSET store
    BY Zenon DEF SettledFiles
  <1>3. SettledRows \subseteq input
    BY Zenon DEF Sound, Stored, SettledRows
  <1>4. ASSUME NEW r \in Row
        PROVE  Effects(r) = (IF r \in Delivered THEN 1 ELSE 0) + (IF r \in InState THEN 1 ELSE 0)
    <2>1. Copies(r, SettledFiles) = IF \E f \in SettledFiles : r \in Rows(f.rows) THEN 1 ELSE 0
      BY <1>2, OneCopy, Zenon DEF Sound
    <2> (\E f \in SettledFiles : r \in Rows(f.rows)) <=> r \in Delivered
      BY Zenon DEF Delivered, SettledFiles
    <2> ck.state.rows[r] = IF r \in InState THEN 1 ELSE 0
      BY Zenon DEF Sound, Stored, Flat, InState, Rows
    <2>4. QED
      BY <1>1, <2>1, Zenon DEF Effects
  <1>5. Delivered \cap InState = {}
    BY Zenon DEF Sound, Line, Delivered
  <1>6. SettledRows \ late \subseteq InState \cup Delivered
    BY Zenon DEF Complete, Lasting
  <1> ASSUME NEW r \in Row
      PROVE  FateOf(r) = Mark(r)
    <2> Effects(r) <= 1 /\ (r \in SettledRows \ late => Effects(r) = 1)
      BY <1>4, <1>5, <1>6
    <2>2. QED
      BY <1>3, Zenon DEF FateOf, Mark
  <1>8. QED
    BY <1>3, Zenon DEF Marked

-----------------------------------------------------------------------------
(* The theorems.                                                           *)

INSTANCE FiniteSetTheorems

\* The facts about sets: a set of natural numbers has a least element because
\* they are well-founded.
LEMMA SetLawsHold == SetLaws
  <1>1. ASSUME NEW S \in SUBSET Nat, S # {}
        PROVE  \E m \in S : \A i \in S : m <= i
    <2> DEFINE R == OpToRel(<, Nat)
    <2>1. R = {p \in Nat \X Nat : p[1] < p[2]}
      BY Zenon DEF OpToRel
    <2>2. IsWellFoundedOn(R, Nat)
      BY NatLessThanWellFounded, Zenon
    <2> HIDE DEF R
    <2> PICK m \in S : \A i \in S : ~ (<<i, m>> \in R)
      BY <1>1, <2>2, WFMin, Zenon
    <2> \A i \in S : ~ (i < m)
      BY <2>1, Zenon
    <2>5. QED
      OBVIOUS
  <1>2. \A n \in Int : IsFiniteSet(0 .. n)
    BY FS_Interval
  <1>3. \A S : \A T \in SUBSET S : IsFiniteSet(S) => IsFiniteSet(T)
    BY FS_Subset, Zenon
  <1>4. \A S : IsFiniteSet(S) => Cardinality(S) \in Nat
    BY FS_CardinalityType, Zenon
  <1>5. \A S : \A x \in S : IsFiniteSet(S) => Cardinality(S \ {x}) = Cardinality(S) - 1
    BY FS_RemoveElement, Zenon
  <1>6. Cardinality({}) = 0 /\ \A x : Cardinality({x}) = 1
    BY FS_EmptySet, FS_Singleton, Zenon
  <1>7. QED
    BY <1>1, <1>2, <1>3, <1>4, <1>5, <1>6, Zenon DEF SetLaws

\* The inductive invariant holds in every reachable state, if what is staged is
\* stored and the commit of the source is not cut off from what follows it.
THEOREM SoundAlways == Survivable => (Spec => []Sound)
  <1> SUFFICES ASSUME Survivable
               PROVE  Spec => []Sound
    BY Zenon
  <1> Init => Sound
    BY InitSound, Zenon
  <1> Sound /\ [Next]_vars => Sound'
    BY NextSound, SetLawsHold, Zenon
  <1>3. QED
    BY PTL DEF Spec

\* The stored objects and the process keep their types, under the same condition.
THEOREM TypesAreKept == Survivable => (Spec => []TypeOK)
  <1>1. ASSUME Sound
        PROVE  TypeOK
    <2> USE <1>1
    <2> Flat \subseteq Bag
      BY FlatBags, Zenon
    <2>2. /\ input \subseteq Row /\ late \subseteq Row /\ query \in Query /\ ck.offsets \subseteq Nat
          /\ \A record \in {ck.staged, ck.committed} :
                record.batch \in Int /\ record.files \subseteq input
          /\ \A s \in {ck.state} \cup ck.stagedState : s.rows \in Bag /\ s.wm \in Int
      BY Zenon DEF Sound, Stored
    <2>3. \A i \in DOMAIN ck.chunks : i \in Nat /\ ck.chunks[i] \in Bag
      BY Zenon DEF Sound, Stored, ChunksFlat
    <2>4. \A f \in store : f.batch \in Nat /\ f.attempt \in Nat /\ f.rows \in Bag
      BY Zenon DEF Sound, FilesOnce
    <2> DOMAIN log \subseteq Nat
      BY DEF Sound, Line
    <2> run.pc \in Points \cup {"stopped"}
      BY Zenon DEF Sound, Running
    <2>7. QED
      BY <2>2, <2>3, <2>4, Zenon DEF TypeOK
  <1>2. QED
    BY <1>1, SoundAlways, PTL

\* No reader ever sees a row twice, for any number of rows, and of stops and faults
\* that are survivable (write_staged_files and stage_state do not fail): the
\* files of an attempt that was cut off are cleaned before the batch is written
\* again, and what a window has given out is not in the state that is committed.
THEOREM SeenOnce == Survivable => (Spec => []NoRowIsSeenTwice)
  <1>1. ASSUME Sound
        PROVE  NoRowIsSeenTwice
    <2> Visible \in SUBSET store
      BY Zenon DEF Visible
    <2> \A r \in Row : Copies(r, Visible) \in {0, 1}
      BY <1>1, OneCopy, SetLawsHold, Zenon DEF Sound
    <2>3. QED
      BY DEF NoRowIsSeenTwice
  <1>2. QED
    BY <1>1, SoundAlways, PTL

\* ImplementsExactlyOnce, for any number of rows, of survivable stops and faults, and
\* event times that the throttle of the Final merge does not hold back: a commit
\* settles rows with their effect in a file or in the state of the window, and
\* neither a replay nor a later batch ever takes it back or doubles it.
THEOREM RefinesExactlyOnce == Survivable /\ Spaced => (Spec => ImplementsExactlyOnce)
  <1> SUFFICES ASSUME Survivable, Spaced
               PROVE  Spec => ImplementsExactlyOnce
    BY Zenon
  <1>1. Init => Abstract!Init
    <2> SUFFICES ASSUME Init
                 PROVE  Abstract!Init
      BY Zenon
    <2> input = {}
      BY Zenon DEF Init
    <2> \A r \in Row : FateOf(r) = "absent"
      BY RowsAreMarked, SetLawsHold, InitSound, InitComplete, Zenon DEF Marked, Mark
    <2>3. QED
      BY Zenon DEF Abstract!Init
  <1>2. Init => Sound /\ Complete
    BY InitSound, InitComplete, Zenon
  <1>3. Sound /\ Complete /\ [Next]_vars => Sound' /\ Complete' /\ (Quiet \/ Settles)
    BY NextSound, NextComplete, SetLawsHold, Zenon
  <1>4. Sound /\ Complete => Marked
    BY RowsAreMarked, SetLawsHold, Zenon
  <1> Marked /\ Marked' /\ (Quiet \/ Settles) => Abstract!Next
    <2> SUFFICES ASSUME Marked, Marked', Quiet \/ Settles
                 PROVE  Abstract!Next
      BY Zenon
    <2>1. \A r \in Row : FateOf(r) = Mark(r) /\ FateOf(r)' = Mark(r)'
      BY Zenon DEF Marked
    <2>2. SettledRows \subseteq input /\ SettledRows' \subseteq input'
      BY Zenon DEF Marked
    <2>3. CASE Quiet
      <3> /\ late' = late /\ SettledRows' = SettledRows /\ input \subseteq input'
        BY <2>3, Zenon DEF Quiet
      <3> \A r \in Row : \/ Mark(r)' = Mark(r)
                         \/ Mark(r) = "absent" /\ Mark(r)' \in {"arrived"}
        BY <2>2, Zenon DEF Mark
      <3>3. QED
        BY <2>1, Zenon DEF Abstract!Next, Abstract!Arrive, Abstract!Turn
    <2>4. CASE Settles
      <3> \A r \in Row : \/ Mark(r)' = Mark(r)
                         \/ Mark(r) = "arrived" /\ Mark(r)' \in {"late", "delivered"}
        BY <2>2, <2>4, Zenon DEF Settles, Mark
      <3>2. QED
        BY <2>1, Zenon DEF Abstract!Next, Abstract!Settle, Abstract!Turn
    <2>5. QED
      BY <2>3, <2>4, Zenon
  <1>6. QED
    BY <1>1, <1>2, <1>3, <1>4, PTL DEF Spec, ImplementsExactlyOnce, Abstract!Spec
=============================================================================
