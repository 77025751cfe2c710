--------------------------- MODULE RealtimeProofs ---------------------------
(***************************************************************************)
(* The streaming query in realtime mode, for any number of partitions,     *)
(* messages, epochs and crashes and for each of the pipelines: the types   *)
(* of its state, and the state that a restart needs is there.              *)
(*                                                                         *)
(* The window operator folds over the chunks that it has spilled, and the  *)
(* task folds over the events that the funnel forwards.  What these folds  *)
(* compute comes first, then the invariant, then the steps.                *)
(***************************************************************************)
EXTENDS Realtime, TLAPS

\* What the proofs use about sets of numbers and finite sets.  The lemmas take it
\* as a hypothesis; it is proved at the end, for the theorems.
SetLaws ==
    /\ \A S \in SUBSET Nat : S # {} => \E m \in S : \A i \in S : m <= i
    /\ \A n \in Int : IsFiniteSet(0 .. n)
    /\ \A S : \A T \in SUBSET S : IsFiniteSet(S) => IsFiniteSet(T) /\ Cardinality(T) <= Cardinality(S)
    /\ \A S : IsFiniteSet(S) => Cardinality(S) \in Nat
    /\ \A S : \A x \in S : IsFiniteSet(S) => Cardinality(S \ {x}) = Cardinality(S) - 1
    /\ Cardinality({}) = 0

\* Induction over the natural numbers.
LEMMA Induction ==
    ASSUME SetLaws, NEW H, 0 \in H, \A n \in Nat : n \in H => n + 1 \in H
    PROVE  \A n \in Nat : n \in H
  <1> DEFINE Bad == Nat \ H
  <1> SUFFICES ASSUME Bad # {} PROVE FALSE
    BY Zenon
  <1>1. PICK m \in Bad : \A n \in Bad : m <= n
    BY Zenon DEF SetLaws
  <1>2. m # 0 /\ m - 1 \in Nat
    OBVIOUS
  <1>3. m - 1 \in H
    BY <1>1, <1>2
  <1>4. (m - 1) + 1 \in H
    BY <1>2, <1>3, Zenon
  <1>5. QED
    BY <1>4

\* A set of natural numbers, and one of epochs with None, has its least element.
LEMMA MinIsMember ==
    ASSUME SetLaws, NEW S \in SUBSET Nat, S # {}
    PROVE  Min(S) \in S
  BY Zenon DEF SetLaws, Min

\* The same for the barriers that the inputs have reached, None among them.
LEMMA LeastReached ==
    ASSUME SetLaws, NEW S \in SUBSET (Epoch \cup {None}), S # {}
    PROVE  Min(S) \in S
  <1> DEFINE T == {i + 1 : i \in S}
  <1>1. S \subseteq Int /\ \A i \in S : i >= -1
    BY RealtimeAssumption DEF Epoch, None
  <1>2. T \in SUBSET Nat /\ T # {}
    <2>1. \A i \in S : i + 1 \in Nat
      BY <1>1
    <2>2. QED
      BY <2>1, Zenon
  <1>3. PICK m \in T : \A j \in T : m <= j
    BY <1>2, Zenon DEF SetLaws
  <1>4. \A j \in S : m <= j + 1
    BY <1>3, Zenon
  <1>5. m - 1 \in S
    BY <1>1, <1>3
  <1>6. m - 1 \in S /\ \A j \in S : m - 1 <= j
    BY <1>1, <1>2, <1>3, <1>4, <1>5
  <1>7. QED
    BY <1>6, Zenon DEF Min
-----------------------------------------------------------------------------
(* The window operator on bags of rows.                                    *)

\* The state of the operator: the part in memory and the chunks are bags, and
\* the next index is beyond those of the spilled chunks.
AccOK(acc) ==
    /\ DOMAIN acc = DOMAIN AccumState
    /\ acc.pending \in Bag /\ acc.nextSpill \in Nat
    /\ \A i \in acc.spilled : i \in Nat /\ i < acc.nextSpill
ChunksOK(chunks) == \A i \in DOMAIN chunks : chunks[i] \in Bag
EffectOK(e) ==
    /\ e = Effect(e.acc, e.chunks, e.out)
    /\ AccOK(e.acc) /\ ChunksOK(e.chunks) /\ e.out \in Bag

\* The bags are closed under what the operator does to them.
LEMMA BagLaws ==
    /\ NoRows \in Bag /\ \A r \in Row : OneRow(r) \in Bag
    /\ \A a, b \in Bag : Plus(a, b) \in Bag
  <1>1. NoRows \in Bag /\ \A r \in Row : OneRow(r) \in Bag
    BY DEF NoRows, OneRow, Bag
  <1>2. \A a, b \in Bag : Plus(a, b) \in Bag
    BY DEF Plus, Bag
  <1>3. QED
    BY <1>1, <1>2, Zenon

\* Spilling over the budget.
LEMMA SpillOK ==
    ASSUME NEW acc, AccOK(acc), NEW chunks, ChunksOK(chunks)
    PROVE  EffectOK(SpillOverBudget(acc, chunks))
  <1> DEFINE n == acc.nextSpill
             a == [acc EXCEPT !.pending = NoRows, !.bytes = 0, !.spilled = @ \cup {n}, !.nextSpill = @ + 1]
             c == WriteSpill(chunks, n, acc.pending)
  <1>1. AccOK(a)
    <2>1. /\ DOMAIN a = DOMAIN acc /\ a.pending = NoRows /\ a.nextSpill = n + 1
          /\ a.spilled = acc.spilled \cup {n}
      BY DEF AccOK, AccumState
    <2> HIDE DEF a
    <2>2. QED
      BY <2>1, BagLaws DEF AccOK
  <1>2. ChunksOK(c)
    BY Zenon DEF ChunksOK, WriteSpill, AccOK
  <1> HIDE DEF a, c
  <1>3. ASSUME NEW x, AccOK(x), NEW y, ChunksOK(y)
        PROVE  EffectOK(Effect(x, y, NoRows))
    <2>1. /\ Effect(x, y, NoRows).acc = x /\ Effect(x, y, NoRows).chunks = y
          /\ Effect(x, y, NoRows).out = NoRows
      BY Zenon DEF Effect
    <2>2. QED
      BY <1>3, <2>1, BagLaws, Zenon DEF EffectOK
  <1>4. SpillOverBudget(acc, chunks) = Effect(a, c, NoRows) \/ SpillOverBudget(acc, chunks) = Effect(acc, chunks, NoRows)
    BY Zenon DEF SpillOverBudget, a, c
  <1>5. QED
    BY <1>1, <1>2, <1>3, <1>4, Zenon

\* Adding a bag to the part in memory, and spilling over the budget.
Added(acc, bag, a) ==
    /\ DOMAIN a = DOMAIN acc /\ a.pending = Plus(acc.pending, bag)
    /\ a.nextSpill = acc.nextSpill /\ a.spilled = acc.spilled

\* A state with a bag added to it spills to a state that is well-formed.
LEMMA AddOK ==
    ASSUME NEW acc, AccOK(acc), NEW chunks, ChunksOK(chunks), NEW bag \in Bag,
           NEW a, Added(acc, bag, a)
    PROVE  EffectOK(SpillOverBudget(a, chunks))
  <1>1. AccOK(a)
    BY BagLaws, Zenon DEF AccOK, Added
  <1>2. QED
    BY <1>1, SpillOK, Zenon

\* A row.
LEMMA WindowDataOK ==
    ASSUME NEW acc, AccOK(acc), NEW chunks, ChunksOK(chunks), NEW r \in Row
    PROVE  EffectOK(WindowData(acc, chunks, r))
  <1>1. CASE DropLate(acc, r)
    <2>1. WindowData(acc, chunks, r) = Effect(acc, chunks, NoRows)
      BY <1>1, Zenon DEF WindowData
    <2>2. /\ Effect(acc, chunks, NoRows).acc = acc /\ Effect(acc, chunks, NoRows).chunks = chunks
          /\ Effect(acc, chunks, NoRows).out = NoRows
      BY Zenon DEF Effect
    <2>3. QED
      BY <2>1, <2>2, BagLaws, Zenon DEF EffectOK
  <1>2. CASE ~DropLate(acc, r)
    <2> DEFINE a == [acc EXCEPT !.pending = Plus(@, OneRow(r)), !.bytes = @ + 1]
    <2>1. WindowData(acc, chunks, r) = SpillOverBudget(a, chunks)
      BY <1>2, Zenon DEF WindowData
    <2>2. Added(acc, OneRow(r), a)
      BY DEF AccOK, AccumState, Added
    <2> HIDE DEF a
    <2>3. OneRow(r) \in Bag
      BY BagLaws, Zenon
    <2>4. QED
      BY <2>1, <2>2, <2>3, AddOK, Zenon
  <1>3. QED
    BY <1>1, <1>2, Zenon

\* The recursion over the sets of chunks in gather_partials.
AnyOf(s) == CHOOSE x \in s : TRUE
GatherStep(acc, chunks, f, s) ==
    IF s = {} THEN acc.pending ELSE Plus(f[s \ {AnyOf(s)}], ReadSpill(chunks, AnyOf(s)))

\* The sets of at most n chunks.
Few(S, n) == {s \in SUBSET S : Cardinality(s) <= n}

\* There are finitely many chunks, and one less without one of them.
LEMMA FewChunks ==
    ASSUME SetLaws, NEW acc, AccOK(acc)
    PROVE  LET S == acc.spilled IN
           /\ Cardinality(S) \in Nat /\ Few(S, Cardinality(S)) = SUBSET S
           /\ Few(S, 0) = {{}}
           /\ \A n \in Nat : \A s \in Few(S, n + 1) : s # {} => s \ {AnyOf(s)} \in Few(S, n)
           /\ \A n \in Nat : Few(S, n) \subseteq Few(S, n + 1)
  <1> DEFINE S == acc.spilled
  <1>1. IsFiniteSet(S)
    <2>1. acc.nextSpill \in Int /\ S \in SUBSET (0 .. acc.nextSpill)
      BY DEF AccOK
    <2>2. QED
      BY <2>1, Zenon DEF SetLaws
  <1> HIDE DEF S
  <1>2. \A s \in SUBSET S : IsFiniteSet(s) /\ Cardinality(s) \in Nat /\ Cardinality(s) <= Cardinality(S)
    BY <1>1, Zenon DEF SetLaws
  <1>3. \A s \in SUBSET S : \A x \in s : Cardinality(s \ {x}) = Cardinality(s) - 1
    BY <1>2, Zenon DEF SetLaws
  <1>4. \A s : s # {} => AnyOf(s) \in s
    BY Zenon DEF AnyOf
  <1>5. Cardinality(S) \in Nat /\ Few(S, Cardinality(S)) = SUBSET S
    BY <1>2, Zenon DEF Few
  <1>6. Few(S, 0) = {{}}
    <2>1. ASSUME NEW s \in SUBSET S, Cardinality(s) <= 0, s # {} PROVE FALSE
      <3>1. Cardinality(s \ {AnyOf(s)}) = Cardinality(s) - 1 /\ s \ {AnyOf(s)} \in SUBSET S
        BY <1>3, <1>4, <2>1, Zenon
      <3>2. Cardinality(s \ {AnyOf(s)}) \in Nat /\ Cardinality(s) \in Nat
        BY <1>2, <3>1, Zenon
      <3>3. QED
        BY <2>1, <3>1, <3>2
    <2>2. Cardinality({}) <= 0 /\ {} \in SUBSET S
      BY DEF SetLaws
    <2>3. QED
      BY <2>1, <2>2, Zenon DEF Few
  <1>7. ASSUME NEW n \in Nat, NEW s \in Few(S, n + 1), s # {}
        PROVE  s \ {AnyOf(s)} \in Few(S, n)
    <2>1. s \in SUBSET S /\ Cardinality(s) <= n + 1 /\ Cardinality(s) \in Nat
      BY <1>2, Zenon DEF Few
    <2>2. s \ {AnyOf(s)} \in SUBSET S /\ Cardinality(s \ {AnyOf(s)}) = Cardinality(s) - 1
      BY <1>3, <1>4, <1>7, <2>1, Zenon
    <2>3. Cardinality(s \ {AnyOf(s)}) <= n
      BY <2>1, <2>2
    <2>4. QED
      BY <2>2, <2>3, Zenon DEF Few
  <1>8. ASSUME NEW n \in Nat PROVE Few(S, n) \subseteq Few(S, n + 1)
    <2>1. \A s \in SUBSET S : Cardinality(s) <= n => Cardinality(s) <= n + 1
      BY <1>2
    <2>2. QED
      BY <2>1, Zenon DEF Few
  <1>9. QED
    BY <1>5, <1>6, <1>7, <1>8, Zenon DEF S

\* The recursion has a solution.
LEMMA GatherIs ==
    ASSUME SetLaws, NEW acc, AccOK(acc), NEW chunks
    PROVE  \E f : /\ \A s \in SUBSET acc.spilled : f[s] = GatherStep(acc, chunks, f, s)
                 /\ GatherPartials(acc, chunks) = f[acc.spilled]
  <1> DEFINE S == acc.spilled
             Step(f, s) == GatherStep(acc, chunks, f, s)
             Solves(f, T) == f = [s \in T |-> Step(f, s)]
             H == {n \in Nat : \E f : Solves(f, Few(S, n))}
             F == CHOOSE f : Solves(f, SUBSET S)
  <1>1. /\ Cardinality(S) \in Nat /\ Few(S, Cardinality(S)) = SUBSET S
        /\ Few(S, 0) = {{}}
        /\ \A n \in Nat : \A s \in Few(S, n + 1) : s # {} => s \ {AnyOf(s)} \in Few(S, n)
        /\ \A n \in Nat : Few(S, n) \subseteq Few(S, n + 1)
    BY FewChunks, Zenon
  <1>2. 0 \in H
    <2> DEFINE f == [s \in {{}} |-> acc.pending]
    <2>1. \A s \in {{}} : Step(f, s) = acc.pending
      BY Zenon DEF GatherStep
    <2>2. f = [s \in {{}} |-> Step(f, s)]
      BY <2>1, Zenon
    <2>3. QED
      BY <1>1, <2>2, Zenon
  <1>3. ASSUME NEW n \in Nat, n \in H
        PROVE  n + 1 \in H
    <2>1. PICK f : f = [s \in Few(S, n) |-> Step(f, s)]
      BY <1>3, Zenon
    <2> DEFINE h == [s \in Few(S, n + 1) |-> Step(f, s)]
    <2>2. \A s \in Few(S, n) : h[s] = f[s]
      BY <1>1, <2>1, Zenon
    <2> HIDE DEF h
    <2>3. \A s \in Few(S, n + 1) : Step(f, s) = Step(h, s)
      BY <1>1, <2>2, Zenon DEF GatherStep
    <2>4. h = [s \in Few(S, n + 1) |-> Step(h, s)]
      BY <2>3, Zenon DEF h
    <2>5. QED
      BY <2>4
  <1>4. \E f : Solves(f, SUBSET S)
    <2> HIDE DEF Solves
    <2>1. \A n \in Nat : n \in H
      <3> HIDE DEF H
      <3>1. QED
        BY <1>2, <1>3, Induction, Zenon
    <2>2. \E f : Solves(f, Few(S, Cardinality(S)))
      <3>1. Cardinality(S) \in H
        BY <1>1, <2>1, Zenon
      <3>2. QED
        BY <3>1, Zenon
    <2>3. QED
      BY <1>1, <2>2
  <1>5. Solves(F, SUBSET S)
    <2> HIDE DEF Solves
    <2>1. QED
      BY <1>4, Zenon
  <1>6. GatherPartials(acc, chunks) = F[S]
    BY Zenon DEF GatherPartials, FoldSet, MapThenFoldSet, GatherStep, AnyOf
  <1> HIDE DEF F
  <1>7. \A s \in SUBSET S : F[s] = Step(F, s)
    BY <1>5, Zenon
  <1>8. QED
    BY <1>6, <1>7, Zenon

\* gather_partials: the sum of the part in memory and of the chunks.
LEMMA GatherOK ==
    ASSUME SetLaws, NEW acc, AccOK(acc), NEW chunks, ChunksOK(chunks)
    PROVE  GatherPartials(acc, chunks) \in Bag
  <1> DEFINE S == acc.spilled
  <1>1. PICK f : /\ \A s \in SUBSET S : f[s] = GatherStep(acc, chunks, f, s)
                 /\ GatherPartials(acc, chunks) = f[S]
    BY GatherIs, Zenon
  <1> DEFINE H == {n \in Nat : \A s \in Few(S, n) : f[s] \in Bag}
  <1>2. /\ Cardinality(S) \in Nat /\ Few(S, Cardinality(S)) = SUBSET S
        /\ Few(S, 0) = {{}}
        /\ \A n \in Nat : \A s \in Few(S, n + 1) : s # {} => s \ {AnyOf(s)} \in Few(S, n)
    BY FewChunks, Zenon
  <1>3. \A i : ReadSpill(chunks, i) \in Bag
    BY BagLaws, Zenon DEF ReadSpill, ChunksOK
  <1>4. f[{}] \in Bag
    BY <1>1, Zenon DEF GatherStep, AccOK
  <1>5. ASSUME NEW n \in Nat, n \in H
        PROVE  n + 1 \in H
    <2>1. ASSUME NEW s \in Few(S, n + 1), s # {} PROVE f[s] \in Bag
      <3>1. f[s \ {AnyOf(s)}] \in Bag
        BY <1>2, <1>5, <2>1, Zenon
      <3>2. f[s] = Plus(f[s \ {AnyOf(s)}], ReadSpill(chunks, AnyOf(s)))
        BY <1>1, <2>1, Zenon DEF GatherStep, Few
      <3>3. QED
        BY <1>3, <3>1, <3>2, BagLaws, Zenon
    <2>2. \A s \in Few(S, n + 1) : f[s] \in Bag
      BY <1>4, <2>1, Zenon
    <2>3. QED
      BY <2>2
  <1>6. \A n \in Nat : n \in H
    <2>1. 0 \in H
      BY <1>2, <1>4
    <2> HIDE DEF H
    <2>2. QED
      BY <1>5, <2>1, Induction, Zenon
  <1>7. Cardinality(S) \in H /\ S \in Few(S, Cardinality(S))
    BY <1>2, <1>6, Zenon
  <1>8. f[S] \in Bag
    BY <1>7, Zenon
  <1>9. QED
    BY <1>1, <1>8, Zenon

\* Taking over a part of the old state.
LEMMA AbsorbOK ==
    ASSUME NEW e, EffectOK(e), NEW bag \in Bag, NEW wm
    PROVE  EffectOK(Absorb(e, bag, wm))
  <1> DEFINE kept == Only(bag, LAMBDA r : WindowEnd(r) > wm)
             a == [e.acc EXCEPT !.pending = Plus(@, kept), !.bytes = @ + Size(kept)]
  <1>1. kept \in Bag
    BY DEF Only, Bag
  <1>2. Absorb(e, bag, wm) = SpillOverBudget(a, e.chunks)
    BY Zenon DEF Absorb
  <1> HIDE DEF kept
  <1>3. Added(e.acc, kept, a)
    BY DEF EffectOK, AccOK, AccumState, Added
  <1> HIDE DEF a
  <1>4. AccOK(e.acc) /\ ChunksOK(e.chunks)
    BY Zenon DEF EffectOK
  <1>5. QED
    BY <1>1, <1>2, <1>3, <1>4, AddOK, Zenon

\* The recursion over the chunks in rebuild_retained_state.
RebuildStep(acc, chunks, wm, f, n) ==
    IF n = 0
    THEN Absorb(Effect([acc EXCEPT !.pending = NoRows, !.bytes = 0, !.spilled = {}], chunks, NoRows),
                acc.pending, wm)
    ELSE IF n - 1 \in acc.spilled THEN Absorb(f[n - 1], ReadSpill(chunks, n - 1), wm)
    ELSE f[n - 1]

\* f solves it, and gives the state that is rebuilt.
Rebuilds(f, acc, chunks, wm) ==
    /\ \A n \in 0 .. acc.nextSpill : f[n] = RebuildStep(acc, chunks, wm, f, n)
    /\ RebuildRetainedState(acc, chunks, wm)
          = [f[acc.nextSpill] EXCEPT !.chunks = DeleteSpills(@, acc.spilled)]

\* It has a solution, too.
LEMMA RebuildIs ==
    ASSUME SetLaws, NEW acc, NEW chunks, NEW wm, acc.nextSpill \in Nat
    PROVE  \E f : Rebuilds(f, acc, chunks, wm)
  <1> DEFINE Step(f, n) == RebuildStep(acc, chunks, wm, f, n)
             Solves(f, n) == f = [i \in 0 .. n |-> Step(f, i)]
             H == {n \in Nat : \E f : Solves(f, n)}
             F == CHOOSE f : Solves(f, acc.nextSpill)
  <1>1. 0 \in H
    <2> DEFINE f == [i \in 0 .. 0 |-> Step(chunks, 0)]
    <2>1. \A i \in 0 .. 0 : Step(f, i) = Step(chunks, 0)
      BY DEF RebuildStep
    <2>2. f = [i \in 0 .. 0 |-> Step(f, i)]
      BY <2>1, Zenon
    <2>3. QED
      BY <2>2, Zenon
  <1>2. ASSUME NEW n \in Nat, n \in H
        PROVE  n + 1 \in H
    <2>1. PICK f : f = [i \in 0 .. n |-> Step(f, i)]
      BY <1>2, Zenon
    <2> DEFINE h == [i \in 0 .. n + 1 |-> Step(f, i)]
    <2>2. \A i \in 0 .. n + 1 : i = 0 \/ i - 1 \in 0 .. n
      OBVIOUS
    <2>3. \A i \in 0 .. n : i \in 0 .. n + 1
      OBVIOUS
    <2>4. \A i \in 0 .. n : h[i] = f[i]
      BY <2>1, <2>3, Zenon
    <2> HIDE DEF h
    <2>5. \A i \in 0 .. n + 1 : Step(f, i) = Step(h, i)
      BY <2>2, <2>4, Zenon DEF RebuildStep
    <2>6. h = [i \in 0 .. n + 1 |-> Step(h, i)]
      BY <2>5, Zenon DEF h
    <2>7. QED
      BY <2>6
  <1>3. \E f : Solves(f, acc.nextSpill)
    <2> HIDE DEF Solves
    <2>1. \A n \in Nat : n \in H
      <3> HIDE DEF H
      <3>1. QED
        BY <1>1, <1>2, Induction, Zenon
    <2>2. QED
      BY <2>1, Zenon
  <1>4. Solves(F, acc.nextSpill)
    <2> HIDE DEF Solves
    <2>1. QED
      BY <1>3, Zenon
  <1>5. RebuildRetainedState(acc, chunks, wm)
          = [F[acc.nextSpill] EXCEPT !.chunks = DeleteSpills(@, acc.spilled)]
    BY Zenon DEF RebuildRetainedState, RebuildStep
  <1> HIDE DEF F
  <1>6. \A n \in 0 .. acc.nextSpill : F[n] = Step(F, n)
    BY <1>4, Zenon
  <1>7. QED
    BY <1>5, <1>6, Zenon DEF Rebuilds

\* rebuild_retained_state.
LEMMA RebuildOK ==
    ASSUME SetLaws, NEW acc, AccOK(acc), NEW chunks, ChunksOK(chunks), NEW wm
    PROVE  EffectOK(RebuildRetainedState(acc, chunks, wm))
  <1> DEFINE N == acc.nextSpill
             empty == [acc EXCEPT !.pending = NoRows, !.bytes = 0, !.spilled = {}]
             start == Effect(empty, chunks, NoRows)
  <1>1. N \in Nat /\ acc.pending \in Bag
    BY Zenon DEF AccOK
  <1>2. PICK f : /\ \A n \in 0 .. N : f[n] = RebuildStep(acc, chunks, wm, f, n)
                 /\ RebuildRetainedState(acc, chunks, wm)
                       = [f[N] EXCEPT !.chunks = DeleteSpills(@, acc.spilled)]
    <2>1. PICK f : Rebuilds(f, acc, chunks, wm)
      BY <1>1, RebuildIs, Zenon
    <2>2. QED
      BY <2>1, Zenon DEF Rebuilds
  <1>3. EffectOK(start)
    <2>1. /\ DOMAIN empty = DOMAIN acc /\ empty.pending = NoRows /\ empty.spilled = {}
          /\ empty.nextSpill = N
      BY DEF AccOK, AccumState
    <2> HIDE DEF empty
    <2>2. AccOK(empty)
      BY <1>1, <2>1, BagLaws, Zenon DEF AccOK
    <2>3. start.acc = empty /\ start.chunks = chunks /\ start.out = NoRows
      BY Zenon DEF Effect
    <2>4. QED
      BY <2>2, <2>3, BagLaws, Zenon DEF EffectOK
  <1>4. EffectOK(f[0])
    <2>1. 0 \in 0 .. N
      BY <1>1
    <2>2. f[0] = Absorb(start, acc.pending, wm)
      BY <1>2, <2>1, Zenon DEF RebuildStep
    <2> HIDE DEF start
    <2>3. QED
      BY <1>1, <1>3, <2>2, AbsorbOK, Zenon
  <1> HIDE DEF start
  <1> DEFINE H == {n \in Nat : n <= N => EffectOK(f[n])}
  <1>5. ASSUME NEW n \in Nat, n \in H
        PROVE  n + 1 \in H
    <2>1. ASSUME n + 1 <= N PROVE EffectOK(f[n + 1])
      <3>1. n + 1 \in 0 .. N /\ n + 1 # 0 /\ (n + 1) - 1 = n /\ n <= N
        BY <1>1, <2>1
      <3>2. EffectOK(f[n])
        BY <1>5, <3>1, Zenon
      <3>3. f[n + 1] = Absorb(f[n], ReadSpill(chunks, n), wm) \/ f[n + 1] = f[n]
        BY <1>2, <3>1, Zenon DEF RebuildStep
      <3>4. ReadSpill(chunks, n) \in Bag
        BY BagLaws, Zenon DEF ReadSpill, ChunksOK
      <3>5. QED
        BY <3>2, <3>3, <3>4, AbsorbOK, Zenon
    <2>2. QED
      BY <2>1
  <1>6. EffectOK(f[N])
    <2>1. 0 \in H
      BY <1>4
    <2>2. \A n \in Nat : n \in H
      <3> HIDE DEF H
      <3>1. QED
        BY <1>5, <2>1, Induction, Zenon
    <2>3. N \in H /\ N <= N
      BY <1>1, <2>2
    <2>4. QED
      BY <2>3, Zenon
  <1>7. QED
    <2> DEFINE e == f[N]
               x == [e EXCEPT !.chunks = DeleteSpills(@, acc.spilled)]
    <2>1. x.acc = e.acc /\ x.chunks = DeleteSpills(e.chunks, acc.spilled) /\ x.out = e.out
          /\ x = Effect(x.acc, x.chunks, x.out)
      BY <1>6 DEF EffectOK, Effect
    <2>2. RebuildRetainedState(acc, chunks, wm) = x
      BY <1>2, Zenon
    <2> HIDE DEF e, x
    <2>3. EffectOK(e)
      BY <1>6, Zenon DEF e
    <2>4. ChunksOK(DeleteSpills(e.chunks, acc.spilled))
      BY <2>3, Zenon DEF EffectOK, ChunksOK, DeleteSpills
    <2>5. QED
      BY <2>1, <2>2, <2>3, <2>4, Zenon DEF EffectOK

\* A watermark, whether it merges or is throttled.
LEMMA WindowWatermarkOK ==
    ASSUME SetLaws, NEW acc, AccOK(acc), NEW chunks, ChunksOK(chunks), NEW w
    PROVE  EffectOK(WindowWatermark(acc, chunks, w))
  <1> DEFINE wm == Later(acc.wm, w)
             seen == [acc EXCEPT !.wm = wm, !.emitted = {e \in @ : e + AllowedLateness >= wm}]
             full == GatherPartials(seen, chunks)
             closed == {WindowEnd(r) : r \in {x \in Row : full[x] > 0 /\ WindowEnd(x) <= wm}}
             marked == [seen EXCEPT !.lastFinal = wm, !.emitted = @ \cup closed,
                                    !.floor = Later(@, wm - AllowedLateness)]
             rebuilt == RebuildRetainedState(marked, chunks, wm)
             out == Only(full, LAMBDA r : Fires(seen, wm, r))
  <1>1. \/ WindowWatermark(acc, chunks, w) = [rebuilt EXCEPT !.out = out]
        \/ WindowWatermark(acc, chunks, w) = Effect(seen, chunks, NoRows)
    BY Zenon DEF WindowWatermark, Finalize
  <1> HIDE DEF wm, closed
  <1>2. AccOK(seen)
    <2>1. /\ DOMAIN seen = DOMAIN acc /\ seen.pending = acc.pending /\ seen.nextSpill = acc.nextSpill
          /\ seen.spilled = acc.spilled
      BY DEF AccOK, AccumState
    <2> HIDE DEF seen
    <2>2. QED
      BY <2>1, Zenon DEF AccOK
  <1> HIDE DEF seen
  <1>3. AccOK(marked)
    <2>1. /\ DOMAIN marked = DOMAIN seen /\ marked.pending = seen.pending
          /\ marked.nextSpill = seen.nextSpill /\ marked.spilled = seen.spilled
      BY <1>2 DEF AccOK, AccumState
    <2> HIDE DEF marked
    <2>2. QED
      BY <1>2, <2>1, Zenon DEF AccOK
  <1> HIDE DEF marked
  <1>4. full \in Bag
    BY <1>2, GatherOK, Zenon
  <1> HIDE DEF full
  <1>5. out \in Bag
    BY <1>4 DEF Only, Bag
  <1> HIDE DEF out
  <1>6. EffectOK(rebuilt)
    BY <1>3, RebuildOK, Zenon
  <1> HIDE DEF rebuilt
  <1>7. EffectOK([rebuilt EXCEPT !.out = out])
    <2> DEFINE x == [rebuilt EXCEPT !.out = out]
    <2>1. x.acc = rebuilt.acc /\ x.chunks = rebuilt.chunks /\ x.out = out /\ x = Effect(x.acc, x.chunks, x.out)
      BY <1>6 DEF EffectOK, Effect
    <2> HIDE DEF x
    <2>2. EffectOK(x)
      BY <1>5, <1>6, <2>1, Zenon DEF EffectOK
    <2>3. QED
      BY <2>2, Zenon DEF x
  <1>8. EffectOK(Effect(seen, chunks, NoRows))
    <2>1. /\ Effect(seen, chunks, NoRows).acc = seen /\ Effect(seen, chunks, NoRows).chunks = chunks
          /\ Effect(seen, chunks, NoRows).out = NoRows
      BY Zenon DEF Effect
    <2>2. QED
      BY <1>2, <2>1, BagLaws, Zenon DEF EffectOK
  <1>9. QED
    BY <1>1, <1>7, <1>8, Zenon
-----------------------------------------------------------------------------
(* The events that the funnel forwards: none, one, or a watermark before a *)
(* barrier.                                                                *)

\* The events of a stream whose watermarks are in T.
Events(T) ==
    {Data(r) : r \in Row} \cup {Watermark(t) : t \in T} \cup {Checkpoint(e) : e \in Epoch} \cup {Idle}
IsEvent(a) == \E T : a \in Events(T)

Forwarded(events) ==
    \/ events = <<>>
    \/ \E a : IsEvent(a) /\ events = <<a>>
    \/ \E t : \E e \in Epoch : events = <<Watermark(t), Checkpoint(e)>>

\* What the task and the checkpoint store are after the events.
AfterEvents(s, events) == InOrder(Event, s, events)

\* The task after no event.
LEMMA FoldNone ==
    ASSUME NEW s
    PROVE  AfterEvents(s, <<>>) = s
  <1> DEFINE Step(f, u) == IF u = {} THEN s ELSE Event(f[u \ {Max(u)}], <<>>[Max(u)])
             Solves(f) == f = [u \in SUBSET {} |-> Step(f, u)]
             F == CHOOSE f : Solves(f)
  <1>1. DOMAIN <<>> = {}
    OBVIOUS
  <1>2. AfterEvents(s, <<>>) = F[{}]
    BY <1>1, Zenon DEF AfterEvents, InOrder, MapThenFoldSet
  <1>3. \E f : Solves(f)
    <2> DEFINE G == [u \in SUBSET {} |-> s]
    <2>1. \A u \in SUBSET {} : Step(G, u) = s
      BY Zenon
    <2>2. Solves(G)
      BY <2>1, Zenon
    <2>3. QED
      BY <2>2, Zenon
  <1>4. Solves(F)
    <2> HIDE DEF Solves
    <2>1. QED
      BY <1>3, Zenon
  <1> HIDE DEF F
  <1>5. F[{}] = s
    BY <1>4, Zenon
  <1>6. QED
    BY <1>2, <1>5, Zenon

\* The task after one event.
LEMMA FoldOne ==
    ASSUME NEW s, NEW a
    PROVE  AfterEvents(s, <<a>>) = Event(s, a)
  <1> DEFINE one == {1}
             item == <<a>>
             top(u) == Max(u)
             rest(u) == u \ {Max(u)}
             Step(f, u) == IF u = {} THEN s ELSE Event(f[rest(u)], item[top(u)])
             Solves(f) == f = [u \in SUBSET one |-> Step(f, u)]
             F == CHOOSE f : Solves(f)
  <1>1. DOMAIN item = one /\ item[1] = a
    OBVIOUS
  <1>2. AfterEvents(s, <<a>>) = F[one]
    BY <1>1, Zenon DEF AfterEvents, InOrder, MapThenFoldSet
  <1>3. top(one) = 1 /\ rest(one) = {} /\ one # {} /\ \A u \in SUBSET one : u = {} \/ u = one
    <2>1. 1 >= 1
      OBVIOUS
    <2>2. Max({1}) = 1
      BY <2>1, Zenon DEF Max
    <2>3. QED
      BY <2>2, Zenon
  <1> HIDE DEF one, item, top, rest
  <1>4. item[top(one)] = a
    BY <1>1, <1>3
  <1>5. \E f : Solves(f)
    <2> DEFINE G == [u \in SUBSET one |-> IF u = {} THEN s ELSE Event(s, a)]
    <2>1. G[rest(one)] = s
      BY <1>3
    <2>2. \A u \in SUBSET one : Step(G, u) = IF u = {} THEN s ELSE Event(s, a)
      <3> HIDE DEF G
      <3>1. QED
        BY <1>3, <1>4, <2>1, Zenon
    <2>3. Solves(G)
      BY <2>2, Zenon
    <2>4. QED
      BY <2>3, Zenon
  <1>6. Solves(F)
    <2> HIDE DEF Solves
    <2>1. QED
      BY <1>5, Zenon
  <1> HIDE DEF F
  <1>7. F[{}] = s /\ F[one] = Event(F[rest(one)], item[top(one)])
    <2>1. \A u \in SUBSET one : F[u] = Step(F, u)
      BY <1>6, Zenon
    <2>2. {} \in SUBSET one /\ one \in SUBSET one
      BY Zenon
    <2>3. QED
      BY <1>3, <2>1, <2>2, Zenon
  <1>8. F[one] = Event(s, a)
    BY <1>3, <1>4, <1>7
  <1>9. QED
    BY <1>2, <1>8, Zenon

\* The task after two events.
LEMMA FoldTwo ==
    ASSUME NEW s, NEW a, NEW b
    PROVE  AfterEvents(s, <<a, b>>) = Event(Event(s, a), b)
  <1> DEFINE one == {1}
             two == {2}
             all == {1, 2}
             items == <<a, b>>
             top(u) == Max(u)
             rest(u) == u \ {Max(u)}
             Step(f, u) == IF u = {} THEN s ELSE Event(f[rest(u)], items[top(u)])
             Value(u) == IF u = {} THEN s ELSE IF u = one THEN Event(s, a)
                         ELSE IF u = two THEN Event(s, b) ELSE Event(Event(s, a), b)
             Solves(f) == f = [u \in SUBSET all |-> Step(f, u)]
             F == CHOOSE f : Solves(f)
  <1>1. DOMAIN items = all /\ items[1] = a /\ items[2] = b
    OBVIOUS
  <1>2. AfterEvents(s, <<a, b>>) = F[all]
    BY <1>1, Zenon DEF AfterEvents, InOrder, MapThenFoldSet
  <1>3. /\ top(one) = 1 /\ top(two) = 2 /\ top(all) = 2
        /\ rest(one) = {} /\ rest(two) = {} /\ rest(all) = one
        /\ one # {} /\ two # {} /\ all # {} /\ one # two /\ all # one /\ all # two
        /\ {} \in SUBSET all /\ one \in SUBSET all /\ all \in SUBSET all
        /\ \A u \in SUBSET all : u = {} \/ u = one \/ u = two \/ u = all
    <2>1. 1 >= 1 /\ 2 >= 2 /\ 2 >= 1 /\ ~(1 >= 2) /\ 1 # 2
      OBVIOUS
    <2>2. Max({1}) = 1 /\ Max({2}) = 2
      BY <2>1, Zenon DEF Max
    <2>3. Max({1, 2}) = 2
      BY <2>1 DEF Max
    <2>4. {1} \ {1} = {} /\ {2} \ {2} = {} /\ {1, 2} \ {2} = {1}
      BY <2>1, Zenon
    <2>5. one # {} /\ two # {} /\ all # {} /\ one # two /\ all # one /\ all # two
      <3>1. 1 \in one /\ 1 \notin two /\ 2 \in two /\ 2 \notin one /\ 1 \in all /\ 2 \in all
        BY <2>1, Zenon
      <3> HIDE DEF one, two, all
      <3>2. QED
        BY <3>1, Zenon
    <2>6. \A u \in SUBSET all : u = {} \/ u = one \/ u = two \/ u = all
      BY Zenon
    <2>7. {} \in SUBSET all /\ one \in SUBSET all /\ all \in SUBSET all
      BY Zenon
    <2>8. rest(one) = {} /\ rest(two) = {} /\ rest(all) = one
      BY <2>2, <2>3, <2>4, Zenon
    <2>9. QED
      BY <2>2, <2>3, <2>5, <2>6, <2>7, <2>8, Zenon
  <1> HIDE DEF one, two, all, items, top, rest
  <1>4. items[top(one)] = a /\ items[top(two)] = b /\ items[top(all)] = b
    BY <1>1, <1>3
  <1>5. \E f : Solves(f)
    <2> DEFINE G == [u \in SUBSET all |-> Value(u)]
    <2>1. G[{}] = s /\ G[one] = Event(s, a)
      BY <1>3, Zenon
    <2> HIDE DEF G
    <2>2. G[rest(one)] = s /\ G[rest(two)] = s /\ G[rest(all)] = Event(s, a)
      BY <1>3, <2>1
    <2>3. ASSUME NEW u \in SUBSET all PROVE Step(G, u) = Value(u)
      <3>1. CASE u = {}
        BY <3>1, Zenon
      <3>2. CASE u = one
        BY <1>3, <1>4, <2>2, <3>2
      <3>3. CASE u = two
        BY <1>3, <1>4, <2>2, <3>3, Zenon
      <3>4. CASE u = all
        BY <1>3, <1>4, <2>2, <3>4
      <3>5. QED
        BY <1>3, <3>1, <3>2, <3>3, <3>4, Zenon
    <2>4. Solves(G)
      BY <2>3, Zenon DEF G
    <2>5. QED
      BY <2>4, Zenon
  <1>6. Solves(F)
    <2> HIDE DEF Solves
    <2>1. QED
      BY <1>5, Zenon
  <1> HIDE DEF F
  <1>7. /\ F[{}] = s /\ F[one] = Event(F[rest(one)], items[top(one)])
        /\ F[all] = Event(F[rest(all)], items[top(all)])
    <2>1. \A u \in SUBSET all : F[u] = Step(F, u)
      BY <1>6, Zenon
    <2>2. QED
      BY <1>3, <2>1, Zenon
  <1>8. F[all] = Event(Event(s, a), b)
    BY <1>3, <1>4, <1>7
  <1>9. QED
    BY <1>2, <1>8, Zenon

\* The kinds of events, and what they carry.
LEMMA EventKinds ==
    ASSUME NEW a, IsEvent(a)
    PROVE  \/ \E r \in Row : a = Data(r) /\ a.kind = "data" /\ a.row = r
           \/ \E t : a = Watermark(t) /\ a.kind = "watermark" /\ a.time = t
           \/ \E e \in Epoch : a = Checkpoint(e) /\ a.kind = "checkpoint" /\ a.epoch = e
           \/ a = Idle /\ a.kind = "idle"
  <1>1. /\ \A r : Data(r).kind = "data" /\ Data(r).row = r
        /\ \A t : Watermark(t).kind = "watermark" /\ Watermark(t).time = t
        /\ \A e : Checkpoint(e).kind = "checkpoint" /\ Checkpoint(e).epoch = e
        /\ Idle.kind = "idle"
    BY Zenon DEF Data, Watermark, Checkpoint, Idle
  <1>2. \/ \E r \in Row : a = Data(r)
        \/ \E t : a = Watermark(t)
        \/ \E e \in Epoch : a = Checkpoint(e)
        \/ a = Idle
    BY Zenon DEF IsEvent, Events
  <1>3. ASSUME NEW r \in Row, a = Data(r) PROVE a = Data(r) /\ a.kind = "data" /\ a.row = r
    BY <1>1, <1>3, Zenon
  <1>4. ASSUME NEW t, a = Watermark(t) PROVE a = Watermark(t) /\ a.kind = "watermark" /\ a.time = t
    BY <1>1, <1>4, Zenon
  <1>5. ASSUME NEW e \in Epoch, a = Checkpoint(e)
        PROVE  a = Checkpoint(e) /\ a.kind = "checkpoint" /\ a.epoch = e
    BY <1>1, <1>5, Zenon
  <1>6. ASSUME a = Idle PROVE a = Idle /\ a.kind = "idle"
    BY <1>1, <1>6, Zenon
  <1>7. QED
    BY <1>2, <1>3, <1>4, <1>5, <1>6, Zenon

\* Each of them is an event.
LEMMA AreEvents ==
    /\ \A r \in Row : IsEvent(Data(r))
    /\ \A t : IsEvent(Watermark(t))
    /\ \A e \in Epoch : IsEvent(Checkpoint(e))
    /\ IsEvent(Idle)
  <1>1. \A t : Watermark(t) \in Events({t})
    BY Zenon DEF Events
  <1>2. \A r \in Row : Data(r) \in Events({})
    BY Zenon DEF Events
  <1>3. \A e \in Epoch : Checkpoint(e) \in Events({})
    BY Zenon DEF Events
  <1>4. Idle \in Events({})
    BY Zenon DEF Events
  <1>5. QED
    BY <1>1, <1>2, <1>3, <1>4, Zenon DEF IsEvent
-----------------------------------------------------------------------------
(* The invariant.                                                          *)

Points == {"truncating", "deleting", "ready", "barrier", "written", "marked", "complete", "visible"}
Committing == {"barrier", "written", "marked", "complete", "visible"}

ReaderFields == {"up", "next", "epoch", "builder", "idle", "wm"}
ReaderOK(p, r) ==
    \/ r = NoReader
    \/ /\ DOMAIN r = ReaderFields
       /\ r.next \in 0 .. Len(Topic[p]) /\ r.epoch \in 0 .. MaxEpoch + 1
       /\ r.builder \in Seq(Row) /\ Len(r.builder) < MaxBatch
ReadersOK == DOMAIN reader = Partition /\ \A p \in Partition : ReaderOK(p, reader[p])

ChannelsOK == \E T : chan \in [Partition -> Seq(Events(T))]

FunnelOK(f) ==
    /\ DOMAIN f = {"reached", "wm", "idle", "lastWm"}
    /\ f.reached \in [Partition -> Epoch \cup {None}]

TaskFields == {"pc", "funnel", "acc", "late", "buffer", "epoch"}
IsUp(t) ==
    /\ DOMAIN t = TaskFields /\ t.pc \in Points /\ FunnelOK(t.funnel) /\ AccOK(t.acc)
    /\ t.late \subseteq Row /\ t.buffer \in Bag
    /\ t.pc \in Committing => t.epoch \in Epoch
TasksOK ==
    /\ DOMAIN task = Partition /\ \A i \in Partition : task[i] = NoTask \/ IsUp(task[i])
    /\ query = "window" => \A i \in Partition : i # First => task[i] = NoTask

\* The objects of the checkpoint store.
StateOK(s) == s.snapshot.rows \in Bag /\ s.late \subseteq Row
StagedOK(c) ==
    /\ c.staged \in [Partition -> [Epoch -> Int]]
    /\ \A p \in Partition : \A e \in Epoch : c.staged[p][e] \in {None} \cup 0 .. Len(Topic[p])
CommittedOK(c) ==
    /\ c.committed.epoch \in Epoch \cup {None}
    /\ \A p \in Partition : c.committed.offsets[p] \in {None} \cup 0 .. Len(Topic[p])
CkOK(c) ==
    /\ DOMAIN c = {"staged", "committed", "expected", "done", "state", "chunks"}
    /\ StagedOK(c) /\ CommittedOK(c) /\ c.done \subseteq Epoch \X Partition
    /\ DOMAIN c.state \subseteq Epoch /\ \A e \in DOMAIN c.state : StateOK(c.state[e])
    /\ ChunksOK(c.chunks)

FilesOK == DOMAIN log \subseteq Epoch /\ \A f \in store : f.batch \in Epoch /\ f.rows \in Bag

\* Where no put of a state fails, the state of the epoch that the sink is
\* committing is stored, and so is that of the committed one.
StatesAreStored == "state" \notin PutFaults
EpochIsStored ==
    query = "window" /\ StatesAreStored =>
        \A i \in Partition : task[i].pc \in Committing => task[i].epoch \in DOMAIN ck.state
CommittedIsStored == StatesAreStored => CommittedStateIsKept

Inv ==
    /\ pipeline \in Pipeline
    /\ ReadersOK /\ ChannelsOK /\ TasksOK /\ CkOK(ck) /\ FilesOK
    /\ EpochIsStored /\ CommittedIsStored
-----------------------------------------------------------------------------
(* The funnel.                                                             *)

Passes(x) == FunnelOK(x.funnel) /\ Forwarded(x.events)

\* What Forward makes of a funnel and events.
LEMMA PassesOn ==
    ASSUME NEW f, FunnelOK(f), NEW events, Forwarded(events)
    PROVE  Passes(Forward(f, events))
  <1>1. Forward(f, events).funnel = f /\ Forward(f, events).events = events
    BY Zenon DEF Forward
  <1>2. QED
    BY <1>1, Zenon DEF Passes

\* A funnel at the start has no barrier.
LEMMA NewFunnelOK == FunnelOK(NewFunnel)
  BY DEF FunnelOK, NewFunnel

\* align_flow_event_streams.
LEMMA AlignOK ==
    ASSUME SetLaws, NEW f, FunnelOK(f), NEW inputs \in SUBSET Partition, inputs # {},
           NEW p \in Partition, NEW a, IsEvent(a)
    PROVE  Passes(Align(f, inputs, p, a))
  <1>1. Forwarded(<<>>) /\ Forwarded(<<a>>)
    BY Zenon DEF Forwarded
  <1>2. CASE a.kind = "data"
    <2>1. Align(f, inputs, p, a) = Forward(f, <<a>>)
      BY <1>2, Zenon DEF Align
    <2>2. QED
      BY <1>1, <2>1, PassesOn, Zenon
  <1>3. CASE a.kind = "checkpoint"
    <2> DEFINE g == [f EXCEPT !.reached[p] = a.epoch]
    <2>1. a.epoch \in Epoch
      BY <1>3, EventKinds
    <2>2. FunnelOK(g)
      BY <2>1 DEF FunnelOK
    <2>3. CASE \E q \in inputs : g.reached[q] = None
      <3>1. Align(f, inputs, p, a) = Forward(g, <<>>)
        BY <1>3, <2>3, Zenon DEF Align
      <3> HIDE DEF g
      <3>2. QED
        BY <1>1, <2>2, <3>1, PassesOn, Zenon
    <2>4. CASE ~ \E q \in inputs : g.reached[q] = None
      <3> DEFINE e == g.reached[Min(inputs)]
      <3>1. Align(f, inputs, p, a) = Forward(NewFunnel, <<Checkpoint(e)>>)
        BY <1>3, <2>4, Zenon DEF Align
      <3> HIDE DEF g
      <3>2. inputs \in SUBSET Nat
        BY RealtimeAssumption, Zenon
      <3>3. Min(inputs) \in inputs
        BY <3>2, MinIsMember, Zenon
      <3>4. e \in Epoch
        BY <2>2, <2>4, <3>3, Zenon DEF FunnelOK
      <3> HIDE DEF e
      <3>5. Forwarded(<<Checkpoint(e)>>)
        BY <3>4, AreEvents, Zenon DEF Forwarded
      <3>6. QED
        BY <3>1, <3>5, NewFunnelOK, PassesOn, Zenon
    <2>5. QED
      BY <2>3, <2>4, Zenon
  <1>4. CASE a.kind # "data" /\ a.kind # "checkpoint"
    <2>1. Align(f, inputs, p, a) = Forward(f, IF p = Min(inputs) THEN <<a>> ELSE <<>>)
      BY <1>4, Zenon DEF Align
    <2>2. QED
      BY <1>1, <2>1, PassesOn, Zenon
  <1>5. QED
    BY <1>2, <1>3, <1>4, Zenon

\* Two events in sequence.
LEMMA TwoInSequence ==
    ASSUME NEW x, NEW y
    PROVE  <<x>> \o <<y>> = <<x, y>>
  <1> DEFINE u == <<x>> \o <<y>>
             v == <<x, y>>
  <1>1. u \in Seq({x, y}) /\ Len(u) = 2 /\ u[1] = x /\ u[2] = y
    OBVIOUS
  <1>2. v \in Seq({x, y}) /\ Len(v) = 2 /\ v[1] = x /\ v[2] = y
    OBVIOUS
  <1> HIDE DEF u, v
  <1>3. \A i \in 1 .. Len(u) : u[i] = v[i]
    BY <1>1, <1>2
  <1>4. ASSUME NEW S, NEW s \in Seq(S), NEW t \in Seq(S), Len(s) = Len(t),
               \A i \in 1 .. Len(s) : s[i] = t[i]
        PROVE  s = t
    BY <1>4
  <1>5. u = v
    BY <1>1, <1>2, <1>3, <1>4, Zenon
  <1>6. QED
    BY <1>5, Zenon DEF u, v

\* merge_output_subchannels: the barrier that goes out is one that all inputs have
\* reached.
LEMMA MergeOK ==
    ASSUME SetLaws, NEW f, FunnelOK(f), NEW p \in Partition, NEW a, IsEvent(a)
    PROVE  Passes(Merge(f, p, a))
  <1>1. CASE a.kind = "data"
    <2> DEFINE g == [f EXCEPT !.idle = @ \ {p}]
    <2>1. Merge(f, p, a) = Forward(g, <<a>>)
      BY <1>1, Zenon DEF Merge
    <2>2. FunnelOK(g)
      BY DEF FunnelOK
    <2>3. Forwarded(<<a>>)
      BY Zenon DEF Forwarded
    <2> HIDE DEF g
    <2>4. QED
      BY <2>1, <2>2, <2>3, PassesOn, Zenon
  <1>2. CASE a.kind # "data"
    <2> DEFINE g == CASE a.kind = "watermark" -> [f EXCEPT !.wm[p] = Later(@, a.time), !.idle = @ \ {p}]
                      [] a.kind = "checkpoint" ->
                            [f EXCEPT !.reached[p] = Later(@, a.epoch), !.idle = @ \ {p}]
                      [] OTHER -> [f EXCEPT !.idle = @ \cup {p}]
               wm == MergedWatermark(g)
               least(h) == Min({h.reached[q] : q \in Partition})
               h == [g EXCEPT !.lastWm = Later(@, wm)]
               mark == IF wm > f.lastWm THEN <<Watermark(wm)>> ELSE <<>>
               barrier == IF least(g) > least(f) THEN <<Checkpoint(least(g))>> ELSE <<>>
    <2>1. Merge(f, p, a) = Forward(h, mark \o barrier)
      BY <1>2, Zenon DEF Merge
    <2>2. FunnelOK(g)
      <3>1. CASE a.kind = "watermark"
        <4>1. g = [f EXCEPT !.wm[p] = Later(@, a.time), !.idle = @ \ {p}]
          BY <3>1, Zenon
        <4> HIDE DEF g
        <4>2. QED
          BY <4>1 DEF FunnelOK
      <3>2. CASE a.kind = "checkpoint"
        <4>1. g = [f EXCEPT !.reached[p] = Later(@, a.epoch), !.idle = @ \ {p}]
          BY <3>2, Zenon
        <4>2. a.epoch \in Epoch
          BY <3>2, EventKinds
        <4> HIDE DEF g
        <4>3. QED
          BY <4>1, <4>2 DEF FunnelOK, Later
      <3>3. CASE a.kind # "watermark" /\ a.kind # "checkpoint"
        <4>1. g = [f EXCEPT !.idle = @ \cup {p}]
          BY <3>3, Zenon
        <4> HIDE DEF g
        <4>2. QED
          BY <4>1 DEF FunnelOK
      <3>4. QED
        BY <3>1, <3>2, <3>3, Zenon
    <2> HIDE DEF g, wm
    <2>3. FunnelOK(h)
      BY <2>2 DEF FunnelOK
    <2> HIDE DEF h
    <2>4. ASSUME NEW x, FunnelOK(x) PROVE least(x) \in Epoch \cup {None}
      <3>1. {x.reached[q] : q \in Partition} \in SUBSET (Epoch \cup {None})
        BY <2>4, Zenon DEF FunnelOK
      <3>2. PICK q \in Partition : TRUE
        BY RealtimeAssumption, Zenon
      <3>3. x.reached[q] \in {x.reached[k] : k \in Partition}
        BY Zenon
      <3>4. QED
        BY <3>1, <3>3, LeastReached, Zenon
    <2>5. least(g) \in Epoch \cup {None} /\ least(f) \in Epoch \cup {None}
      BY <2>2, <2>4, Zenon
    <2> HIDE DEF least
    <2>6. least(g) > least(f) => least(g) \in Epoch
      BY <2>5, RealtimeAssumption DEF Epoch, None
    <2>7. Forwarded(mark \o barrier)
      <3>1. mark = <<>> \/ mark = <<Watermark(wm)>>
        BY Zenon
      <3>2. barrier = <<>> \/ (least(g) \in Epoch /\ barrier = <<Checkpoint(least(g))>>)
        BY <2>6, Zenon
      <3> HIDE DEF mark, barrier
      <3>3. \/ mark \o barrier = <<>>
            \/ mark \o barrier = <<Watermark(wm)>>
            \/ least(g) \in Epoch /\ mark \o barrier = <<Checkpoint(least(g))>>
            \/ least(g) \in Epoch /\ mark \o barrier = <<Watermark(wm), Checkpoint(least(g))>>
        <4>1. <<>> \o <<>> = <<>>
          OBVIOUS
        <4>2. ASSUME NEW x PROVE <<>> \o <<x>> = <<x>> /\ <<x>> \o <<>> = <<x>>
          OBVIOUS
        <4>3. QED
          BY <3>1, <3>2, <4>1, <4>2, TwoInSequence, Zenon
      <3>4. QED
        BY <3>3, AreEvents, Zenon DEF Forwarded
    <2>8. QED
      BY <2>1, <2>3, <2>7, PassesOn, Zenon
  <1>3. QED
    BY <1>1, <1>2, Zenon
-----------------------------------------------------------------------------
(* The events at the window operator and the sink.                         *)

\* The task and the checkpoint store between two events: nothing is committed
\* meanwhile, and the state of the committed epoch stays.
Between(s, committed) ==
    /\ DOMAIN s = {"task", "ck", "put"} /\ IsUp(s.task) /\ CkOK(s.ck)
    /\ s.task.pc \in {"ready", "barrier"} /\ s.ck.committed = committed
    /\ StatesAreStored => s.put
    /\ query = "window" /\ StatesAreStored =>
          /\ committed.epoch # None => committed.epoch \in DOMAIN s.ck.state
          /\ s.task.pc = "barrier" => s.task.epoch \in DOMAIN s.ck.state

\* A row or a watermark.
LEMMA BufferedOK ==
    ASSUME NEW s, NEW committed, Between(s, committed), s.task.pc = "ready",
           NEW e, EffectOK(e)
    PROVE  Between(Buffered(s, e), committed) /\ Buffered(s, e).task.pc = "ready"
  <1> DEFINE t == [s.task EXCEPT !.acc = e.acc, !.buffer = Plus(@, e.out)]
             c == [s.ck EXCEPT !.chunks = e.chunks]
             z == Buffered(s, e)
  <1>1. DOMAIN z = {"task", "ck", "put"} /\ z.task = t /\ z.ck = c /\ z.put = s.put
    BY DEF Buffered, Between, IsUp, TaskFields
  <1>2. IsUp(t) /\ t.pc = "ready"
    <2>1. /\ DOMAIN t = TaskFields /\ t.pc = s.task.pc /\ t.funnel = s.task.funnel
          /\ t.late = s.task.late /\ t.epoch = s.task.epoch
          /\ t.acc = e.acc /\ t.buffer = Plus(s.task.buffer, e.out)
      BY DEF Between, IsUp, TaskFields
    <2> HIDE DEF t
    <2>2. Plus(s.task.buffer, e.out) \in Bag
      BY BagLaws, Zenon DEF Between, IsUp, EffectOK
    <2>3. QED
      BY <2>1, <2>2, Zenon DEF Between, IsUp, EffectOK
  <1>3. CkOK(c) /\ c.committed = s.ck.committed /\ c.state = s.ck.state
    <2>1. /\ DOMAIN c = DOMAIN s.ck /\ c.staged = s.ck.staged /\ c.committed = s.ck.committed
          /\ c.done = s.ck.done /\ c.state = s.ck.state /\ c.chunks = e.chunks
      BY DEF Between, CkOK
    <2> HIDE DEF c
    <2>2. QED
      BY <2>1, Zenon DEF Between, CkOK, StagedOK, CommittedOK, EffectOK
  <1> HIDE DEF t, c, z
  <1>4. "ready" # "barrier"
    OBVIOUS
  <1>5. Between(z, committed) /\ z.task.pc = "ready"
    BY <1>1, <1>2, <1>3, <1>4, Zenon DEF Between
  <1>6. QED
    BY <1>5, Zenon DEF z

\* A row that comes too late is kept.
LEMMA LateOK ==
    ASSUME NEW s, NEW committed, Between(s, committed), NEW l, l \subseteq Row
    PROVE  Between([s EXCEPT !.task.late = l], committed)
  <1> DEFINE t == [s.task EXCEPT !.late = l]
             z == [s EXCEPT !.task.late = l]
  <1>1. DOMAIN z = {"task", "ck", "put"} /\ z.task = t /\ z.ck = s.ck /\ z.put = s.put
    BY DEF Between
  <1>2. /\ DOMAIN t = TaskFields /\ t.pc = s.task.pc /\ t.funnel = s.task.funnel
        /\ t.late = l /\ t.epoch = s.task.epoch
        /\ t.acc = s.task.acc /\ t.buffer = s.task.buffer
    BY DEF Between, IsUp, TaskFields
  <1> HIDE DEF t, z
  <1>3. IsUp(t)
    BY <1>2, Zenon DEF Between, IsUp
  <1>4. Between(z, committed)
    BY <1>1, <1>2, <1>3, Zenon DEF Between
  <1>5. QED
    BY <1>4, Zenon DEF z

\* The barrier at the sink: a window query has stored the state before.
LEMMA SinkBarrierOK ==
    ASSUME NEW s, NEW committed, Between(s, committed), NEW id \in Epoch,
           query = "window" /\ StatesAreStored => id \in DOMAIN s.ck.state
    PROVE  Between(SinkBarrier(s, id), committed)
  <1> DEFINE t == [s.task EXCEPT !.pc = "barrier", !.epoch = id]
             z == SinkBarrier(s, id)
  <1>1. DOMAIN z = {"task", "ck", "put"} /\ z.task = t /\ z.ck = s.ck /\ z.put = s.put
    BY DEF Between, SinkBarrier, IsUp, TaskFields
  <1>2. /\ DOMAIN t = TaskFields /\ t.pc = "barrier" /\ t.funnel = s.task.funnel
        /\ t.late = s.task.late /\ t.epoch = id
        /\ t.acc = s.task.acc /\ t.buffer = s.task.buffer
    BY DEF Between, IsUp, TaskFields
  <1> HIDE DEF t, z
  <1>3. IsUp(t)
    BY <1>2, Zenon DEF Between, IsUp, Points
  <1>4. Between(z, committed)
    BY <1>1, <1>2, <1>3, Zenon DEF Between
  <1>5. QED
    BY <1>4, Zenon DEF z

\* The barrier at the window: the state it stores is one that a restart can take,
\* and what it deletes is older than the committed epoch.
LEMMA WindowBarrierOK ==
    ASSUME SetLaws, NEW s, NEW committed, Between(s, committed), s.task.pc = "ready",
           NEW id \in Epoch
    PROVE  /\ Between(WindowBarrier(s, id), committed)
           /\ StatesAreStored => id \in DOMAIN WindowBarrier(s, id).ck.state
  <1> DEFINE old == s.ck.state
             stored == IF s.put THEN {id} ELSE {}
             gone == IF id - 2 < s.ck.committed.epoch THEN {id - 2} ELSE {}
             kept == (DOMAIN old \cup stored) \ gone
             state == [snapshot |-> Snapshot(s.task.acc, s.ck.chunks), late |-> s.task.late]
             new == [e \in kept |-> IF e \in stored THEN state ELSE old[e]]
             c == [s.ck EXCEPT !.state = new]
             z == WindowBarrier(s, id)
  <1>1. DOMAIN z = {"task", "ck", "put"} /\ z.task = s.task /\ z.ck = c /\ z.put = s.put
    BY DEF Between, WindowBarrier
  <1>2. StateOK(state)
    <2>1. GatherPartials(s.task.acc, s.ck.chunks) \in Bag
      BY GatherOK, Zenon DEF Between, IsUp, CkOK
    <2>2. state.snapshot.rows = GatherPartials(s.task.acc, s.ck.chunks) /\ state.late = s.task.late
      BY Zenon DEF Snapshot
    <2> HIDE DEF state
    <2>3. QED
      BY <2>1, <2>2, Zenon DEF StateOK, Between, IsUp
  <1>3. (StatesAreStored => id \in kept) /\ (committed.epoch \in DOMAIN old => committed.epoch \in kept)
    <2>1. id \in Int /\ committed.epoch \in Int
      BY RealtimeAssumption DEF Between, CkOK, CommittedOK, Epoch, None
    <2>2. id # id - 2 /\ (id - 2 < committed.epoch => committed.epoch # id - 2)
      BY <2>1
    <2>3. gone = (IF id - 2 < committed.epoch THEN {id - 2} ELSE {})
      BY Zenon DEF Between
    <2>4. StatesAreStored => stored = {id}
      BY Zenon DEF Between
    <2> HIDE DEF gone, old, stored
    <2>5. QED
      BY <2>2, <2>3, <2>4, Zenon
  <1>4. kept \subseteq Epoch
    <2> stored \subseteq Epoch
      BY Zenon
    <2> HIDE DEF gone, stored
    <2>1. QED
      BY Zenon DEF Between, CkOK
  <1> HIDE DEF state, kept, stored
  <1>5. DOMAIN new = kept /\ \A e \in kept : StateOK(new[e])
    <2>1. \A e \in kept : e \in stored \/ e \in DOMAIN old
      BY Zenon DEF kept
    <2>2. \A e \in DOMAIN old : StateOK(old[e])
      BY Zenon DEF Between, CkOK
    <2> HIDE DEF old
    <2>3. QED
      BY <1>2, <2>1, <2>2, Zenon
  <1> HIDE DEF new
  <1>6. /\ DOMAIN c = DOMAIN s.ck /\ c.staged = s.ck.staged /\ c.committed = s.ck.committed
        /\ c.done = s.ck.done /\ c.state = new /\ c.chunks = s.ck.chunks
    BY DEF Between, CkOK
  <1> HIDE DEF c, z
  <1>7. CkOK(c)
    BY <1>4, <1>5, <1>6, Zenon DEF Between, CkOK, StagedOK, CommittedOK
  <1>8. "ready" # "barrier"
    OBVIOUS
  <1>9. Between(z, committed) /\ (StatesAreStored => id \in DOMAIN z.ck.state)
    BY <1>1, <1>3, <1>5, <1>6, <1>7, <1>8, Zenon DEF Between
  <1>10. QED
    BY <1>9, Zenon DEF z

\* An event at the window or, in a query that copies its rows, at the sink.
LEMMA EventOK ==
    ASSUME SetLaws, NEW s, NEW committed, Between(s, committed), s.task.pc = "ready",
           NEW a, IsEvent(a)
    PROVE  /\ Between(Event(s, a), committed)
           /\ a.kind # "checkpoint" => Event(s, a).task.pc = "ready"
  <1>1. /\ "data" # "watermark" /\ "data" # "checkpoint" /\ "watermark" # "checkpoint"
        /\ "idle" # "data" /\ "idle" # "watermark" /\ "idle" # "checkpoint"
    OBVIOUS
  <1>2. AccOK(s.task.acc) /\ ChunksOK(s.ck.chunks) /\ s.task.late \subseteq Row
    BY Zenon DEF Between, IsUp, CkOK
  <1>3. CASE query = "window"
    <2>1. Event(s, a) = WindowEvent(s, a)
      BY <1>3, Zenon DEF Event
    <2>2. ASSUME NEW r \in Row, a.kind = "data" /\ a.row = r
          PROVE  Between(WindowEvent(s, a), committed) /\ WindowEvent(s, a).task.pc = "ready"
      <3> DEFINE l == IF WindowEnd(r) <= s.task.acc.wm THEN s.task.late \cup {r} ELSE s.task.late
                 t == [s EXCEPT !.task.late = l]
                 e == WindowData(s.task.acc, s.ck.chunks, r)
      <3>1. WindowEvent(s, a) = Buffered(t, e)
        <4>1. WindowEvent(s, a) =
                Buffered([s EXCEPT !.task.late =
                             IF WindowEnd(a.row) <= s.task.acc.wm THEN @ \cup {a.row} ELSE @],
                         WindowData(s.task.acc, s.ck.chunks, a.row))
          BY <2>2, Zenon DEF WindowEvent
        <4>2. [s EXCEPT !.task.late = IF WindowEnd(r) <= s.task.acc.wm THEN @ \cup {r} ELSE @] = t
          BY Zenon
        <4>3. QED
          BY <2>2, <4>1, <4>2, Zenon
      <3>2. l \subseteq Row
        BY <1>2, Zenon
      <3>3. t.task.pc = s.task.pc
        BY DEF Between, IsUp, TaskFields
      <3>4. EffectOK(e)
        BY <1>2, WindowDataOK, Zenon
      <3> HIDE DEF l
      <3>5. Between(t, committed)
        BY <3>2, LateOK, Zenon
      <3> HIDE DEF t, e
      <3>6. QED
        BY <3>1, <3>3, <3>4, <3>5, BufferedOK, Zenon
    <2>3. CASE a.kind = "watermark"
      <3>1. WindowEvent(s, a) = Buffered(s, WindowWatermark(s.task.acc, s.ck.chunks, a.time))
        BY <1>1, <2>3, Zenon DEF WindowEvent
      <3>2. EffectOK(WindowWatermark(s.task.acc, s.ck.chunks, a.time))
        BY <1>2, WindowWatermarkOK, Zenon
      <3>3. QED
        BY <2>1, <3>1, <3>2, BufferedOK, Zenon
    <2>4. ASSUME NEW id \in Epoch, a.kind = "checkpoint" /\ a.epoch = id
          PROVE  Between(WindowEvent(s, a), committed)
      <3>1. WindowEvent(s, a) = SinkBarrier(WindowBarrier(s, id), id)
        BY <1>1, <2>4, Zenon DEF WindowEvent
      <3>2. /\ Between(WindowBarrier(s, id), committed)
            /\ StatesAreStored => id \in DOMAIN WindowBarrier(s, id).ck.state
        BY WindowBarrierOK, Zenon
      <3>3. QED
        BY <3>1, <3>2, SinkBarrierOK, Zenon
    <2>5. CASE a.kind = "idle"
      <3>1. WindowEvent(s, a) = s
        BY <1>1, <2>5, Zenon DEF WindowEvent
      <3>2. QED
        BY <2>1, <3>1, Zenon
    <2>6. QED
      BY <2>1, <2>2, <2>3, <2>4, <2>5, EventKinds, Zenon
  <1>4. CASE query # "window"
    <2>1. Event(s, a) = MapEvent(s, a)
      BY <1>4, Zenon DEF Event
    <2>2. ASSUME NEW r \in Row, a.kind = "data" /\ a.row = r
          PROVE  Between(MapEvent(s, a), committed) /\ MapEvent(s, a).task.pc = "ready"
      <3> DEFINE t == [s.task EXCEPT !.buffer = Plus(@, OneRow(r))]
                 z == [s EXCEPT !.task.buffer = Plus(@, OneRow(r))]
      <3>1. MapEvent(s, a) = z
        BY <2>2, Zenon DEF MapEvent
      <3>2. DOMAIN z = {"task", "ck", "put"} /\ z.task = t /\ z.ck = s.ck /\ z.put = s.put
        BY DEF Between
      <3>3. /\ DOMAIN t = TaskFields /\ t.pc = s.task.pc /\ t.funnel = s.task.funnel
            /\ t.late = s.task.late /\ t.epoch = s.task.epoch
            /\ t.acc = s.task.acc /\ t.buffer = Plus(s.task.buffer, OneRow(r))
        BY DEF Between, IsUp, TaskFields
      <3> HIDE DEF t, z
      <3>4. IsUp(t)
        BY <3>3, BagLaws, Zenon DEF Between, IsUp
      <3>5. QED
        BY <1>4, <3>1, <3>2, <3>3, <3>4, Zenon DEF Between
    <2>3. CASE a.kind = "watermark" \/ a.kind = "idle"
      <3>1. MapEvent(s, a) = s
        BY <1>1, <2>3, Zenon DEF MapEvent
      <3>2. QED
        BY <2>1, <3>1, Zenon
    <2>4. ASSUME NEW id \in Epoch, a.kind = "checkpoint" /\ a.epoch = id
          PROVE  Between(MapEvent(s, a), committed)
      <3>1. MapEvent(s, a) = SinkBarrier(s, id)
        BY <1>1, <2>4, Zenon DEF MapEvent
      <3>2. QED
        BY <1>4, <3>1, SinkBarrierOK, Zenon
    <2>5. QED
      BY <2>1, <2>2, <2>3, <2>4, EventKinds, Zenon
  <1>5. QED
    BY <1>3, <1>4, Zenon

\* All that the funnel forwards for one event of an input.
LEMMA AfterEventsOK ==
    ASSUME SetLaws, NEW s, NEW committed, Between(s, committed), s.task.pc = "ready",
           NEW events, Forwarded(events)
    PROVE  Between(AfterEvents(s, events), committed)
  <1>1. CASE events = <<>>
    BY <1>1, FoldNone, Zenon
  <1>2. ASSUME NEW a, IsEvent(a), events = <<a>> PROVE Between(AfterEvents(s, events), committed)
    <2>1. AfterEvents(s, events) = Event(s, a)
      BY <1>2, FoldOne, Zenon
    <2>2. QED
      BY <1>2, <2>1, EventOK, Zenon
  <1>3. ASSUME NEW t, NEW e \in Epoch, events = <<Watermark(t), Checkpoint(e)>>
        PROVE  Between(AfterEvents(s, events), committed)
    <2>1. AfterEvents(s, events) = Event(Event(s, Watermark(t)), Checkpoint(e))
      <3> DEFINE a == Watermark(t)
                 b == Checkpoint(e)
      <3> HIDE DEF a, b
      <3>1. AfterEvents(s, <<a, b>>) = Event(Event(s, a), b)
        BY FoldTwo
      <3>2. QED
        BY <1>3, <3>1, Zenon DEF a, b
    <2>2. IsEvent(Watermark(t)) /\ IsEvent(Checkpoint(e))
      BY AreEvents, Zenon
    <2>3. Watermark(t).kind # "checkpoint"
      BY DEF Watermark
    <2>4. Between(Event(s, Watermark(t)), committed) /\ Event(s, Watermark(t)).task.pc = "ready"
      BY <2>2, <2>3, EventOK, Zenon
    <2>5. QED
      BY <2>1, <2>2, <2>4, EventOK, Zenon
  <1>4. QED
    BY <1>1, <1>2, <1>3, Zenon DEF Forwarded
-----------------------------------------------------------------------------
(* The steps of the readers.                                               *)

\* An offset that a reader stages.
LEMMA StageOK ==
    ASSUME NEW c, CkOK(c), NEW p \in Partition, NEW e \in Epoch, NEW offset \in 0 .. Len(Topic[p]),
           Stage(c, p, e, offset)
    PROVE  CkOK(ck') /\ ck'.state = c.state /\ ck'.committed = c.committed
  <1> DEFINE all == [c.staged EXCEPT ![p] = [c.staged[p] EXCEPT ![e] = offset]]
  <1> SUFFICES ASSUME ck' # c PROVE CkOK(ck') /\ ck'.state = c.state /\ ck'.committed = c.committed
    BY Zenon
  <1>1. /\ DOMAIN ck' = DOMAIN c /\ ck'.committed = c.committed /\ ck'.done = c.done
        /\ ck'.state = c.state /\ ck'.chunks = c.chunks /\ ck'.staged = all
    <2>1. ck' = [c EXCEPT !.staged[p][e] = offset]
      BY Zenon DEF Stage
    <2>2. QED
      BY <2>1 DEF CkOK
  <1>2. /\ all \in [Partition -> [Epoch -> Int]]
        /\ \A q \in Partition : \A n \in Epoch : all[q][n] \in {None} \cup 0 .. Len(Topic[q])
    <2>1. c.staged \in [Partition -> [Epoch -> Int]]
      BY Zenon DEF CkOK, StagedOK
    <2>2. \A q \in Partition : \A n \in Epoch : c.staged[q][n] \in {None} \cup 0 .. Len(Topic[q])
      BY Zenon DEF CkOK, StagedOK
    <2>3. Len(Topic[p]) \in Nat
      BY RealtimeAssumption
    <2>4. offset \in Int
      BY <2>3
    <2>5. all \in [Partition -> [Epoch -> Int]]
      BY <2>1, <2>4
    <2>6. ASSUME NEW q \in Partition, NEW n \in Epoch
          PROVE  all[q][n] \in {None} \cup 0 .. Len(Topic[q])
      <3>1. all[q][n] = IF q = p /\ n = e THEN offset ELSE c.staged[q][n]
        BY <2>1
      <3> HIDE DEF all
      <3>2. QED
        BY <2>2, <3>1, Zenon
    <2>7. QED
      BY <2>5, <2>6, Zenon
  <1> HIDE DEF all
  <1>3. StagedOK(ck')
    BY <1>1, <1>2, Zenon DEF StagedOK
  <1>4. QED
    BY <1>1, <1>3, Zenon DEF CkOK, CommittedOK

\* A reader touches neither the tasks nor the state of the window nor the commits.
LEMMA ReaderMoves ==
    ASSUME Inv, ReadersOK', ChannelsOK', CkOK(ck'), ck'.state = ck.state,
           ck'.committed = ck.committed, UNCHANGED <<task, store, log, pipeline>>
    PROVE  Inv'
  <1>1. task' = task /\ store' = store /\ log' = log /\ pipeline' = pipeline
    BY Zenon
  <1>2. TasksOK' /\ EpochIsStored'
    BY <1>1, Zenon DEF Inv, TasksOK, EpochIsStored, query
  <1>3. FilesOK' /\ CommittedIsStored'
    BY <1>1, Zenon DEF Inv, FilesOK, CommittedIsStored, CommittedStateIsKept, query
  <1>4. QED
    BY <1>1, <1>2, <1>3, Zenon DEF Inv

\* A reader that is up.
LEMMA ReaderIsUp ==
    ASSUME Inv, NEW p \in Partition, reader[p].up
    PROVE  /\ DOMAIN reader = Partition /\ DOMAIN reader[p] = ReaderFields
           /\ reader[p].next \in 0 .. Len(Topic[p]) /\ reader[p].epoch \in 0 .. MaxEpoch + 1
           /\ reader[p].builder \in Seq(Row) /\ Len(reader[p].builder) < MaxBatch
  <1>1. ~NoReader.up
    BY DEF NoReader
  <1>2. QED
    BY <1>1, Zenon DEF Inv, ReadersOK, ReaderOK

\* One reader changes, and the others do not.
LEMMA ReaderChanges ==
    ASSUME Inv, NEW p \in Partition, NEW r, ReaderOK(p, r), reader' = [reader EXCEPT ![p] = r]
    PROVE  ReadersOK'
  <1>1. DOMAIN reader = Partition /\ \A q \in Partition : ReaderOK(q, reader[q])
    BY Zenon DEF Inv, ReadersOK
  <1>2. DOMAIN reader' = Partition /\ \A q \in Partition : ReaderOK(q, reader'[q])
    BY <1>1, Zenon
  <1>3. QED
    BY <1>2, Zenon DEF ReadersOK, ReaderOK

\* A reader starts at the committed offset, in the epoch after the committed one.
LEMMA StartReaderKeeps ==
    ASSUME Inv, NEW p \in Partition, StartReader(p)
    PROVE  Inv'
  <1> DEFINE start == Later(0, ck.committed.offsets[p])
             e == ck.committed.epoch + 1
             r == [up |-> TRUE, next |-> start, epoch |-> e,
                   builder |-> <<>>, idle |-> FALSE, wm |-> NewWatermark]
             marked(put) == [ck EXCEPT !.expected = @ \/ put]
  <1>1. /\ reader' = [reader EXCEPT ![p] = r] /\ \E put \in Puts("expected") : Stage(marked(put), p, e, start)
        /\ ck.committed.epoch < MaxEpoch
        /\ chan' = chan /\ UNCHANGED <<task, store, log, pipeline>>
    BY Zenon DEF StartReader
  <1>2. start \in 0 .. Len(Topic[p]) /\ ck.committed.epoch \in Epoch \cup {None}
    <2>1. /\ ck.committed.offsets[p] \in {None} \cup 0 .. Len(Topic[p])
          /\ ck.committed.epoch \in Epoch \cup {None}
      BY Zenon DEF Inv, CkOK, CommittedOK
    <2>2. ASSUME NEW n \in Nat, NEW x \in {None} \cup 0 .. n PROVE Later(0, x) \in 0 .. n
      BY <2>2 DEF Later, None
    <2>3. Len(Topic[p]) \in Nat
      BY RealtimeAssumption
    <2>4. QED
      BY <2>1, <2>2, <2>3, Zenon
  <1>3. e \in Epoch /\ e \in 0 .. MaxEpoch + 1
    <2>1. MaxEpoch \in Nat
      BY RealtimeAssumption, Zenon
    <2>2. ASSUME NEW n \in Nat, NEW c \in 0 .. n \cup {-1}, c < n PROVE c + 1 \in 0 .. n
      BY <2>2
    <2>3. ck.committed.epoch + 1 \in 0 .. MaxEpoch
      BY <1>1, <1>2, <2>1, <2>2, Zenon DEF Epoch, None
    <2> HIDE DEF e
    <2>4. \A x \in 0 .. MaxEpoch : x \in 0 .. MaxEpoch + 1
      BY <2>1
    <2>5. QED
      BY <2>3, <2>4, Zenon DEF e, Epoch
  <1>4. ReaderOK(p, r)
    <2>1. /\ DOMAIN r = ReaderFields /\ r.next = start /\ r.epoch = e
          /\ r.builder = <<>>
      BY DEF ReaderFields
    <2>2. <<>> \in Seq(Row) /\ Len(<<>>) < MaxBatch
      BY RealtimeAssumption
    <2> HIDE DEF r, e, start
    <2>3. QED
      BY <1>2, <1>3, <2>1, <2>2, Zenon DEF ReaderOK
  <1> HIDE DEF r, e, start
  <1>5. ReadersOK'
    BY <1>1, <1>4, ReaderChanges, Zenon
  <1>6. ChannelsOK'
    BY <1>1, Zenon DEF Inv, ChannelsOK
  <1>7. CkOK(ck') /\ ck'.state = ck.state /\ ck'.committed = ck.committed
    <2>1. PICK put \in Puts("expected") : Stage(marked(put), p, e, start)
      BY <1>1, Zenon
    <2>2. CkOK(ck)
      BY Zenon DEF Inv
    <2>3. /\ DOMAIN marked(put) = DOMAIN ck /\ marked(put).committed = ck.committed /\ marked(put).done = ck.done
          /\ marked(put).state = ck.state /\ marked(put).chunks = ck.chunks /\ marked(put).staged = ck.staged
      BY <2>2 DEF CkOK
    <2> HIDE DEF marked
    <2>4. CkOK(marked(put))
      BY <2>2, <2>3, Zenon DEF CkOK, StagedOK, CommittedOK
    <2>5. QED
      BY <1>2, <1>3, <2>1, <2>3, <2>4, StageOK, Zenon
  <1>8. QED
    BY <1>1, <1>5, <1>6, <1>7, ReaderMoves, Zenon

\* A stream of events, also as one with more watermarks.
IsStream(q) == \E T : q \in Seq(Events(T))

\* A sequence of events is one with more watermarks.
LEMMA MoreWatermarks ==
    ASSUME NEW T, NEW U, T \subseteq U
    PROVE  Seq(Events(T)) \subseteq Seq(Events(U))
  <1>1. Events(T) \subseteq Events(U)
    BY Zenon DEF Events
  <1>2. ASSUME NEW S, NEW R, S \subseteq R PROVE Seq(S) \subseteq Seq(R)
    BY <1>2
  <1>3. QED
    BY <1>1, <1>2, Zenon

\* A stream after a stream is a stream.
LEMMA StreamsJoin ==
    ASSUME NEW q, NEW r, IsStream(q), IsStream(r)
    PROVE  IsStream(q \o r)
  <1>1. PICK T, U : q \in Seq(Events(T)) /\ r \in Seq(Events(U))
    BY Zenon DEF IsStream
  <1> DEFINE V == T \cup U
             S == Events(V)
  <1>2. T \subseteq V /\ U \subseteq V
    BY Zenon
  <1> HIDE DEF V
  <1>3. q \in Seq(S) /\ r \in Seq(S)
    BY <1>1, <1>2, MoreWatermarks, Zenon
  <1> HIDE DEF S
  <1>4. q \o r \in Seq(S)
    BY <1>3
  <1>5. QED
    BY <1>4, Zenon DEF IsStream, S

\* No event, and one event, are streams.
LEMMA ShortStreams ==
    IsStream(<<>>) /\ \A a : IsEvent(a) => IsStream(<<a>>)
  <1>1. ASSUME NEW S PROVE <<>> \in Seq(S) /\ \A a \in S : <<a>> \in Seq(S)
    OBVIOUS
  <1>2. QED
    BY <1>1, Zenon DEF IsStream, IsEvent

\* What the watermark generator makes of a batch is a stream.
LEMMA GeneratedIsStream ==
    ASSUME NEW wm, NEW rows \in Seq(Row), NEW emit
    PROVE  IsStream(Generated(wm, rows, emit).events)
  <1> DEFINE data == [i \in DOMAIN rows |-> Data(rows[i])]
  <1>1. \/ Generated(wm, rows, emit).events = data \o <<>>
        \/ \E t : Generated(wm, rows, emit).events = data \o <<Watermark(t)>>
    BY Zenon DEF Generated, InOrder, MapThenFoldSet
  <1>2. IsStream(data)
    <2>1. \A i \in DOMAIN rows : Data(rows[i]) \in Events({})
      <3>1. \A i \in DOMAIN rows : rows[i] \in Row
        OBVIOUS
      <3>2. QED
        BY <3>1, Zenon DEF Events
    <2> DEFINE S == Events({})
               D(x) == Data(x)
    <2> HIDE DEF S, D
    <2>2. [i \in DOMAIN rows |-> D(rows[i])] \in Seq(S)
      <3>1. \A i \in DOMAIN rows : D(rows[i]) \in S
        BY <2>1, Zenon DEF S, D
      <3>2. QED
        BY <3>1
    <2>3. QED
      BY <2>2, Zenon DEF S, D, IsStream
  <1> HIDE DEF data
  <1>3. IsStream(<<>>) /\ \A t : IsStream(<<Watermark(t)>>)
    BY AreEvents, ShortStreams, Zenon
  <1>4. QED
    BY <1>1, <1>2, <1>3, StreamsJoin, Zenon

\* What goes to one channel, if it is a stream, keeps the channels.
LEMMA ChannelChanges ==
    ASSUME ChannelsOK, NEW p \in Partition, NEW q, IsStream(q), chan' = [chan EXCEPT ![p] = q]
    PROVE  ChannelsOK'
  <1>1. PICK T : chan \in [Partition -> Seq(Events(T))]
    BY Zenon DEF ChannelsOK
  <1>2. PICK U : q \in Seq(Events(U))
    BY Zenon DEF IsStream
  <1> DEFINE V == T \cup U
             S == Seq(Events(V))
  <1>3. T \subseteq V /\ U \subseteq V
    BY Zenon
  <1> HIDE DEF V
  <1>4. q \in S /\ Seq(Events(T)) \subseteq S
    BY <1>2, <1>3, MoreWatermarks, Zenon
  <1> HIDE DEF S
  <1>5. chan' \in [Partition -> S]
    BY <1>1, <1>4
  <1>6. QED
    BY <1>5, Zenon DEF ChannelsOK, S, Events

\* A channel holds a stream.
LEMMA ChannelIsStream ==
    ASSUME ChannelsOK, NEW p \in Partition
    PROVE  IsStream(chan[p])
  BY Zenon DEF ChannelsOK, IsStream

\* A reader sends its batch and a marker.
LEMMA SendKeeps ==
    ASSUME Inv, NEW p \in Partition, NEW emit, NEW rows \in Seq(Row), NEW marker, IsStream(marker),
           NEW after, DOMAIN after = ReaderFields, after.next \in 0 .. Len(Topic[p]),
           after.epoch \in 0 .. MaxEpoch + 1, Send(p, emit, rows, marker, after)
    PROVE  ReadersOK' /\ ChannelsOK'
  <1> DEFINE g == Generated(reader[p].wm, rows, emit)
             r == [after EXCEPT !.builder = <<>>, !.wm = g.wm]
             q == chan[p] \o g.events \o marker
  <1>1. reader' = [reader EXCEPT ![p] = r] /\ chan' = [chan EXCEPT ![p] = q]
    BY Zenon DEF Send
  <1>2. IsStream(g.events)
    BY GeneratedIsStream, Zenon
  <1> HIDE DEF g
  <1>3. ReaderOK(p, r)
    <2>1. /\ DOMAIN r = ReaderFields /\ r.next = after.next /\ r.epoch = after.epoch
          /\ r.builder = <<>>
      BY DEF ReaderFields
    <2>2. <<>> \in Seq(Row) /\ Len(<<>>) < MaxBatch
      BY RealtimeAssumption
    <2> HIDE DEF r
    <2>3. QED
      BY <2>1, <2>2, Zenon DEF ReaderOK
  <1>4. IsStream(q)
    <2>1. IsStream(chan[p])
      BY ChannelIsStream, Zenon DEF Inv
    <2>2. IsStream(chan[p] \o g.events)
      BY <1>2, <2>1, StreamsJoin, Zenon
    <2>3. QED
      BY <2>2, StreamsJoin, Zenon
  <1> HIDE DEF r, q
  <1>5. ReadersOK'
    BY <1>1, <1>3, ReaderChanges, Zenon
  <1>6. ChannelsOK'
    BY <1>1, <1>4, ChannelChanges, Zenon DEF Inv
  <1>7. QED
    BY <1>5, <1>6, Zenon

\* A message goes to the builder, and a full builder is sent.
LEMMA ReadMessageKeeps ==
    ASSUME Inv, NEW p \in Partition, NEW emit, ReadMessage(p, emit)
    PROVE  Inv'
  <1> DEFINE rows == Append(reader[p].builder, Topic[p][reader[p].next + 1])
             after == [reader[p] EXCEPT !.next = @ + 1, !.builder = rows, !.idle = FALSE]
  <1>1. /\ reader[p].up /\ reader[p].next < Len(Topic[p])
        /\ UNCHANGED <<task, store, log, pipeline>> /\ ck' = ck
        /\ \/ Send(p, emit, rows, <<>>, after)
           \/ ~(Len(rows) >= MaxBatch) /\ reader' = [reader EXCEPT ![p] = after] /\ chan' = chan
    BY Zenon DEF ReadMessage, CanSend
  <1>2. /\ DOMAIN reader[p] = ReaderFields /\ reader[p].next \in 0 .. Len(Topic[p])
        /\ reader[p].epoch \in 0 .. MaxEpoch + 1 /\ reader[p].builder \in Seq(Row)
    BY <1>1, ReaderIsUp, Zenon
  <1>3. Topic[p] \in Seq(Row) /\ MaxBatch \in Nat
    BY RealtimeAssumption
  <1>4. rows \in Seq(Row) /\ reader[p].next + 1 \in 0 .. Len(Topic[p])
    BY <1>1, <1>2, <1>3
  <1> HIDE DEF rows
  <1>5. /\ DOMAIN after = ReaderFields /\ after.next = reader[p].next + 1
        /\ after.epoch = reader[p].epoch /\ after.builder = rows
    <2> DEFINE old == reader[p]
    <2>1. DOMAIN old = {"up", "next", "epoch", "builder", "idle", "wm"}
      BY <1>2, Zenon DEF ReaderFields
    <2>2. after = [old EXCEPT !.next = @ + 1, !.builder = rows, !.idle = FALSE]
      BY Zenon
    <2> HIDE DEF old, after
    <2>3. DOMAIN after = DOMAIN old
      BY <2>2, Zenon
    <2>4. after.next = old.next + 1 /\ after.epoch = old.epoch /\ after.builder = rows
      BY <2>1, <2>2
    <2>5. QED
      BY <2>1, <2>3, <2>4, Zenon DEF ReaderFields, old
  <1> HIDE DEF after
  <1>6. ReadersOK' /\ ChannelsOK'
    <2>1. CASE Send(p, emit, rows, <<>>, after)
      BY <1>2, <1>4, <1>5, <2>1, SendKeeps, ShortStreams, Zenon
    <2>2. CASE ~(Len(rows) >= MaxBatch) /\ reader' = [reader EXCEPT ![p] = after] /\ chan' = chan
      <3>1. Len(rows) < MaxBatch
        BY <1>3, <1>4, <2>2
      <3>2. ReaderOK(p, after)
        BY <1>2, <1>4, <1>5, <3>1, Zenon DEF ReaderOK
      <3>3. ReadersOK'
        BY <2>2, <3>2, ReaderChanges, Zenon
      <3>4. ChannelsOK'
        BY <2>2, Zenon DEF Inv, ChannelsOK
      <3>5. QED
        BY <3>3, <3>4, Zenon
    <2>3. QED
      BY <1>1, <2>1, <2>2, Zenon
  <1>7. CkOK(ck') /\ ck'.state = ck.state /\ ck'.committed = ck.committed
    BY <1>1, Zenon DEF Inv
  <1>8. QED
    BY <1>1, <1>6, <1>7, ReaderMoves, Zenon

\* flush_timer.
LEMMA FlushKeeps ==
    ASSUME Inv, NEW p \in Partition, NEW emit, Flush(p, emit)
    PROVE  Inv'
  <1>1. /\ reader[p].up /\ Send(p, emit, reader[p].builder, <<>>, reader[p])
        /\ UNCHANGED <<task, store, log, pipeline>> /\ ck' = ck
    BY Zenon DEF Flush, CanSend
  <1>2. ReadersOK' /\ ChannelsOK'
    BY <1>1, ReaderIsUp, SendKeeps, ShortStreams, Zenon
  <1>3. CkOK(ck') /\ ck'.state = ck.state /\ ck'.committed = ck.committed
    BY <1>1, Zenon DEF Inv
  <1>4. QED
    BY <1>1, <1>2, <1>3, ReaderMoves, Zenon

\* The timer of the barriers: the epoch that goes out is within the bound.
LEMMA TickKeeps ==
    ASSUME Inv, NEW p \in Partition, NEW emit, Tick(p, emit)
    PROVE  Inv'
  <1> DEFINE e == reader[p].epoch
             after == [reader[p] EXCEPT !.epoch = @ + 1]
  <1>1. /\ reader[p].up /\ e <= MaxEpoch
        /\ Send(p, emit, reader[p].builder, <<Checkpoint(e)>>, after)
        /\ Stage(ck, p, e, reader[p].next) /\ UNCHANGED <<task, store, log, pipeline>>
    BY Zenon DEF Tick, CanSend
  <1>2. /\ DOMAIN reader[p] = ReaderFields /\ reader[p].next \in 0 .. Len(Topic[p])
        /\ e \in 0 .. MaxEpoch + 1 /\ reader[p].builder \in Seq(Row)
    BY <1>1, ReaderIsUp, Zenon
  <1>3. e \in Epoch /\ e + 1 \in 0 .. MaxEpoch + 1
    <2>1. MaxEpoch \in Nat /\ e \in 0 .. MaxEpoch + 1 /\ e <= MaxEpoch
      BY <1>1, <1>2, RealtimeAssumption, Zenon
    <2> HIDE DEF e
    <2>2. QED
      BY <2>1 DEF Epoch
  <1>4. /\ DOMAIN after = ReaderFields /\ after.next = reader[p].next /\ after.epoch = e + 1
    BY <1>2 DEF ReaderFields
  <1> HIDE DEF after, e
  <1>5. IsStream(<<Checkpoint(e)>>)
    BY <1>3, AreEvents, ShortStreams, Zenon
  <1>6. ReadersOK' /\ ChannelsOK'
    BY <1>1, <1>2, <1>3, <1>4, <1>5, SendKeeps, Zenon
  <1>7. CkOK(ck)
    BY Zenon DEF Inv
  <1>8. CkOK(ck') /\ ck'.state = ck.state /\ ck'.committed = ck.committed
    BY <1>1, <1>2, <1>3, <1>7, StageOK, Zenon
  <1>9. QED
    BY <1>1, <1>6, <1>8, ReaderMoves, Zenon

\* PartitionEOF.
LEMMA CaughtUpKeeps ==
    ASSUME Inv, NEW p \in Partition, CaughtUp(p)
    PROVE  Inv'
  <1> DEFINE after == [reader[p] EXCEPT !.idle = TRUE]
  <1>1. /\ reader[p].up /\ UNCHANGED <<task, store, log, pipeline>> /\ ck' = ck
        /\ \E emit : Send(p, emit, reader[p].builder, <<Idle>>, after)
    BY Zenon DEF CaughtUp, CanSend, InOrder, MapThenFoldSet
  <1>2. /\ DOMAIN reader[p] = ReaderFields /\ reader[p].next \in 0 .. Len(Topic[p])
        /\ reader[p].epoch \in 0 .. MaxEpoch + 1 /\ reader[p].builder \in Seq(Row)
    BY <1>1, ReaderIsUp, Zenon
  <1>3. /\ DOMAIN after = ReaderFields /\ after.next = reader[p].next
        /\ after.epoch = reader[p].epoch
    BY <1>2 DEF ReaderFields
  <1> HIDE DEF after
  <1>4. IsStream(<<Idle>>)
    BY AreEvents, ShortStreams, Zenon
  <1>5. ReadersOK' /\ ChannelsOK'
    BY <1>1, <1>2, <1>3, <1>4, SendKeeps, Zenon
  <1>6. CkOK(ck') /\ ck'.state = ck.state /\ ck'.committed = ck.committed
    BY <1>1, Zenon DEF Inv
  <1>7. QED
    BY <1>1, <1>5, <1>6, ReaderMoves, Zenon
-----------------------------------------------------------------------------
(* The steps of the tasks.                                                 *)

\* A window query has the one task.
LEMMA TaskMoves ==
    ASSUME Inv, NEW i \in Partition, task[i] # NoTask, NEW t, IsUp(t), task' = [task EXCEPT ![i] = t],
           query = "window" /\ StatesAreStored /\ t.pc \in Committing => t.epoch \in DOMAIN ck'.state,
           UNCHANGED <<reader, pipeline>>, ChannelsOK', CkOK(ck'), FilesOK', CommittedIsStored'
    PROVE  Inv'
  <1>1. reader' = reader /\ pipeline' = pipeline /\ query' = query
    BY Zenon DEF query
  <1>2. /\ DOMAIN task = Partition /\ \A j \in Partition : task[j] = NoTask \/ IsUp(task[j])
        /\ query = "window" => \A j \in Partition : j # First => task[j] = NoTask
    BY Zenon DEF Inv, TasksOK
  <1>3. DOMAIN task' = Partition /\ \A j \in Partition : task'[j] = IF j = i THEN t ELSE task[j]
    BY <1>2, Zenon
  <1>4. \A j \in Partition : task'[j] = NoTask \/ IsUp(task'[j])
    BY <1>2, <1>3, Zenon
  <1>5. query = "window" => i = First /\ \A j \in Partition : j # First => task'[j] = NoTask
    BY <1>2, <1>3, Zenon
  <1>6. TasksOK'
    BY <1>1, <1>3, <1>4, <1>5, Zenon DEF TasksOK, IsUp, FunnelOK, AccOK
  <1>7. NoTask.pc \notin Committing
    BY DEF NoTask, Committing
  <1>8. EpochIsStored'
    BY <1>1, <1>3, <1>5, <1>7, Zenon DEF EpochIsStored
  <1>9. ReadersOK'
    BY <1>1, Zenon DEF Inv, ReadersOK
  <1>10. QED
    BY <1>1, <1>6, <1>8, <1>9, Zenon DEF Inv

\* A task that only goes to another point.
LEMMA TaskGoes ==
    ASSUME NEW t, IsUp(t), NEW pc \in Points, pc \in Committing => t.pc \in Committing
    PROVE  LET u == [t EXCEPT !.pc = pc] IN IsUp(u) /\ u.pc = pc /\ u.epoch = t.epoch
  <1> DEFINE u == [t EXCEPT !.pc = pc]
  <1>1. /\ DOMAIN u = TaskFields /\ u.pc = pc /\ u.funnel = t.funnel /\ u.acc = t.acc
        /\ u.late = t.late /\ u.buffer = t.buffer /\ u.epoch = t.epoch
    BY DEF IsUp, TaskFields
  <1> HIDE DEF u
  <1>2. IsUp(u)
    BY <1>1, Zenon DEF IsUp
  <1>3. QED
    BY <1>1, <1>2, Zenon DEF u

\* A task that has finished an epoch is ready, with nothing in its buffer.
LEMMA TaskFinishes ==
    ASSUME NEW t, IsUp(t)
    PROVE  LET u == [t EXCEPT !.pc = "ready", !.buffer = NoRows] IN IsUp(u) /\ u.pc = "ready"
  <1> DEFINE u == [t EXCEPT !.pc = "ready", !.buffer = NoRows]
  <1>1. /\ DOMAIN u = TaskFields /\ u.pc = "ready" /\ u.funnel = t.funnel /\ u.acc = t.acc
        /\ u.late = t.late /\ u.buffer = NoRows
    BY DEF IsUp, TaskFields
  <1>2. "ready" \in Points /\ "ready" \notin Committing
    BY DEF Points, Committing
  <1> HIDE DEF u
  <1>3. IsUp(u)
    BY <1>1, <1>2, BagLaws, Zenon DEF IsUp
  <1>4. QED
    BY <1>1, <1>3, Zenon DEF u

\* The task of an action: it is up.
LEMMA TaskIsUp ==
    ASSUME Inv, NEW i \in Partition, task[i].pc \in Points
    PROVE  task[i] # NoTask /\ IsUp(task[i]) /\ DOMAIN task = Partition
  <1>1. NoTask.pc \notin Points
    BY DEF NoTask, Points
  <1>2. QED
    BY <1>1, Zenon DEF Inv, TasksOK

\* A task that goes on in an epoch, or is ready again, while the store of the
\* checkpoints keeps its state.
LEMMA GotoKeeps ==
    ASSUME Inv, NEW i \in Partition, NEW pc \in Points, task[i].pc \in Points,
           pc \in Committing => task[i].pc \in Committing, Goto(i, pc),
           UNCHANGED <<reader, chan, pipeline>>, FilesOK',
           CkOK(ck'), ck'.state = ck.state, ck'.committed = ck.committed
    PROVE  Inv'
  <1> DEFINE t == [task[i] EXCEPT !.pc = pc]
  <1>1. task[i] # NoTask /\ IsUp(task[i]) /\ DOMAIN task = Partition
    BY TaskIsUp, Zenon
  <1>2. task' = [task EXCEPT ![i] = t]
    BY Zenon DEF Goto
  <1>3. IsUp(t) /\ t.pc = pc /\ t.epoch = task[i].epoch
    BY <1>1, TaskGoes, Zenon
  <1> HIDE DEF t
  <1>4. query = "window" /\ StatesAreStored /\ t.pc \in Committing => t.epoch \in DOMAIN ck'.state
    BY <1>3, Zenon DEF Inv, EpochIsStored
  <1>5. ChannelsOK' /\ CommittedIsStored'
    BY Zenon DEF Inv, ChannelsOK, CommittedIsStored, CommittedStateIsKept, query
  <1>6. UNCHANGED <<reader, pipeline>>
    BY Zenon
  <1>7. QED
    BY <1>1, <1>2, <1>3, <1>4, <1>5, <1>6, TaskMoves, Zenon

\* A task that has finished an epoch is in no epoch that needs a stored state.
LEMMA FinishedKeeps ==
    ASSUME Inv, NEW i \in Partition, task[i].pc \in Points, Finished(i),
           UNCHANGED <<reader, chan, pipeline>>, FilesOK', CkOK(ck'), CommittedIsStored'
    PROVE  Inv'
  <1> DEFINE t == [task[i] EXCEPT !.pc = "ready", !.buffer = NoRows]
  <1>1. task[i] # NoTask /\ IsUp(task[i]) /\ DOMAIN task = Partition
    BY TaskIsUp, Zenon
  <1>2. task' = [task EXCEPT ![i] = t]
    BY <1>1, Zenon DEF Finished
  <1>3. IsUp(t) /\ t.pc = "ready" /\ "ready" \notin Committing
    BY <1>1, TaskFinishes, Zenon DEF Committing
  <1> HIDE DEF t
  <1>4. ChannelsOK'
    BY Zenon DEF Inv, ChannelsOK
  <1>5. UNCHANGED <<reader, pipeline>>
    BY Zenon
  <1>6. QED
    BY <1>1, <1>2, <1>3, <1>4, <1>5, TaskMoves, Zenon

\* The window is restored from a stored state, or from none.
LEMMA RestoreOK ==
    ASSUME NEW s, s.rows \in Bag
    PROVE  AccOK(Restore(s))
  <1> DEFINE a == Restore(s)
  <1>1. /\ DOMAIN a = DOMAIN AccumState /\ a.pending = s.rows /\ a.spilled = {} /\ a.nextSpill = 0
    BY DEF Restore, AccumState
  <1> HIDE DEF a
  <1>2. AccOK(a)
    BY <1>1 DEF AccOK
  <1>3. QED
    BY <1>2, Zenon DEF a

\* The state that a restart takes is well-formed.
LEMMA RestoredStateOK ==
    ASSUME CkOK(ck)
    PROVE  StateOK(RestoreEpochState)
  <1>1. StateOK(NoState)
    <2>1. NoState.snapshot.rows = NoRows /\ NoState.late = {}
      BY DEF NoState, NoSnapshot
    <2>2. QED
      BY <2>1, BagLaws, Zenon DEF StateOK
  <1>2. QED
    BY <1>1, Zenon DEF RestoreEpochState, CkOK

\* A task at the start is in no epoch.
LEMMA NewTaskOK ==
    ASSUME CkOK(ck), NEW i
    PROVE  IsUp(NewTask(i)) /\ NewTask(i).pc \notin Committing
  <1> DEFINE t == NewTask(i)
             pc == IF i = First THEN "truncating" ELSE "ready"
             s == RestoreEpochState
  <1>1. s.snapshot.rows \in Bag /\ s.late \subseteq Row
    BY RestoredStateOK, Zenon DEF StateOK
  <1>2. pc \in Points /\ pc \notin Committing
    <2>1. /\ "truncating" \in Points /\ "truncating" \notin Committing
          /\ "ready" \in Points /\ "ready" \notin Committing
      BY DEF Points, Committing
    <2>2. QED
      BY <2>1, Zenon
  <1> HIDE DEF pc, s
  <1>3. /\ DOMAIN t = TaskFields /\ t.pc = pc /\ t.funnel = NewFunnel /\ t.acc = Restore(s.snapshot)
        /\ t.late = s.late /\ t.buffer = NoRows
    <2>1. t = [pc |-> pc, funnel |-> NewFunnel, acc |-> Restore(s.snapshot), late |-> s.late,
               buffer |-> NoRows, epoch |-> None]
      BY Zenon DEF NewTask, pc, s
    <2> HIDE DEF t
    <2>2. QED
      BY <2>1 DEF TaskFields
  <1> HIDE DEF t
  <1>4. AccOK(Restore(s.snapshot))
    BY <1>1, RestoreOK, Zenon
  <1>5. IsUp(t) /\ t.pc \notin Committing
    BY <1>1, <1>2, <1>3, <1>4, BagLaws, NewFunnelOK, Zenon DEF IsUp
  <1>6. QED
    BY <1>5, Zenon DEF t

\* The process is started: a window query starts the one task.
LEMMA StartKeeps ==
    ASSUME Inv, Start
    PROVE  Inv'
  <1>1. /\ task' = [i \in Partition |-> IF i \in Sinks THEN NewTask(i) ELSE NoTask]
        /\ UNCHANGED <<reader, chan, ck, store, log, pipeline>>
    BY Zenon DEF Start
  <1>2. CkOK(ck)
    BY Zenon DEF Inv
  <1>3. \A i \in Partition : IsUp(NewTask(i)) /\ NewTask(i).pc \notin Committing
    BY <1>2, NewTaskOK, Zenon
  <1>4. query = "window" => Sinks = {First}
    <2>1. pipeline \in {<<"window", "align">>, <<"window", "merge">>, <<"map", "parallel">>}
      BY RealtimeAssumption, Zenon DEF Inv
    <2>2. query = "window" => funnel # "parallel"
      BY <2>1 DEF query, funnel
    <2>3. QED
      BY <2>2, Zenon DEF Sinks
  <1>5. /\ DOMAIN task' = Partition
        /\ \A i \in Partition : task'[i] = NoTask \/ (IsUp(task'[i]) /\ task'[i].pc \notin Committing)
        /\ query = "window" => \A i \in Partition : i # First => task'[i] = NoTask
    BY <1>1, <1>3, <1>4, Zenon
  <1>6. query' = query
    BY <1>1, Zenon DEF query
  <1>7. NoTask.pc \notin Committing
    BY DEF NoTask, Committing
  <1>8. TasksOK' /\ EpochIsStored'
    BY <1>5, <1>6, <1>7, Zenon DEF TasksOK, EpochIsStored, IsUp, FunnelOK, AccOK
  <1>9. QED
    BY <1>1, <1>6, <1>8, Zenon DEF Inv, ReadersOK, ChannelsOK, CkOK, StagedOK, CommittedOK, FilesOK,
          CommittedIsStored, CommittedStateIsKept

\* The process is killed: what is stored stays.
LEMMA CrashKeeps ==
    ASSUME Inv, Crash
    PROVE  Inv'
  <1>1. /\ reader' = [p \in Partition |-> NoReader] /\ chan' = [p \in Partition |-> <<>>]
        /\ task' = [i \in Partition |-> NoTask]
        /\ UNCHANGED <<ck, store, log, pipeline>>
    BY Zenon DEF Crash
  <1>2. query' = query
    BY <1>1, Zenon DEF query
  <1>3. ReadersOK' /\ TasksOK'
    BY <1>1, Zenon DEF ReadersOK, ReaderOK, TasksOK
  <1>4. ChannelsOK'
    <2>1. chan' \in [Partition -> Seq(Events({}))]
      <3>1. \A S : <<>> \in Seq(S)
        OBVIOUS
      <3>2. QED
        BY <1>1, <3>1, Zenon
    <2>2. QED
      BY <2>1, Zenon DEF ChannelsOK
  <1>5. NoTask.pc \notin Committing
    BY DEF NoTask, Committing
  <1>6. EpochIsStored'
    BY <1>1, <1>5, Zenon DEF EpochIsStored
  <1>7. QED
    BY <1>1, <1>2, <1>3, <1>4, <1>6, Zenon DEF Inv, CkOK, StagedOK, CommittedOK, FilesOK,
          CommittedIsStored, CommittedStateIsKept

\* The points of the task: those of an epoch, and the others.
LEMMA PointsAre ==
    /\ Committing \subseteq Points
    /\ {"truncating", "deleting", "ready"} \subseteq Points \ Committing
    /\ {"barrier", "written", "marked", "complete", "visible"} \subseteq Committing
  BY DEF Points, Committing

\* What does not touch the checkpoint store.
LEMMA StoreStays ==
    ASSUME Inv, UNCHANGED <<ck, pipeline>>
    PROVE  /\ CkOK(ck') /\ ck'.state = ck.state /\ ck'.committed = ck.committed
           /\ CommittedIsStored'
  BY Zenon DEF Inv, CommittedIsStored, CommittedStateIsKept, query

\* truncate_after on the log.
LEMMA TruncateKeeps ==
    ASSUME Inv, NEW i \in Partition, Truncate(i)
    PROVE  Inv'
  <1>1. /\ task[i].pc = "truncating" /\ UNCHANGED <<reader, chan, pipeline>> /\ UNCHANGED <<ck, pipeline>>
        /\ store' = store
        /\ \/ Goto(i, "ready") /\ log' = log
           \/ Goto(i, "deleting") /\ log' = TruncateLog(log, ck.committed.epoch)
    BY Zenon DEF Truncate
  <1>2. DOMAIN log' \subseteq DOMAIN log
    BY <1>1, Zenon DEF TruncateLog
  <1>3. FilesOK'
    BY <1>1, <1>2, Zenon DEF Inv, FilesOK
  <1>4. /\ task[i].pc \in Points /\ "ready" \in Points /\ "deleting" \in Points
        /\ "ready" \notin Committing /\ "deleting" \notin Committing
    BY <1>1, PointsAre, Zenon
  <1>5. CkOK(ck') /\ ck'.state = ck.state /\ ck'.committed = ck.committed
    BY <1>1, StoreStays, Zenon
  <1>6. QED
    BY <1>1, <1>3, <1>4, <1>5, GotoKeeps, Zenon

\* truncate_after on the data files.
LEMMA DeleteFilesKeeps ==
    ASSUME Inv, NEW i \in Partition, DeleteFiles(i)
    PROVE  Inv'
  <1>1. /\ task[i].pc = "deleting" /\ UNCHANGED <<reader, chan, pipeline>> /\ UNCHANGED <<ck, pipeline>>
        /\ store' = TruncateFiles(store, ck.committed.epoch) /\ log' = log /\ Goto(i, "ready")
    BY Zenon DEF DeleteFiles
  <1>2. FilesOK'
    BY <1>1, Zenon DEF Inv, FilesOK, TruncateFiles
  <1>3. task[i].pc \in Points /\ "ready" \in Points /\ "ready" \notin Committing
    BY <1>1, PointsAre, Zenon
  <1>4. CkOK(ck') /\ ck'.state = ck.state /\ ck'.committed = ck.committed
    BY <1>1, StoreStays, Zenon
  <1>5. QED
    BY <1>1, <1>2, <1>3, <1>4, GotoKeeps, Zenon

\* commit_epoch writes the rows of an epoch.
LEMMA WritePartKeeps ==
    ASSUME Inv, NEW i \in Partition, WritePart(i)
    PROVE  Inv'
  <1> DEFINE file == [batch |-> task[i].epoch, part |-> i, rows |-> task[i].buffer]
  <1>1. /\ task[i].pc = "barrier" /\ UNCHANGED <<reader, chan, pipeline>> /\ UNCHANGED <<ck, pipeline>>
        /\ store' \subseteq store \cup {file} /\ log' = log
        /\ Goto(i, "complete") \/ Goto(i, "written")
    BY Zenon DEF WritePart
  <1>2. /\ task[i].pc \in Points /\ task[i].pc \in Committing
        /\ "complete" \in Points /\ "written" \in Points
    BY <1>1, PointsAre, Zenon
  <1>3. task[i].epoch \in Epoch /\ task[i].buffer \in Bag
    BY <1>2, TaskIsUp, Zenon DEF IsUp
  <1>4. file.batch = task[i].epoch /\ file.rows = task[i].buffer
    BY Zenon
  <1> HIDE DEF file
  <1>5. FilesOK'
    BY <1>1, <1>3, <1>4, Zenon DEF Inv, FilesOK
  <1>6. CkOK(ck') /\ ck'.state = ck.state /\ ck'.committed = ck.committed
    BY <1>1, StoreStays, Zenon
  <1>7. QED
    BY <1>1, <1>2, <1>5, <1>6, GotoKeeps, Zenon

\* The marker of one of several sinks.
LEMMA MarkDoneKeeps ==
    ASSUME Inv, NEW i \in Partition, MarkDone(i)
    PROVE  Inv'
  <1>1. /\ task[i].pc = "written" /\ UNCHANGED <<reader, chan, pipeline>>
        /\ store' = store /\ log' = log /\ Goto(i, "marked")
        /\ ck' = [ck EXCEPT !.done = @ \cup {<<task[i].epoch, i>>}]
    BY Zenon DEF MarkDone
  <1>2. task[i].pc \in Points /\ task[i].pc \in Committing /\ "marked" \in Points
    BY <1>1, PointsAre, Zenon
  <1>3. task[i].epoch \in Epoch
    BY <1>2, TaskIsUp, Zenon DEF IsUp
  <1>4. CkOK(ck)
    BY Zenon DEF Inv
  <1>5. /\ DOMAIN ck' = DOMAIN ck /\ ck'.staged = ck.staged /\ ck'.committed = ck.committed
        /\ ck'.state = ck.state /\ ck'.chunks = ck.chunks
        /\ ck'.done = ck.done \cup {<<task[i].epoch, i>>}
    BY <1>1, <1>4 DEF CkOK
  <1>6. <<task[i].epoch, i>> \in Epoch \X Partition
    BY <1>3, Zenon
  <1>7. CkOK(ck')
    BY <1>4, <1>5, <1>6, Zenon DEF CkOK, StagedOK, CommittedOK
  <1>8. FilesOK'
    BY <1>1, Zenon DEF Inv, FilesOK
  <1>9. QED
    BY <1>1, <1>2, <1>5, <1>7, <1>8, GotoKeeps, Zenon

\* The markers of all are there, or the sink goes on without a commit.
LEMMA ListMarkersKeeps ==
    ASSUME Inv, NEW i \in Partition, ListMarkers(i)
    PROVE  Inv'
  <1>1. /\ task[i].pc = "marked" /\ UNCHANGED <<reader, chan, pipeline>> /\ UNCHANGED <<ck, pipeline>>
        /\ store' = store /\ log' = log /\ (Goto(i, "complete") \/ Finished(i))
    BY Zenon DEF ListMarkers
  <1>2. task[i].pc \in Points /\ task[i].pc \in Committing /\ "complete" \in Points
    BY <1>1, PointsAre, Zenon
  <1>3. FilesOK'
    BY <1>1, Zenon DEF Inv, FilesOK
  <1>4. /\ CkOK(ck') /\ ck'.state = ck.state /\ ck'.committed = ck.committed
        /\ CommittedIsStored'
    BY <1>1, StoreStays, Zenon
  <1>5. CASE Goto(i, "complete")
    BY <1>1, <1>2, <1>3, <1>4, <1>5, GotoKeeps, Zenon
  <1>6. CASE Finished(i)
    BY <1>1, <1>2, <1>3, <1>4, <1>6, FinishedKeeps, Zenon
  <1>7. QED
    BY <1>1, <1>5, <1>6, Zenon

\* The files of the epoch are listed in the log, or the epoch is deferred.
LEMMA MakeVisibleKeeps ==
    ASSUME Inv, NEW i \in Partition, MakeVisible(i)
    PROVE  Inv'
  <1>1. /\ task[i].pc = "complete" /\ UNCHANGED <<reader, chan, pipeline>> /\ UNCHANGED <<ck, pipeline>>
        /\ store' = store
        /\ \/ \E files : log' = CommitBatch(log, task[i].epoch, files) /\ Goto(i, "visible")
           \/ log' = log /\ Finished(i)
    BY Zenon DEF MakeVisible
  <1>2. task[i].pc \in Points /\ task[i].pc \in Committing /\ "visible" \in Points
    BY <1>1, PointsAre, Zenon
  <1>3. task[i].epoch \in Epoch
    BY <1>2, TaskIsUp, Zenon DEF IsUp
  <1>4. \A files : DOMAIN CommitBatch(log, task[i].epoch, files) = DOMAIN log \cup {task[i].epoch}
    BY Zenon DEF CommitBatch
  <1>5. DOMAIN log' \subseteq DOMAIN log \cup {task[i].epoch}
    BY <1>1, <1>4, Zenon
  <1>6. FilesOK'
    BY <1>1, <1>3, <1>5, Zenon DEF Inv, FilesOK
  <1>7. /\ CkOK(ck') /\ ck'.state = ck.state /\ ck'.committed = ck.committed
        /\ CommittedIsStored'
    BY <1>1, StoreStays, Zenon
  <1>8. CASE Goto(i, "visible")
    BY <1>1, <1>2, <1>6, <1>7, <1>8, GotoKeeps, Zenon
  <1>9. CASE Finished(i)
    BY <1>1, <1>2, <1>6, <1>7, <1>9, FinishedKeeps, Zenon
  <1>10. QED
    BY <1>1, <1>8, <1>9, Zenon

\* The one put of realtime/committed: the state of the epoch is stored by then.
LEMMA CommitOffsetsKeeps ==
    ASSUME Inv, NEW i \in Partition, CommitOffsets(i)
    PROVE  Inv'
  <1> DEFINE new == [epoch |-> task[i].epoch, offsets |-> EpochOffsets(i)]
  <1>1. /\ task[i].pc = "visible" /\ UNCHANGED <<reader, chan, pipeline>> /\ Finished(i)
        /\ store' = store /\ log' = log /\ ck' = [ck EXCEPT !.committed = new]
    BY Zenon DEF CommitOffsets
  <1>2. task[i].pc \in Points /\ task[i].pc \in Committing
    BY <1>1, PointsAre, Zenon
  <1>3. task[i].epoch \in Epoch
    BY <1>2, TaskIsUp, Zenon DEF IsUp
  <1>4. CkOK(ck)
    BY Zenon DEF Inv
  <1>5. new.epoch = task[i].epoch /\ new.offsets = EpochOffsets(i)
    BY Zenon
  <1> HIDE DEF new
  <1>6. /\ DOMAIN ck' = DOMAIN ck /\ ck'.staged = ck.staged /\ ck'.committed = new
        /\ ck'.state = ck.state /\ ck'.chunks = ck.chunks /\ ck'.done = ck.done
    BY <1>1, <1>4 DEF CkOK
  <1>7. ASSUME NEW p \in Partition PROVE new.offsets[p] \in {None} \cup 0 .. Len(Topic[p])
    <2>1. ck.committed.offsets[p] \in {None} \cup 0 .. Len(Topic[p])
      BY <1>4, Zenon DEF CkOK, CommittedOK
    <2>2. ck.staged[p][task[i].epoch] \in {None} \cup 0 .. Len(Topic[p])
      BY <1>3, <1>4, Zenon DEF CkOK, StagedOK
    <2>3. new.offsets[p] = Later(ck.committed.offsets[p], ck.staged[p][task[i].epoch])
      BY <1>5, Zenon DEF EpochOffsets
    <2>4. QED
      BY <2>1, <2>2, <2>3, Zenon DEF Later
  <1>8. CkOK(ck')
    BY <1>3, <1>4, <1>5, <1>6, <1>7, Zenon DEF CkOK, StagedOK, CommittedOK
  <1>9. query = "window" /\ StatesAreStored => task[i].epoch \in DOMAIN ck.state
    BY <1>2, Zenon DEF Inv, EpochIsStored
  <1>10. CommittedIsStored'
    BY <1>1, <1>5, <1>6, <1>9, Zenon DEF CommittedIsStored, CommittedStateIsKept, query
  <1>11. FilesOK'
    BY <1>1, Zenon DEF Inv, FilesOK
  <1>12. QED
    BY <1>1, <1>2, <1>8, <1>10, <1>11, FinishedKeeps, Zenon

\* The task pulls an event.
LEMMA PullKeeps ==
    ASSUME SetLaws, Inv, NEW i \in Partition, NEW p \in Partition, Pull(i, p)
    PROVE  Inv'
  <1> PICK put \in Puts("state") :
          LET event == Head(chan[p])
              f == IF funnel = "merge" THEN Merge(task[i].funnel, p, event)
                                       ELSE Align(task[i].funnel, Inputs(i), p, event)
              s == [task |-> [task[i] EXCEPT !.funnel = f.funnel], ck |-> ck, put |-> put]
              t == InOrder(Event, s, f.events)
          IN  task' = [task EXCEPT ![i] = t.task] /\ ck' = t.ck
    BY Zenon DEF Pull
  <1> DEFINE event == Head(chan[p])
             f == IF funnel = "merge" THEN Merge(task[i].funnel, p, event)
                                      ELSE Align(task[i].funnel, Inputs(i), p, event)
             s == [task |-> [task[i] EXCEPT !.funnel = f.funnel], ck |-> ck, put |-> put]
             t == AfterEvents(s, f.events)
  <1>1. /\ task[i].pc = "ready" /\ chan[p] # <<>>
        /\ UNCHANGED <<reader, pipeline>> /\ store' = store /\ log' = log
        /\ chan' = [chan EXCEPT ![p] = Tail(chan[p])]
    BY Zenon DEF Pull
  <1>2. task' = [task EXCEPT ![i] = t.task] /\ ck' = t.ck
    BY Zenon DEF AfterEvents, InOrder, MapThenFoldSet
  <1>3. task[i].pc \in Points
    BY <1>1, PointsAre, Zenon
  <1>4. task[i] # NoTask /\ IsUp(task[i])
    BY <1>3, TaskIsUp, Zenon
  <1>5. IsEvent(event) /\ IsStream(Tail(chan[p]))
    <2>1. PICK T : chan[p] \in Seq(Events(T))
      BY ChannelIsStream, Zenon DEF Inv, IsStream
    <2>2. ASSUME NEW S, NEW q \in Seq(S), q # <<>> PROVE Head(q) \in S /\ Tail(q) \in Seq(S)
      BY <2>2
    <2>3. Head(chan[p]) \in Events(T) /\ Tail(chan[p]) \in Seq(Events(T))
      BY <1>1, <2>1, <2>2, Zenon
    <2>4. QED
      BY <2>3, Zenon DEF IsEvent, IsStream
  <1> HIDE DEF event
  <1>6. Passes(f)
    <2>1. Inputs(i) \in SUBSET Partition /\ Inputs(i) # {}
      BY RealtimeAssumption, Zenon DEF Inputs
    <2>2. FunnelOK(task[i].funnel)
      BY <1>4, Zenon DEF IsUp
    <2>3. Passes(Merge(task[i].funnel, p, event))
      BY <1>5, <2>2, MergeOK, Zenon
    <2>4. Passes(Align(task[i].funnel, Inputs(i), p, event))
      BY <1>5, <2>1, <2>2, AlignOK, Zenon
    <2>5. QED
      BY <2>3, <2>4, Zenon
  <1> HIDE DEF f
  <1>7. Between(s, ck.committed) /\ s.task.pc = "ready"
    <2> DEFINE u == [task[i] EXCEPT !.funnel = f.funnel]
    <2>1. /\ DOMAIN u = TaskFields /\ u.pc = task[i].pc /\ u.funnel = f.funnel /\ u.acc = task[i].acc
          /\ u.late = task[i].late /\ u.buffer = task[i].buffer /\ u.epoch = task[i].epoch
      BY <1>4 DEF IsUp, TaskFields
    <2>2. DOMAIN s = {"task", "ck", "put"} /\ s.task = u /\ s.ck = ck /\ s.put = put
      OBVIOUS
    <2> HIDE DEF u, s
    <2>3. IsUp(u)
      BY <1>4, <1>6, <2>1, Zenon DEF IsUp, Passes
    <2>4. "ready" # "barrier"
      OBVIOUS
    <2>5. query = "window" /\ StatesAreStored =>
            (ck.committed.epoch # None => ck.committed.epoch \in DOMAIN ck.state)
      BY Zenon DEF Inv, CommittedIsStored, CommittedStateIsKept
    <2>6. CkOK(ck)
      BY Zenon DEF Inv
    <2>7. StatesAreStored => put
      BY Zenon DEF StatesAreStored, Puts
    <2>8. QED
      BY <1>1, <2>1, <2>2, <2>3, <2>4, <2>5, <2>6, <2>7, Zenon DEF Between
  <1> HIDE DEF s
  <1>8. Between(t, ck.committed)
    BY <1>6, <1>7, AfterEventsOK, Zenon DEF Passes
  <1> HIDE DEF t
  <1>9. /\ IsUp(t.task) /\ CkOK(ck') /\ ck'.committed = ck.committed
        /\ query = "window" /\ StatesAreStored /\ t.task.pc \in Committing
             => t.task.epoch \in DOMAIN ck'.state
    <2>1. "ready" \notin Committing
      BY PointsAre, Zenon
    <2>2. QED
      BY <1>2, <1>8, <2>1, Zenon DEF Between
  <1>10. CommittedIsStored'
    BY <1>1, <1>2, <1>8, Zenon DEF Between, CommittedIsStored, CommittedStateIsKept, query
  <1>11. ChannelsOK'
    BY <1>1, <1>5, ChannelChanges, Zenon DEF Inv
  <1>12. FilesOK'
    BY <1>1, Zenon DEF Inv, FilesOK
  <1>13. QED
    BY <1>1, <1>2, <1>4, <1>9, <1>10, <1>11, <1>12, TaskMoves, Zenon
-----------------------------------------------------------------------------
(* The invariant holds.                                                    *)

\* It holds on an empty checkpoint store.
LEMMA InitInv ==
    ASSUME Init
    PROVE  Inv
  <1>1. /\ reader = [p \in Partition |-> NoReader] /\ chan = [p \in Partition |-> <<>>]
        /\ task = [i \in Partition |-> NoTask] /\ store = {} /\ log = NoLog /\ pipeline \in Pipeline
        /\ ck = [staged |-> [p \in Partition |-> [e \in Epoch |-> None]],
                 committed |-> [epoch |-> None, offsets |-> [p \in Partition |-> None]],
                 expected |-> FALSE, done |-> {}, state |-> [e \in {} |-> NoState],
                 chunks |-> NoChunks]
    BY Zenon DEF Init
  <1>2. ReadersOK /\ TasksOK
    BY <1>1, Zenon DEF ReadersOK, ReaderOK, TasksOK
  <1>3. ChannelsOK
    <2>1. \A S : <<>> \in Seq(S)
      OBVIOUS
    <2>2. chan \in [Partition -> Seq(Events({}))]
      BY <1>1, <2>1, Zenon
    <2>3. QED
      BY <2>2, Zenon DEF ChannelsOK
  <1>4. /\ DOMAIN ck = {"staged", "committed", "expected", "done", "state", "chunks"}
        /\ ck.staged = [p \in Partition |-> [e \in Epoch |-> None]]
        /\ ck.committed.epoch = None /\ ck.committed.offsets = [p \in Partition |-> None]
        /\ ck.done = {} /\ ck.state = [e \in {} |-> NoState] /\ ck.chunks = NoChunks
    BY <1>1
  <1>5. CommittedOK(ck)
    BY <1>4, Zenon DEF CommittedOK
  <1>6. StagedOK(ck)
    <2>1. None \in Int
      BY DEF None
    <2>2. ck.staged \in [Partition -> [Epoch -> Int]]
      BY <1>4, <2>1
    <2>3. \A p \in Partition : \A e \in Epoch : ck.staged[p][e] = None
      BY <1>4
    <2>4. QED
      BY <2>2, <2>3, Zenon DEF StagedOK
  <1>7. CkOK(ck)
    <2>1. DOMAIN ck.state = {} /\ DOMAIN ck.chunks = {}
      BY <1>4, Zenon DEF NoChunks
    <2>2. QED
      BY <1>4, <1>5, <1>6, <2>1, Zenon DEF CkOK, ChunksOK
  <1>8. FilesOK
    BY <1>1, Zenon DEF FilesOK, NoLog
  <1>9. NoTask.pc \notin Committing
    BY DEF NoTask, Committing
  <1>10. EpochIsStored /\ CommittedIsStored
    BY <1>1, <1>4, <1>9, Zenon DEF EpochIsStored, CommittedIsStored, CommittedStateIsKept
  <1>11. QED
    BY <1>1, <1>2, <1>3, <1>7, <1>8, <1>10, Zenon DEF Inv

\* Every step keeps it.
LEMMA NextInv ==
    ASSUME SetLaws, Inv, [Next]_vars
    PROVE  Inv'
  <1>1. ASSUME NEW p \in Partition, Reader(p) PROVE Inv'
    BY <1>1, StartReaderKeeps, ReadMessageKeeps, FlushKeeps, TickKeeps, CaughtUpKeeps, Zenon DEF Reader
  <1>2. ASSUME NEW i \in Partition, Task(i) PROVE Inv'
    <2>1. CASE \E p \in Partition : Pull(i, p)
      BY <2>1, PullKeeps, Zenon
    <2>2. CASE Truncate(i) \/ DeleteFiles(i) \/ WritePart(i) \/ MarkDone(i)
      BY <2>2, TruncateKeeps, DeleteFilesKeeps, WritePartKeeps, MarkDoneKeeps, Zenon
    <2>3. CASE ListMarkers(i) \/ MakeVisible(i) \/ CommitOffsets(i)
      BY <2>3, ListMarkersKeeps, MakeVisibleKeeps, CommitOffsetsKeeps, Zenon
    <2>4. QED
      BY <1>2, <2>1, <2>2, <2>3, Zenon DEF Task
  <1>3. CASE UNCHANGED vars
    <2>1. /\ UNCHANGED <<task, store, log, pipeline>> /\ reader' = reader /\ chan' = chan /\ ck' = ck
      BY <1>3, Zenon DEF vars
    <2>2. ReadersOK' /\ ChannelsOK'
      BY <2>1, Zenon DEF Inv, ReadersOK, ChannelsOK
    <2>3. CkOK(ck') /\ ck'.state = ck.state /\ ck'.committed = ck.committed
      BY <2>1, Zenon DEF Inv
    <2>4. QED
      BY <2>1, <2>2, <2>3, ReaderMoves, Zenon
  <1>4. QED
    BY <1>1, <1>2, <1>3, StartKeeps, CrashKeeps, Zenon DEF Next, Tasks
-----------------------------------------------------------------------------
(* The theorems.                                                           *)

INSTANCE FiniteSetTheorems

\* The facts about sets: a set of natural numbers has a least element because
\* they are well-founded.
LEMMA SetLawsHold == SetLaws
  <1>1. ASSUME NEW S \in SUBSET Nat, S # {}
        PROVE  \E m \in S : \A i \in S : m <= i
    <2> DEFINE R == OpToRel(<, Nat)
    <2>1. R = {p \in Nat \X Nat : p[1] < p[2]}
      BY Zenon DEF OpToRel
    <2>2. IsWellFoundedOn(R, Nat)
      BY NatLessThanWellFounded, Zenon
    <2> HIDE DEF R
    <2>3. PICK m \in S : \A i \in S : ~ (<<i, m>> \in R)
      BY <1>1, <2>2, WFMin, Zenon
    <2>4. \A i \in S : ~ (i < m)
      BY <2>1, <2>3, Zenon
    <2>5. QED
      BY <2>4
  <1>2. \A n \in Int : IsFiniteSet(0 .. n)
    BY FS_Interval
  <1>3. \A S : \A T \in SUBSET S :
            IsFiniteSet(S) => IsFiniteSet(T) /\ Cardinality(T) <= Cardinality(S)
    BY FS_Subset, Zenon
  <1>4. \A S : IsFiniteSet(S) => Cardinality(S) \in Nat
    BY FS_CardinalityType, Zenon
  <1>5. \A S : \A x \in S : IsFiniteSet(S) => Cardinality(S \ {x}) = Cardinality(S) - 1
    BY FS_RemoveElement, Zenon
  <1>6. Cardinality({}) = 0
    BY FS_EmptySet, Zenon
  <1>7. QED
    BY <1>1, <1>2, <1>3, <1>4, <1>5, <1>6, Zenon DEF SetLaws

\* The invariant holds in every reachable state.
THEOREM InvAlways == Spec => []Inv
  <1>1. Init => Inv
    BY InitInv, Zenon
  <1>2. Inv /\ [Next]_vars => Inv'
    BY NextInv, SetLawsHold, Zenon
  <1>3. QED
    BY <1>1, <1>2, PTL DEF Spec

\* The readers, the tasks and the stored objects keep their types, for any number
\* of partitions, messages, epochs and crashes: a reader never reads past its
\* partition or over its row cap, and no offset is committed beyond it.
THEOREM RealtimeTypes == Spec => []TypeOK
  <1>1. ASSUME Inv PROVE TypeOK
    <2>1. ~NoReader.up
      BY DEF NoReader
    <2>2. ASSUME NEW p \in Partition, reader[p].up
          PROVE  /\ reader[p].next \in 0 .. Len(Topic[p]) /\ reader[p].epoch \in 0 .. MaxEpoch + 1
                 /\ Len(reader[p].builder) < MaxBatch
      BY <1>1, <2>2, ReaderIsUp, Zenon
    <2>3. ASSUME NEW i \in Partition, task[i] # NoTask
          PROVE  task[i].pc \in Points /\ task[i].buffer \in Bag /\ task[i].late \subseteq Row
      BY <1>1, <2>3, Zenon DEF Inv, TasksOK, IsUp
    <2>4. /\ ck.done \subseteq Epoch \X Partition /\ ck.committed.epoch \in Epoch \cup {None}
          /\ \A p \in Partition : ck.committed.offsets[p] \in {None} \cup 0 .. Len(Topic[p])
          /\ DOMAIN ck.state \subseteq Epoch
      BY <1>1, Zenon DEF Inv, CkOK, CommittedOK
    <2>5. DOMAIN log \subseteq Epoch /\ \A f \in store : f.batch \in Epoch /\ f.rows \in Bag
      BY <1>1, Zenon DEF Inv, FilesOK
    <2>6. QED
      BY <2>2, <2>3, <2>4, <2>5, Zenon DEF TypeOK, Points
  <1>2. QED
    BY <1>1, InvAlways, PTL

\* The state of the window at the committed epoch is in the store in every
\* reachable state, across crashes, if no put of a state fails (offsets may fail to
\* be staged): it is stored before the barrier reaches the sink, and the deletion
\* two epochs back never reaches the committed one.
THEOREM RestartFindsItsState == "state" \notin PutFaults => (Spec => []CommittedStateIsKept)
  <1> SUFFICES ASSUME "state" \notin PutFaults PROVE Spec => []CommittedStateIsKept
    BY Zenon
  <1>1. Inv => CommittedStateIsKept
    BY Zenon DEF Inv, CommittedIsStored, StatesAreStored
  <1>2. QED
    BY <1>1, InvAlways, PTL
=============================================================================
