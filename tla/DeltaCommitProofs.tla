------------------------- MODULE DeltaCommitProofs -------------------------
(***************************************************************************)
(* Proofs about modules DeltaLog and DeltaCommit.                          *)
(*                                                                         *)
(* About DeltaLog: what a reader replays from a checkpoint, compactions    *)
(* and commits is what was committed.                                      *)
(*                                                                         *)
(* About DeltaCommit, for any number of writers, any length of the log and *)
(* any intervals: the directory stays well kept, so that the last version  *)
(* is always found and always exact, timestamps increase, and the commit   *)
(* loop implements DeltaTable.                                             *)
(***************************************************************************)
EXTENDS DeltaCommit, TLAPS
-----------------------------------------------------------------------------
(* The log.                                                                *)


\* A nonempty set of integers within bounds has a maximum.  The lemmas take this
\* as a hypothesis; it is proved at the end, by well-founded induction.
MaxLaw ==
    \A lo, hi \in Int : \A S \in SUBSET (lo .. hi) :
        S # {} => Max(S) \in S /\ \A y \in S : Max(S) >= y

\* The law for one set.
LEMMA MaxOf ==
    ASSUME MaxLaw, NEW lo \in Int, NEW hi \in Int, NEW S \in SUBSET (lo .. hi), S # {}
    PROVE  Max(S) \in S /\ \A y \in S : Max(S) >= y
  BY Zenon DEF MaxLaw

\* And so has a nonempty set of versions.
LEMMA MaxOfVersions ==
    ASSUME MaxLaw, NEW n \in Int, NEW S \in SUBSET (0 .. n), S # {}
    PROVE  Max(S) \in S /\ \A y \in S : Max(S) >= y
<1> PICK z \in Int : z = 0
  OBVIOUS
<1> S \in SUBSET (z .. n)
  BY Zenon
<1> QED
  BY MaxOf, Zenon

\* A member that no other exceeds is the maximum.
LEMMA MaxIs ==
    ASSUME NEW S \in SUBSET Int, NEW m \in S, \A y \in S : m >= y
    PROVE  Max(S) = m
<1> \A x \in S : (\A y \in S : x >= y) => x = m
  OBVIOUS
<1> QED
  BY Zenon DEF Max
-----------------------------------------------------------------------------
(* Reconciling.                                                            *)

\* The last thing that happens to f in parts is that it is removed.
RemovedIn(parts, f) ==
    \E q \in DOMAIN parts :
        f \in parts[q].removes /\ \A p \in DOMAIN parts : p > q => f \notin parts[p].adds

AddedIn(parts, f) == \E p \in DOMAIN parts : f \in parts[p].adds

LastHeader(parts, h) ==
    \E p \in DOMAIN parts :
        /\ parts[p].header = h /\ h # NoHeader
        /\ \A q \in DOMAIN parts : q > p => parts[q].header = NoHeader

NoHeaderIn(parts) == \A p \in DOMAIN parts : parts[p].header = NoHeader

Bounded(parts) == \E lo, hi \in Int : DOMAIN parts \subseteq lo .. hi

\* Intervals of positions are bounded.
LEMMA IntervalBounded ==
    ASSUME NEW parts, NEW lo \in Int, NEW hi \in Int, DOMAIN parts \subseteq lo .. hi
    PROVE  Bounded(parts)
  BY Zenon DEF Bounded

\* Reconcile in terms of what happens last.
LEMMA ReconcileFiles ==
    ASSUME NEW base, NEW parts
    PROVE  /\ \A f : f \in Reconcile(base, parts).adds
                        <=> (f \in base.adds \/ AddedIn(parts, f)) /\ ~RemovedIn(parts, f)
           /\ \A f : f \in Reconcile(base, parts).removes <=> RemovedIn(parts, f)
  BY DEF Reconcile, RemovedIn, AddedIn

\* The header is the last one that is set.
LEMMA ReconcileHeader ==
    ASSUME MaxLaw, NEW base, NEW parts, Bounded(parts)
    PROVE  /\ NoHeaderIn(parts) => Reconcile(base, parts).header = base.header
           /\ ~NoHeaderIn(parts) => LastHeader(parts, Reconcile(base, parts).header)
           /\ \A h : LastHeader(parts, h) => Reconcile(base, parts).header = h
<1> DEFINE H == {p \in DOMAIN parts : parts[p].header # NoHeader}
<1>0. PICK lo \in Int, hi \in Int : DOMAIN parts \subseteq lo .. hi
  BY Zenon DEF Bounded
<1>1. Reconcile(base, parts).header = IF H = {} THEN base.header ELSE parts[Max(H)].header
  BY Zenon DEF Reconcile
<1>2. NoHeaderIn(parts) <=> H = {}
  BY Zenon DEF NoHeaderIn
<1>3. ASSUME H # {} PROVE LastHeader(parts, parts[Max(H)].header)
  <2>1. H \in SUBSET (lo .. hi)
    BY <1>0, Zenon
  <2> HIDE DEF H
  <2> PICK m \in H : m = Max(H) /\ \A y \in H : m >= y
    BY <1>3, <2>1, MaxOf, Zenon
  <2> \A y \in H : ~(y > m)
    <3> TAKE y \in H
    <3> y \in Int /\ m \in Int
      BY <2>1
    <3> QED
      OBVIOUS
  <2> LastHeader(parts, parts[m].header)
    BY Zenon DEF LastHeader, H
  <2> QED
    BY Zenon
<1>4. ASSUME NEW h, LastHeader(parts, h) PROVE H # {} /\ parts[Max(H)].header = h
  <2> PICK p \in DOMAIN parts :
          /\ parts[p].header = h /\ h # NoHeader
          /\ \A q \in DOMAIN parts : q > p => parts[q].header = NoHeader
    BY <1>4, Zenon DEF LastHeader
  <2> p \in H /\ H \in SUBSET Int /\ \A y \in H : p >= y
    BY <1>0
  <2> HIDE DEF H
  <2> Max(H) = p
    BY MaxIs, Zenon
  <2> QED
    BY Zenon
<1> QED
  BY <1>1, <1>2, <1>3, <1>4, Zenon

\* Records of actions that tell the same table.
Same(a, b) == (\A f : f \in a.adds <=> f \in b.adds) /\ a.header = b.header

Divided(whole, lower, upper, lo, m, hi) ==
    /\ DOMAIN whole = lo .. hi /\ DOMAIN lower = lo .. m /\ DOMAIN upper = m + 1 .. hi
    /\ \A k \in lo .. m : lower[k] = whole[k]
    /\ \A k \in m + 1 .. hi : upper[k] = whole[k]

\* A checkpoint is transparent: what comes after it may be applied to it alone.
LEMMA ReconcileOnTop ==
    ASSUME MaxLaw, NEW lo \in Int, NEW hi \in Int, NEW m \in Int, lo <= m + 1, m <= hi,
           NEW base, NEW whole, NEW lower, NEW upper, NEW mid,
           Divided(whole, lower, upper, lo, m, hi), Same(mid, Reconcile(base, lower))
    PROVE  Same(Reconcile(mid, upper), Reconcile(base, whole))
<1> USE DEF Divided
<1>1. ASSUME NEW f
      PROVE  f \in Reconcile(mid, upper).adds <=> f \in Reconcile(base, whole).adds
  <2>1. f \in Reconcile(mid, upper).adds
            <=> (f \in mid.adds \/ AddedIn(upper, f)) /\ ~RemovedIn(upper, f)
    BY ReconcileFiles, Zenon
  <2>2. f \in mid.adds <=> (f \in base.adds \/ AddedIn(lower, f)) /\ ~RemovedIn(lower, f)
    BY ReconcileFiles, Zenon DEF Same
  <2>3. f \in Reconcile(base, whole).adds
            <=> (f \in base.adds \/ AddedIn(whole, f)) /\ ~RemovedIn(whole, f)
    BY ReconcileFiles, Zenon
  <2>4. AddedIn(whole, f) <=> AddedIn(lower, f) \/ AddedIn(upper, f)
    BY DEF AddedIn
  <2>5. CASE AddedIn(upper, f)
    <3> USE <2>5
    <3> RemovedIn(whole, f) <=> RemovedIn(upper, f)
      BY DEF AddedIn, RemovedIn
    <3> QED
      BY <2>1, <2>2, <2>3, <2>4, Zenon
  <2>6. CASE ~AddedIn(upper, f)
    <3> USE <2>6
    <3> RemovedIn(whole, f) <=> RemovedIn(lower, f) \/ RemovedIn(upper, f)
      BY DEF AddedIn, RemovedIn
    <3> QED
      BY <2>1, <2>2, <2>3, <2>4, Zenon
  <2> QED
    BY <2>5, <2>6, Zenon
<1>2. Bounded(lower) /\ Bounded(upper) /\ Bounded(whole)
  <2>1. DOMAIN lower \subseteq lo .. m /\ DOMAIN whole \subseteq lo .. hi
    BY Zenon
  <2> m + 1 \in Int /\ DOMAIN upper \subseteq m + 1 .. hi
    OBVIOUS
  <2> Bounded(upper)
    BY IntervalBounded, Zenon
  <2> QED
    BY <2>1, IntervalBounded, Zenon
<1> Reconcile(mid, upper).header = Reconcile(base, whole).header
  <2>1. CASE NoHeaderIn(upper)
    <3>1. Reconcile(mid, upper).header = Reconcile(base, lower).header
      BY <2>1, <1>2, ReconcileHeader, Zenon DEF Same
    <3>2. CASE NoHeaderIn(lower)
      <4> USE <3>2
      <4>1. NoHeaderIn(whole)
        BY <2>1 DEF NoHeaderIn
      <4> Reconcile(base, lower).header = base.header
        BY <1>2, ReconcileHeader, Zenon
      <4> Reconcile(base, whole).header = base.header
        BY <4>1, <1>2, ReconcileHeader, Zenon
      <4> QED
        BY <3>1, Zenon
    <3>3. CASE ~NoHeaderIn(lower)
      <4> DEFINE h == Reconcile(base, lower).header
      <4>1. LastHeader(lower, h)
        BY <3>3, <1>2, ReconcileHeader, Zenon
      <4> HIDE DEF h
      <4> LastHeader(whole, h)
        BY <4>1, <2>1 DEF LastHeader, NoHeaderIn
      <4> Reconcile(base, whole).header = h
        BY <1>2, ReconcileHeader, Zenon
      <4> QED
        BY <3>1, Zenon DEF h
    <3> QED
      BY <3>2, <3>3, Zenon
  <2>2. CASE ~NoHeaderIn(upper)
    <3> DEFINE h == Reconcile(mid, upper).header
    <3>1. LastHeader(upper, h)
      BY <2>2, <1>2, ReconcileHeader, Zenon
    <3> HIDE DEF h
    <3> LastHeader(whole, h)
      BY <3>1 DEF LastHeader
    <3> Reconcile(base, whole).header = h
      BY <1>2, ReconcileHeader, Zenon
    <3> QED
      BY Zenon DEF h
  <2> QED
    BY <2>1, <2>2, Zenon
<1> QED
  BY <1>1, Zenon DEF Same

-----------------------------------------------------------------------------
(* Compacting.                                                             *)

\* What a part must say of the pieces it stands for.
Summarises(part, pieces) ==
    /\ \A f : f \in part.removes <=> RemovedIn(pieces, f)
    /\ \A f : f \in part.adds => AddedIn(pieces, f)
    /\ \A f : AddedIn(pieces, f) /\ ~RemovedIn(pieces, f) => f \in part.adds
    /\ part.header = NoHeader => NoHeaderIn(pieces)
    /\ part.header # NoHeader => LastHeader(pieces, part.header)

Within(whole, a, e) == [k \in a .. e |-> whole[k]]

\* What a compaction writes summarises what it read.
LEMMA ReconcileSummarises ==
    ASSUME MaxLaw, NEW pieces, Bounded(pieces)
    PROVE  Summarises(Reconcile(Nothing, pieces), pieces)
<1>1. Nothing.adds = {} /\ Nothing.header = NoHeader
  BY Zenon DEF Nothing, Actions
<1> DEFINE state == Reconcile(Nothing, pieces)
<1>2. /\ \A f : f \in state.adds <=> (f \in Nothing.adds \/ AddedIn(pieces, f)) /\ ~RemovedIn(pieces, f)
      /\ \A f : f \in state.removes <=> RemovedIn(pieces, f)
  BY ReconcileFiles, Zenon
<1>3. /\ NoHeaderIn(pieces) => state.header = Nothing.header
      /\ ~NoHeaderIn(pieces) => LastHeader(pieces, state.header)
  BY ReconcileHeader, Zenon
<1> \A h : LastHeader(pieces, h) => h # NoHeader
  BY Zenon DEF LastHeader
<1> HIDE DEF state
<1> Summarises(state, pieces)
  BY <1>1, <1>2, <1>3, Zenon DEF Summarises
<1> QED
  BY Zenon DEF state

\* A commit summarises itself.
LEMMA CommitSummarises ==
    ASSUME NEW whole, NEW p \in Int
    PROVE  Summarises(whole[p], Within(whole, p, p))
<1> DOMAIN Within(whole, p, p) = {p} /\ Within(whole, p, p)[p] = whole[p]
  BY DEF Within
<1> QED
  BY DEF Summarises, RemovedIn, AddedIn, NoHeaderIn, LastHeader

\* A file that is added is added a last time.
LEMMA LastAdd ==
    ASSUME MaxLaw, NEW whole, Bounded(whole), NEW f, AddedIn(whole, f)
    PROVE  \E j \in DOMAIN whole :
             f \in whole[j].adds /\ \A k \in DOMAIN whole : k > j => f \notin whole[k].adds
<1> DEFINE A == {j \in DOMAIN whole : f \in whole[j].adds}
<1>1. PICK lo \in Int, hi \in Int : DOMAIN whole \subseteq lo .. hi
  BY Zenon DEF Bounded
<1>2. A \in SUBSET (lo .. hi) /\ A # {}
  BY <1>1, Zenon DEF AddedIn
<1>3. \A k \in DOMAIN whole : k \in A <=> f \in whole[k].adds
  BY Zenon
<1>4. A \subseteq DOMAIN whole
  BY Zenon
<1> HIDE DEF A
<1> PICK j \in A : \A y \in A : j >= y
  BY <1>2, MaxOf, Zenon
<1> \A y \in A : ~(y > j)
  <2> TAKE y \in A
  <2> y \in Int /\ j \in Int
    BY <1>2
  <2> QED
    OBVIOUS
<1> QED
  BY <1>3, <1>4, Zenon

\* The parts stand for the whole: part p for the pieces p .. end[p].
Grouped(parts, whole, lo, hi, end) ==
    /\ DOMAIN whole = lo .. hi /\ DOMAIN parts \subseteq lo .. hi
    /\ \A p \in DOMAIN parts : end[p] \in p .. hi
    /\ \A p \in DOMAIN parts : Summarises(parts[p], Within(whole, p, end[p]))
    /\ \A p, q \in DOMAIN parts : p < q => end[p] < q
    /\ \A k \in lo .. hi : \E p \in DOMAIN parts : k \in p .. end[p]

\* The pieces p .. e leave f removed, and some of them adds it.
LastRemoved(whole, p, e, f) ==
    \E q \in p .. e :
        f \in whole[q].removes /\ \A k \in p .. e : k > q => f \notin whole[k].adds
SomeAdd(whole, p, e, f) == \E k \in p .. e : f \in whole[k].adds

\* What part p says of a file, in terms of the pieces that it stands for.
LEMMA GroupedPart ==
    ASSUME NEW lo \in Int, NEW hi \in Int, NEW whole, NEW parts, NEW end,
           Grouped(parts, whole, lo, hi, end), NEW f, NEW p \in DOMAIN parts
    PROVE  /\ f \in parts[p].removes <=> LastRemoved(whole, p, end[p], f)
           /\ f \in parts[p].adds => SomeAdd(whole, p, end[p], f)
           /\ SomeAdd(whole, p, end[p], f) /\ ~LastRemoved(whole, p, end[p], f)
                => f \in parts[p].adds
<1> DEFINE pieces == Within(whole, p, end[p])
<1> DOMAIN pieces = p .. end[p] /\ \A k \in p .. end[p] : pieces[k] = whole[k]
  BY Zenon DEF Within
<1>2. Summarises(parts[p], pieces)
  BY Zenon DEF Grouped
<1> HIDE DEF pieces
<1> AddedIn(pieces, f) <=> SomeAdd(whole, p, end[p], f)
  BY Zenon DEF AddedIn, SomeAdd
<1> RemovedIn(pieces, f) <=> LastRemoved(whole, p, end[p], f)
  BY Zenon DEF RemovedIn, LastRemoved
<1> QED
  BY <1>2, Zenon DEF Summarises

\* A part loses a file exactly when the whole does.
LEMMA GroupedRemoves ==
    ASSUME MaxLaw, NEW lo \in Int, NEW hi \in Int, NEW whole, NEW parts, NEW end,
           Grouped(parts, whole, lo, hi, end), NEW f
    PROVE  RemovedIn(parts, f) <=> RemovedIn(whole, f)
<1>1. /\ DOMAIN whole = lo .. hi
      /\ \A p \in DOMAIN parts : p \in Int /\ end[p] \in Int /\ lo <= p /\ p <= end[p] /\ end[p] <= hi
  BY DEF Grouped
<1>2. \A p, q \in DOMAIN parts : p < q => end[p] < q
  BY Zenon DEF Grouped
<1>3. \A k \in lo .. hi : \E p \in DOMAIN parts : k \in p .. end[p]
  BY Zenon DEF Grouped
<1>4. Bounded(whole)
  BY <1>1, IntervalBounded, Zenon
<1>5. ASSUME RemovedIn(parts, f) PROVE RemovedIn(whole, f)
  <2>1. PICK q \in DOMAIN parts :
            f \in parts[q].removes /\ \A p \in DOMAIN parts : p > q => f \notin parts[p].adds
    BY <1>5, Zenon DEF RemovedIn
  <2>2. LastRemoved(whole, q, end[q], f)
    BY <2>1, GroupedPart, Zenon
  <2>3. PICK k \in q .. end[q] : f \in whole[k].removes
            /\ \A j \in q .. end[q] : j > k => f \notin whole[j].adds
    BY <2>2, Zenon DEF LastRemoved
  <2>4. k \in lo .. hi
    BY <1>1
  <2>5. CASE \A j \in lo .. hi : j > k => f \notin whole[j].adds
    BY <1>1, <2>3, <2>4, <2>5, Zenon DEF RemovedIn
  <2>6. CASE ~\A j \in lo .. hi : j > k => f \notin whole[j].adds
    <3>1. PICK i \in lo .. hi : i > k /\ f \in whole[i].adds
      BY <2>6, Zenon
    <3>2. AddedIn(whole, f)
      BY <1>1, <3>1, Zenon DEF AddedIn
    <3>3. PICK j \in lo .. hi :
              f \in whole[j].adds /\ \A y \in lo .. hi : y > j => f \notin whole[y].adds
      BY <1>1, <1>4, <3>2, LastAdd, Zenon
    <3>4. j > k
      BY <3>1, <3>3, <2>4
    <3>5. PICK p \in DOMAIN parts : j \in p .. end[p]
      BY <1>3, Zenon
    <3>6. p # q
      BY <2>3, <3>3, <3>4, <3>5, Zenon
    <3>7. p > q
      <4> p \in Int /\ q \in Int /\ end[p] \in Int
        BY <1>1, Zenon
      <4> ~(p < q)
        <5> SUFFICES ASSUME p < q PROVE FALSE
          BY Zenon
        <5> end[p] < q
          BY <1>2, Zenon
        <5> QED
          BY <3>4, <3>5
      <4> QED
        BY <3>6
    <3>8. SomeAdd(whole, p, end[p], f)
      BY <3>3, <3>5, Zenon DEF SomeAdd
    <3>9. LastRemoved(whole, p, end[p], f)
      BY <2>1, <3>7, <3>8, GroupedPart, Zenon
    <3> PICK r \in p .. end[p] : f \in whole[r].removes
           /\ \A y \in p .. end[p] : y > r => f \notin whole[y].adds
      BY <3>9, Zenon DEF LastRemoved
    <3>11. r >= j
      BY <3>3, <3>5
    <3> r \in lo .. hi
      BY <1>1
    <3> \A y \in lo .. hi : y > r => f \notin whole[y].adds
      BY <3>3, <3>11
    <3> QED
      BY <1>1, Zenon DEF RemovedIn
  <2> QED
    BY <2>5, <2>6, Zenon
<1>6. ASSUME RemovedIn(whole, f) PROVE RemovedIn(parts, f)
  <2>1. PICK q \in lo .. hi :
            f \in whole[q].removes /\ \A y \in lo .. hi : y > q => f \notin whole[y].adds
    BY <1>1, <1>6, Zenon DEF RemovedIn
  <2>2. PICK p \in DOMAIN parts : q \in p .. end[p]
    BY <1>3, Zenon
  <2>3. LastRemoved(whole, p, end[p], f)
    <3> \A y \in p .. end[p] : y \in lo .. hi
      BY <1>1
    <3> QED
      BY <2>1, <2>2, Zenon DEF LastRemoved
  <2>4. f \in parts[p].removes
    BY <2>3, GroupedPart, Zenon
  <2>5. ASSUME NEW r \in DOMAIN parts, r > p, f \in parts[r].adds PROVE FALSE
    <3>1. SomeAdd(whole, r, end[r], f)
      BY <2>5, GroupedPart, Zenon
    <3>2. PICK y \in r .. end[r] : f \in whole[y].adds
      BY <3>1, Zenon DEF SomeAdd
    <3> end[p] < r
      BY <1>1, <1>2, <2>5, Zenon
    <3> y \in lo .. hi /\ y > q
      BY <1>1, <2>2
    <3> QED
      BY <2>1, <3>2, Zenon
  <2> QED
    BY <2>4, <2>5, Zenon DEF RemovedIn
<1> QED
  BY <1>5, <1>6, Zenon

\* Unless it is removed, a file that the whole adds is added by a part.
LEMMA GroupedAdds ==
    ASSUME MaxLaw, NEW lo \in Int, NEW hi \in Int, NEW whole, NEW parts, NEW end,
           Grouped(parts, whole, lo, hi, end), NEW f, ~RemovedIn(whole, f)
    PROVE  AddedIn(parts, f) <=> AddedIn(whole, f)
<1>1. /\ DOMAIN whole = lo .. hi
      /\ \A p \in DOMAIN parts : p \in Int /\ end[p] \in Int /\ lo <= p /\ p <= end[p] /\ end[p] <= hi
  BY DEF Grouped
<1>2. \A k \in lo .. hi : \E p \in DOMAIN parts : k \in p .. end[p]
  BY Zenon DEF Grouped
<1>3. ASSUME AddedIn(parts, f) PROVE AddedIn(whole, f)
  <2> PICK p \in DOMAIN parts : f \in parts[p].adds
    BY <1>3, Zenon DEF AddedIn
  <2> PICK k \in p .. end[p] : f \in whole[k].adds
    BY GroupedPart DEF SomeAdd
  <2> QED
    BY <1>1 DEF AddedIn
<1>4. ASSUME AddedIn(whole, f) PROVE AddedIn(parts, f)
  <2>1. Bounded(whole)
    BY <1>1, IntervalBounded, Zenon
  <2>2. PICK j \in lo .. hi :
            f \in whole[j].adds /\ \A y \in lo .. hi : y > j => f \notin whole[y].adds
    BY <1>1, <1>4, <2>1, LastAdd, Zenon
  <2>3. PICK p \in DOMAIN parts : j \in p .. end[p]
    BY <1>2, Zenon
  <2>4. SomeAdd(whole, p, end[p], f)
    BY <2>2, <2>3, Zenon DEF SomeAdd
  <2> ~LastRemoved(whole, p, end[p], f)
    <3> SUFFICES ASSUME LastRemoved(whole, p, end[p], f) PROVE FALSE
      BY Zenon
    <3> PICK r \in p .. end[p] : f \in whole[r].removes
            /\ \A y \in p .. end[p] : y > r => f \notin whole[y].adds
      BY Zenon DEF LastRemoved
    <3> r >= j /\ r \in lo .. hi
      BY <1>1, <2>2, <2>3
    <3> \A y \in lo .. hi : y > r => f \notin whole[y].adds
      BY <2>2
    <3> RemovedIn(whole, f)
      BY <1>1, Zenon DEF RemovedIn
    <3> QED
      BY Zenon
  <2> QED
    BY <2>4, GroupedPart, Zenon DEF AddedIn
<1> QED
  BY <1>3, <1>4, Zenon

\* The last header of the parts is the last one of the whole.
LEMMA GroupedHeader ==
    ASSUME MaxLaw, NEW lo \in Int, NEW hi \in Int, NEW whole, NEW parts, NEW end,
           Grouped(parts, whole, lo, hi, end), NEW base
    PROVE  Reconcile(base, parts).header = Reconcile(base, whole).header
<1>1. /\ DOMAIN whole = lo .. hi /\ DOMAIN parts \subseteq lo .. hi
      /\ \A p \in DOMAIN parts : p \in Int /\ end[p] \in Int /\ lo <= p /\ p <= end[p] /\ end[p] <= hi
  BY DEF Grouped
<1>2. \A p, q \in DOMAIN parts : p < q => end[p] < q
  BY Zenon DEF Grouped
<1>3. \A k \in lo .. hi : \E p \in DOMAIN parts : k \in p .. end[p]
  BY Zenon DEF Grouped
<1>4. Bounded(whole) /\ Bounded(parts)
  BY <1>1, IntervalBounded, Zenon
<1>5. ASSUME NEW p \in DOMAIN parts
      PROVE  /\ parts[p].header = NoHeader => \A k \in p .. end[p] : whole[k].header = NoHeader
             /\ parts[p].header # NoHeader =>
                  \E k \in p .. end[p] : whole[k].header = parts[p].header
                     /\ \A j \in p .. end[p] : j > k => whole[j].header = NoHeader
  <2> DEFINE pieces == Within(whole, p, end[p])
  <2>1. DOMAIN pieces = p .. end[p] /\ \A k \in p .. end[p] : pieces[k] = whole[k]
    BY Zenon DEF Within
  <2> Summarises(parts[p], pieces)
    BY Zenon DEF Grouped
  <2> HIDE DEF pieces
  <2> /\ parts[p].header = NoHeader => NoHeaderIn(pieces)
      /\ parts[p].header # NoHeader => LastHeader(pieces, parts[p].header)
    BY Zenon DEF Summarises
  <2> QED
    BY <2>1, Zenon DEF NoHeaderIn, LastHeader
<1>6. CASE NoHeaderIn(parts)
  <2> USE <1>6
  <2> NoHeaderIn(whole)
    BY <1>1, <1>3, <1>5 DEF NoHeaderIn
  <2> QED
    BY <1>4, ReconcileHeader
<1>7. CASE ~NoHeaderIn(parts)
  <2> DEFINE h == Reconcile(base, parts).header
  <2>1. LastHeader(parts, h)
    BY <1>4, <1>7, ReconcileHeader, Zenon
  <2> HIDE DEF h
  <2>2. PICK p \in DOMAIN parts :
            /\ parts[p].header = h /\ h # NoHeader
            /\ \A q \in DOMAIN parts : q > p => parts[q].header = NoHeader
    BY <2>1, Zenon DEF LastHeader
  <2>3. PICK k \in p .. end[p] : whole[k].header = h
            /\ \A j \in p .. end[p] : j > k => whole[j].header = NoHeader
    BY <1>5, <2>2, Zenon
  <2>4. ASSUME NEW j \in lo .. hi, j > k PROVE whole[j].header = NoHeader
    <3>1. PICK q \in DOMAIN parts : j \in q .. end[q]
      BY <1>3, Zenon
    <3>2. p \in Int /\ q \in Int /\ end[q] \in Int
      BY <1>1, Zenon
    <3>3. ~(q < p)
      <4> SUFFICES ASSUME q < p PROVE FALSE
        BY Zenon
      <4> end[q] < p
        BY <1>2, Zenon
      <4> QED
        BY <3>1, <3>2, <2>4
    <3>4. CASE q = p
      BY <2>3, <2>4, <3>1, <3>4, Zenon
    <3>5. CASE q > p
      BY <1>5, <2>2, <3>1, <3>5, Zenon
    <3> QED
      BY <3>2, <3>3, <3>4, <3>5
  <2>5. k \in lo .. hi
    BY <1>1
  <2> LastHeader(whole, h)
    BY <1>1, <2>2, <2>3, <2>4, <2>5, Zenon DEF LastHeader
  <2> Reconcile(base, whole).header = h
    BY <1>4, ReconcileHeader, Zenon
  <2> QED
    BY Zenon DEF h
<1> QED
  BY <1>6, <1>7, Zenon

\* Replaying parts that stand for the whole is replaying the whole: compacting
\* a log changes neither the files nor the header that its readers find.
LEMMA CompactedReplay ==
    ASSUME MaxLaw, NEW lo \in Int, NEW hi \in Int, NEW whole, NEW parts, NEW end,
           Grouped(parts, whole, lo, hi, end), NEW base
    PROVE  Same(Reconcile(base, parts), Reconcile(base, whole))
<1> ASSUME NEW f
    PROVE  f \in Reconcile(base, parts).adds <=> f \in Reconcile(base, whole).adds
  <2>1. /\ f \in Reconcile(base, parts).adds
              <=> (f \in base.adds \/ AddedIn(parts, f)) /\ ~RemovedIn(parts, f)
        /\ f \in Reconcile(base, whole).adds
              <=> (f \in base.adds \/ AddedIn(whole, f)) /\ ~RemovedIn(whole, f)
    BY ReconcileFiles, Zenon
  <2> RemovedIn(parts, f) <=> RemovedIn(whole, f)
    BY GroupedRemoves, Zenon
  <2> ~RemovedIn(whole, f) => (AddedIn(parts, f) <=> AddedIn(whole, f))
    BY GroupedAdds, Zenon
  <2> QED
    BY <2>1, Zenon
<1> Reconcile(base, parts).header = Reconcile(base, whole).header
  BY GroupedHeader
<1> QED
  BY Zenon DEF Same

-----------------------------------------------------------------------------
(* Replaying a segment.                                                    *)

\* The fields of what Actions makes.
LEMMA ActionsFields ==
    ASSUME NEW a, NEW r, NEW h
    PROVE  /\ Actions(a, r, h).adds = a /\ Actions(a, r, h).removes = r
           /\ Actions(a, r, h).header = h
  BY Zenon DEF Actions

\* Summaries with the same fields are as good.
LEMMA SummarisesFields ==
    ASSUME NEW p, NEW q, NEW pieces, Summarises(q, pieces),
           p.adds = q.adds, p.removes = q.removes, p.header = q.header
    PROVE  Summarises(p, pieces)
  BY Zenon DEF Summarises

\* What the versions after a checkpoint or the start of the log add to it.
LEMMA ReplayOnBase ==
    ASSUME MaxLaw, NEW d, NEW v \in Nat, NEW b \in -1 .. v, CheckpointsAreExact(d),
           b # None => b \in DOMAIN d.checkpoints
    PROVE  Same(Reconcile(Base(d, b), Commits(d, b + 1 .. v)), Version(d, v))
<1> DEFINE lower == Commits(d, 0 .. b)
           upper == Commits(d, b + 1 .. v)
           whole == Commits(d, 0 .. v)
<1>1. Divided(whole, lower, upper, 0, b, v)
  BY DEF Divided, Commits
<1>2. Same(Base(d, b), Reconcile(Nothing, lower))
  <2>1. CASE b = None
    <3>1. DOMAIN lower = {}
      BY <2>1 DEF None, Commits
    <3> HIDE DEF lower
    <3>2. Base(d, b) = Nothing
      BY <2>1, Zenon DEF Base
    <3>3. Bounded(lower) /\ NoHeaderIn(lower)
      BY <3>1, IntervalBounded DEF NoHeaderIn
    <3>4. Reconcile(Nothing, lower).header = Nothing.header
      BY <3>3, ReconcileHeader, Zenon
    <3> \A f : ~AddedIn(lower, f) /\ ~RemovedIn(lower, f)
      BY <3>1, Zenon DEF AddedIn, RemovedIn
    <3> \A f : f \in Reconcile(Nothing, lower).adds <=> f \in Nothing.adds
      BY ReconcileFiles, Zenon
    <3> QED
      BY <3>2, <3>4, Zenon DEF Same
  <2>2. CASE b # None
    <3> USE <2>2
    <3> Base(d, b) = d.checkpoints[b]
      BY Zenon DEF Base
    <3> /\ d.checkpoints[b].adds = Reconcile(Nothing, lower).adds
        /\ d.checkpoints[b].header = Reconcile(Nothing, lower).header
      BY Zenon DEF CheckpointsAreExact, Version
    <3> QED
      BY Zenon DEF Same
  <2> QED
    BY <2>1, <2>2, Zenon
<1> 0 \in Int /\ v \in Int /\ b \in Int /\ 0 <= b + 1 /\ b <= v
  OBVIOUS
<1> HIDE DEF lower, upper, whole
<1> Same(Reconcile(Base(d, b), upper), Reconcile(Nothing, whole))
  BY <1>1, <1>2, ReconcileOnTop, Zenon
<1> QED
  BY Zenon DEF upper, whole, Version

\* A segment without gaps after checkpoint b.
Complete(d, segment, b, v) ==
    /\ segment.checkpoint = b /\ segment.ranges \subseteq DOMAIN d.compactions
    /\ \A r \in segment.ranges :
         r[1] \in Int /\ r[2] \in Int /\ b < r[1] /\ r[1] <= r[2] /\ r[2] <= v
    /\ segment.covered = UNION {r[1] .. r[2] : r \in segment.ranges}
    /\ \A c \in segment.commits : c \notin segment.covered
    /\ Contiguous(segment, v)

\* A replay from `start` on leaves none of its files out.
Reaches(segment, start) == \A p \in Starts(segment) \cup segment.commits : p >= start

\* Compactions and commits of such a segment come to the commits alone.
LEMMA ReplayWithoutGaps ==
    ASSUME MaxLaw, NEW d, NEW v \in Nat, NEW b \in -1 .. v, NEW segment, Complete(d, segment, b, v),
           CompactionsAreExact(d), NEW start, Reaches(segment, start)
    PROVE  Same(Replay(d, segment, start), Reconcile(Base(d, b), Commits(d, b + 1 .. v)))
<1> DEFINE starts == {r[1] : r \in segment.ranges}
           range(s) == CHOOSE r \in segment.ranges : r[1] = s
           part(p) == IF p \in starts
                      THEN LET c == d.compactions[range(p)] IN Actions(c.adds, c.removes, c.header)
                      ELSE Commit(d, p)
           parts == [p \in starts \cup segment.commits |-> part(p)]
           end == [p \in starts \cup segment.commits |-> IF p \in starts THEN range(p)[2] ELSE p]
           whole == Commits(d, b + 1 .. v)
<1>1. Replay(d, segment, start) = Reconcile(Base(d, b), parts)
  <2> starts = Starts(segment) /\ segment.checkpoint = b
    BY Zenon DEF Starts, Complete
  <2>1. {p \in Starts(segment) \cup segment.commits : p >= start} = starts \cup segment.commits
    BY Zenon DEF Reaches
  <2>2. \A p : Part(d, segment, p) = part(p)
    BY Zenon DEF Part, Starts
  <2> HIDE DEF starts, part
  <2> QED
    BY <2>1, <2>2, Zenon DEF Replay
<1>2. \A r \in segment.ranges :
         r[1] \in Int /\ r[2] \in Int /\ b < r[1] /\ r[1] <= r[2] /\ r[2] <= v
  BY Zenon DEF Complete
<1>3. \A k \in segment.covered : \E r \in segment.ranges : k \in r[1] .. r[2]
  BY DEF Complete
<1>4. \A r \in segment.ranges : \A k \in r[1] .. r[2] : k \in segment.covered
  BY Zenon DEF Complete
<1>5. segment.commits \cup segment.covered = b + 1 .. v
  BY Zenon DEF Complete, Contiguous
<1>6. \A c \in segment.commits : c \notin segment.covered
  BY Zenon DEF Complete
<1>7. \A r, s \in segment.ranges : r = s \/ r[2] < s[1] \/ s[2] < r[1]
  BY Zenon DEF Complete, CompactionsAreExact
<1>8. \A r \in segment.ranges : range(r[1]) = r
  <2> TAKE r \in segment.ranges
  <2> range(r[1]) \in segment.ranges /\ range(r[1])[1] = r[1]
    BY Zenon
  <2> QED
    BY <1>2, <1>7
<1>9. /\ DOMAIN parts = starts \cup segment.commits /\ DOMAIN whole = b + 1 .. v
      /\ \A k \in b + 1 .. v : whole[k] = Commit(d, k)
  BY Zenon DEF Commits
<1>10. \A r \in segment.ranges : r[1] \in DOMAIN parts /\ end[r[1]] = r[2]
                                  /\ parts[r[1]] = Actions(d.compactions[r].adds,
                                        d.compactions[r].removes, d.compactions[r].header)
  BY <1>8, Zenon
<1>11. \A c \in segment.commits : c \in DOMAIN parts /\ end[c] = c /\ parts[c] = Commit(d, c)
  <2> SUFFICES ASSUME NEW c \in segment.commits
               PROVE  c \in DOMAIN parts /\ end[c] = c /\ parts[c] = Commit(d, c)
    BY Zenon
  <2> c \notin starts
    BY <1>2, <1>4, <1>6
  <2> QED
    BY Zenon
<1>12. \A p \in DOMAIN parts : p \in segment.commits \/ \E r \in segment.ranges : p = r[1]
  BY Zenon
<1> HIDE DEF parts, end, whole, range
<1>13. \A p \in DOMAIN parts : p \in b + 1 .. v /\ end[p] \in p .. v
  <2> TAKE p \in DOMAIN parts
  <2>1. CASE p \in segment.commits
    BY <1>5, <1>11, <2>1
  <2>2. ASSUME NEW r \in segment.ranges, p = r[1] PROVE p \in b + 1 .. v /\ end[p] \in p .. v
    BY <1>2, <1>10, <2>2
  <2> QED
    BY <1>12, <2>1, <2>2, Zenon
<1>14. \A p \in DOMAIN parts : Summarises(parts[p], Within(whole, p, end[p]))
  <2> TAKE p \in DOMAIN parts
  <2>1. CASE p \in segment.commits
    <3> parts[p] = whole[p] /\ end[p] = p /\ p \in Int
      BY <1>5, <1>9, <1>11, <2>1
    <3> QED
      BY CommitSummarises, Zenon
  <2>2. ASSUME NEW r \in segment.ranges, p = r[1]
        PROVE  Summarises(parts[p], Within(whole, p, end[p]))
    <3> DEFINE pieces == Commits(d, r[1] .. r[2])
               state == Reconcile(Nothing, pieces)
    <3>1. Bounded(pieces)
      <4> DOMAIN pieces \subseteq r[1] .. r[2]
        BY Zenon DEF Commits
      <4> HIDE DEF pieces
      <4> QED
        BY <1>2, IntervalBounded, Zenon
    <3>2. pieces = Within(whole, p, end[p])
      BY <1>2, <1>9, <1>10, <2>2 DEF Commits, Within
    <3>3. r \in DOMAIN d.compactions
      BY Zenon DEF Complete
    <3>4. /\ d.compactions[r].adds = state.adds /\ d.compactions[r].removes = state.removes
          /\ d.compactions[r].header = state.header
      BY <3>3, Zenon DEF CompactionsAreExact
    <3> HIDE DEF pieces
    <3> Summarises(state, pieces)
      BY <3>1, ReconcileSummarises, Zenon
    <3> HIDE DEF state
    <3> /\ parts[p].adds = state.adds /\ parts[p].removes = state.removes
        /\ parts[p].header = state.header
      BY <1>10, <2>2, <3>4, ActionsFields
    <3> QED
      BY <3>2, SummarisesFields, Zenon
  <2> QED
    BY <1>12, <2>1, <2>2, Zenon
<1>15. ASSUME NEW p \in DOMAIN parts, NEW q \in DOMAIN parts, p < q PROVE end[p] < q
  <2> USE <1>15
  <2>1. CASE p \in segment.commits
    BY <1>11, <2>1, Zenon
  <2>2. ASSUME NEW r \in segment.ranges, p = r[1] PROVE end[p] < q
    <3> USE <2>2
    <3> end[p] = r[2]
      BY <1>10, Zenon
    <3>2. CASE q \in segment.commits
      BY <1>2, <1>4, <1>5, <1>6, <3>2
    <3>3. ASSUME NEW s \in segment.ranges, q = s[1] PROVE end[p] < q
      BY <1>2, <1>7, <3>3
    <3> QED
      BY <1>12, <3>2, <3>3, Zenon
  <2> QED
    BY <1>12, <2>1, <2>2, Zenon
<1>16. ASSUME NEW k \in b + 1 .. v PROVE \E p \in DOMAIN parts : k \in p .. end[p]
  <2>1. CASE k \in segment.commits
    BY <1>11, <2>1
  <2>2. CASE k \in segment.covered
    <3> PICK r \in segment.ranges : k \in r[1] .. r[2]
      BY <1>3, <2>2, Zenon
    <3> QED
      BY <1>10, Zenon
  <2> QED
    BY <1>5, <2>1, <2>2, Zenon
<1>17. Grouped(parts, whole, b + 1, v, end)
  BY <1>9, <1>13, <1>14, <1>15, <1>16, Zenon DEF Grouped
<1> b + 1 \in Int /\ v \in Int
  OBVIOUS
<1> Same(Reconcile(Base(d, b), parts), Reconcile(Base(d, b), whole))
  BY <1>17, CompactedReplay, Zenon
<1> QED
  BY <1>1, Zenon DEF whole

\* A reader starts from a checkpoint that is there, or from none.
LEMMA CheckpointForIs ==
    ASSUME MaxLaw, NEW d, Len(d.log) \in Nat, FilesAreInLog(d), NEW v \in Nat
    PROVE  /\ CheckpointFor(d, v) \in -1 .. v
           /\ CheckpointFor(d, v) # None => CheckpointFor(d, v) \in DOMAIN d.checkpoints
           /\ \A c \in DOMAIN d.checkpoints :
                c >= Offset(d, v) /\ c <= v => CheckpointFor(d, v) >= c
<1> DEFINE found == {c \in DOMAIN d.checkpoints : c >= Offset(d, v) /\ c <= v}
<1>1. CheckpointFor(d, v) = IF found = {} THEN None ELSE Max(found)
  BY Zenon DEF CheckpointFor
<1>2. found \in SUBSET (0 .. v)
  BY DEF FilesAreInLog
<1>3. CASE found = {}
  BY <1>1, <1>3 DEF None
<1>4. CASE found # {}
  <2>1. \A c \in found : c \in DOMAIN d.checkpoints
    BY Zenon
  <2>2. \A c \in DOMAIN d.checkpoints : c >= Offset(d, v) /\ c <= v => c \in found
    BY Zenon
  <2> HIDE DEF found
  <2>3. v \in Int
    OBVIOUS
  <2>4. Max(found) \in found /\ \A y \in found : Max(found) >= y
    BY <1>2, <1>4, <2>3, MaxOfVersions, Zenon
  <2> PICK m \in found : m = Max(found) /\ \A y \in found : m >= y
    BY <2>4, Zenon
  <2> CheckpointFor(d, v) = m
    BY <1>1, <1>4, Zenon
  <2> m \in -1 .. v
    BY <1>2
  <2> QED
    BY <2>1, <2>2, Zenon
<1> QED
  BY <1>3, <1>4, Zenon

\* Whatever files a reader of version v puts together, without a gap and with
\* none left out they come to what was committed up to v.
LEMMA ReplayReaches ==
    ASSUME MaxLaw, NEW d, Len(d.log) \in Nat, FilesAreInLog(d),
           CheckpointsAreExact(d), CompactionsAreExact(d),
           NEW v \in Nat, Contiguous(Segment(d, v), v), NEW start, Reaches(Segment(d, v), start)
    PROVE  /\ Replay(d, Segment(d, v), start).adds = Version(d, v).adds
           /\ Replay(d, Segment(d, v), start).header = Version(d, v).header
<1> DEFINE b == CheckpointFor(d, v)
           segment == Segment(d, v)
<1>1. b \in -1 .. v /\ (b # None => b \in DOMAIN d.checkpoints)
  BY CheckpointForIs, Zenon
<1>2. Complete(d, segment, b, v)
  BY DEF Segment, Complete, FilesAreInLog
<1> HIDE DEF b
<1>3. Same(Replay(d, segment, start), Reconcile(Base(d, b), Commits(d, b + 1 .. v)))
  BY <1>1, <1>2, ReplayWithoutGaps, Zenon
<1>4. Same(Reconcile(Base(d, b), Commits(d, b + 1 .. v)), Version(d, v))
  BY <1>1, ReplayOnBase, Zenon
<1> /\ \A f : f \in Replay(d, segment, start).adds <=> f \in Version(d, v).adds
    /\ Replay(d, segment, start).header = Version(d, v).header
  BY <1>3, <1>4, Zenon DEF Same
<1> Replay(d, segment, start).adds = Version(d, v).adds
  BY Zenon
<1> QED
  BY Zenon

\* The positions of a segment are versions after its checkpoint.
LEMMA SegmentPositions ==
    ASSUME MaxLaw, NEW d, Len(d.log) \in Nat, FilesAreInLog(d), NEW v \in Nat,
           Contiguous(Segment(d, v), v)
    PROVE  LET segment == Segment(d, v)
           IN  \A p \in Starts(segment) \cup segment.commits :
                 p \in Nat /\ p > segment.checkpoint /\ p <= v
<1> DEFINE segment == Segment(d, v)
<1>1. segment.checkpoint \in -1 .. v
  BY CheckpointForIs, Zenon DEF Segment
<1>2. \A r \in segment.ranges : r \in DOMAIN d.compactions /\ r[1] > segment.checkpoint /\ r[2] <= v
  BY Zenon DEF Segment
<1>3. \A r \in DOMAIN d.compactions : r[1] \in Nat /\ r[2] \in Int /\ r[1] <= r[2]
  BY DEF FilesAreInLog
<1>4. segment.commits \subseteq segment.checkpoint + 1 .. v
  BY Zenon DEF Contiguous
<1> HIDE DEF segment
<1>5. \A p \in segment.commits : p \in Nat /\ p > segment.checkpoint /\ p <= v
  BY <1>1, <1>4
<1>6. \A r \in segment.ranges : r[1] \in Nat /\ r[1] > segment.checkpoint /\ r[1] <= v
  BY <1>2, <1>3
<1>7. \A p \in Starts(segment) : p \in Nat /\ p > segment.checkpoint /\ p <= v
  BY <1>6, Zenon DEF Starts
<1> QED
  BY <1>5, <1>7, Zenon DEF segment

\* A minimum of versions, which is chosen, is one if there is one.
LEMMA LeastIs ==
    ASSUME NEW S, NEW m \in S, \A x \in S : x \in Int /\ m <= x
    PROVE  Min(S) = m
<1> Min(S) = CHOOSE x \in S : \A y \in S : x <= y
  BY Zenon DEF Min
<1> DEFINE x == Min(S)
<1> x \in S /\ \A y \in S : x <= y
  BY Zenon
<1> HIDE DEF x
<1> QED
  BY DEF x

\* If no compaction starts right after a checkpoint, the commit after the
\* checkpoint is the first one that none covers, and nothing is left out.
LEMMA NothingIsSkipped ==
    ASSUME MaxLaw, NEW d, Len(d.log) \in Nat, FilesAreInLog(d), NoneIsSkipped(d), NEW v \in Nat,
           Contiguous(Segment(d, v), v)
    PROVE  Reaches(Segment(d, v), StartCommitVersion(Segment(d, v), v))
<1> DEFINE segment == Segment(d, v)
           b == segment.checkpoint
<1>1. \A p \in Starts(segment) \cup segment.commits : p \in Nat /\ p > b /\ p <= v
  BY SegmentPositions, Zenon
<1>2. b \in -1 .. v /\ (b # None => b \in DOMAIN d.checkpoints)
  BY CheckpointForIs, Zenon DEF Segment
<1>3. segment.covered = UNION {r[1] .. r[2] : r \in segment.ranges}
  BY Zenon DEF Segment
<1>4. \A r \in segment.ranges : r \in DOMAIN d.compactions
  BY Zenon DEF Segment
<1>5. segment.commits \cup segment.covered = b + 1 .. v
  BY Zenon DEF Contiguous
<1> HIDE DEF segment
<1>6. CASE b = None
  <2> StartCommitVersion(segment, v) = 0
    BY <1>6, Zenon DEF StartCommitVersion
  <2> QED
    BY <1>1 DEF Reaches, segment
<1>7. ASSUME b # None, b + 1 <= v PROVE b + 1 \in segment.commits
  <2> SUFFICES ASSUME b + 1 \in segment.covered PROVE FALSE
    BY <1>2, <1>5, <1>7
  <2> PICK r \in segment.ranges : b + 1 \in r[1] .. r[2]
    BY <1>3
  <2> r[1] \in Starts(segment)
    BY Zenon DEF Starts
  <2> r[1] \in Nat /\ r[1] > b
    BY <1>1, Zenon
  <2> r[1] - 1 = b
    BY <1>2
  <2> QED
    BY <1>2, <1>4, <1>7, Zenon DEF NoneIsSkipped
<1>8. CASE b # None /\ b + 1 <= v
  <2>1. b + 1 \in segment.commits
    BY <1>7, <1>8, Zenon
  <2>2. \A p \in segment.commits : p \in Int /\ b + 1 <= p
    BY <1>1, <1>2
  <2>3. Min(segment.commits) = b + 1
    BY <2>1, <2>2, LeastIs, Zenon
  <2>4. StartCommitVersion(segment, v) = b + 1
    BY <1>8, <2>1, <2>3, Zenon DEF StartCommitVersion
  <2>5. \A p \in Starts(segment) \cup segment.commits : p >= b + 1
    BY <1>1, <1>2
  <2> QED
    BY <2>4, <2>5, Zenon DEF Reaches, segment
<1>9. CASE ~(b + 1 <= v)
  <2> \A p \in Starts(segment) \cup segment.commits : FALSE
    BY <1>1, <1>2, <1>9
  <2> QED
    BY Zenon DEF Reaches, segment
<1> QED
  BY <1>6, <1>8, <1>9, Zenon

\* A scan reads every file of the segment; a full load does if none is skipped.
LEMMA ExactReplay ==
    ASSUME MaxLaw, NEW d, Len(d.log) \in Nat, FilesAreInLog(d),
           CheckpointsAreExact(d), CompactionsAreExact(d),
           NEW v \in Nat, Contiguous(Segment(d, v), v)
    PROVE  /\ ScanFiles(d, v) = Version(d, v).adds
           /\ NoneIsSkipped(d) => /\ LoadState(d, v).adds = Version(d, v).adds
                                  /\ LoadState(d, v).header = Version(d, v).header
<1> DEFINE segment == Segment(d, v)
<1>1. Reaches(segment, 0)
  <2> \A p \in Starts(segment) \cup segment.commits : p \in Nat
    BY SegmentPositions, Zenon
  <2> HIDE DEF segment
  <2> QED
    BY DEF Reaches
<1>2. ScanFiles(d, v) = Version(d, v).adds
  BY <1>1, ReplayReaches, Zenon DEF ScanFiles
<1>3. ASSUME NoneIsSkipped(d)
      PROVE  /\ LoadState(d, v).adds = Version(d, v).adds
             /\ LoadState(d, v).header = Version(d, v).header
  <2> Reaches(segment, StartCommitVersion(segment, v))
    BY <1>3, NothingIsSkipped, Zenon
  <2> QED
    BY ReplayReaches, Zenon DEF LoadState
<1> QED
  BY <1>2, <1>3, Zenon

\* The last version is the one that a listing from the hint finds.
LEMMA LatestVersionIs ==
    ASSUME NEW d, Len(d.log) \in Nat, FilesAreInLog(d), NothingIsMissing(d)
    PROVE  LatestVersion(d) = Len(d.log) - 1
<1> DEFINE n == Len(d.log)
           from == IF d.hint = None THEN 0 ELSE d.hint - 1
           all == d.commits \cup DOMAIN d.checkpoints \cup {r[2] : r \in DOMAIN d.compactions}
           found == {v \in all : v >= from}
<1>1. LatestVersion(d) = IF found = {} THEN None ELSE Max(found)
  BY Zenon DEF LatestVersion
<1>2. all \subseteq 0 .. n - 1
  <2> \A r \in DOMAIN d.compactions : r[2] \in 0 .. n - 1
    BY DEF FilesAreInLog
  <2> QED
    BY Zenon DEF FilesAreInLog
<1>3. found \in SUBSET Int /\ \A y \in found : y \in 0 .. n - 1
  BY <1>2
<1>4. CASE n = 0
  <2> USE <1>4
  <2> found = {}
    BY <1>2
  <2> QED
    BY <1>1 DEF None
<1>5. CASE n > 0
  <2>1. n - 1 \in d.commits
    <3> \A c \in DOMAIN d.checkpoints : ~(c > n - 1)
      BY <1>5 DEF FilesAreInLog
    <3> n - 1 \in 0 .. n - 1
      BY <1>5
    <3> QED
      BY Zenon DEF NothingIsMissing
  <2>2. n - 1 >= from
    BY <1>5 DEF FilesAreInLog, None
  <2> n - 1 \in found
    BY <2>1, <2>2, Zenon
  <2> \A y \in found : n - 1 >= y
    BY <1>3
  <2> HIDE DEF found
  <2> Max(found) = n - 1
    BY <1>3, MaxIs, Zenon
  <2> QED
    BY <1>1, Zenon
<1> QED
  BY <1>4, <1>5

\* The segment of the last version has no gap.
LEMMA LatestIsContiguous ==
    ASSUME MaxLaw, NEW d, Len(d.log) \in Nat \ {0}, FilesAreInLog(d), NothingIsMissing(d)
    PROVE  Contiguous(Segment(d, Len(d.log) - 1), Len(d.log) - 1)
<1> DEFINE v == Len(d.log) - 1
           b == CheckpointFor(d, v)
<1>1. v \in Nat
  OBVIOUS
<1>2. Offset(d, v) = IF d.hint = None THEN 0 ELSE d.hint - 1
  <2>1. CASE d.hint # None
    <3> d.hint \in Int /\ v \in Int /\ v >= d.hint
      BY DEF FilesAreInLog
    <3> Min({d.hint, v}) = d.hint
      BY DEF Min
    <3> QED
      BY <2>1, Zenon DEF Offset
  <2> QED
    BY <2>1, Zenon DEF Offset
<1>3. \A c \in DOMAIN d.checkpoints : c \in 0 .. v
  BY Zenon DEF FilesAreInLog
<1>4. b \in -1 .. v /\ \A c \in DOMAIN d.checkpoints : c >= Offset(d, v) /\ c <= v => b >= c
  BY <1>1, CheckpointForIs, Zenon
<1>5. d.hint # None => b >= d.hint
  <2> SUFFICES ASSUME d.hint # None PROVE b >= d.hint
    BY Zenon
  <2> PICK c \in DOMAIN d.checkpoints : c >= d.hint
    BY Zenon DEF NothingIsMissing
  <2> d.hint \in Int
    BY DEF FilesAreInLog
  <2> c >= Offset(d, v) /\ c <= v
    BY <1>2, <1>3
  <2> QED
    BY <1>3, <1>4
<1>6. \A c \in DOMAIN d.checkpoints : b >= c
  <2> TAKE c \in DOMAIN d.checkpoints
  <2> c \in 0 .. v
    BY <1>3, Zenon
  <2>2. CASE c >= Offset(d, v)
    BY <1>4, <2>2
  <2>3. CASE ~(c >= Offset(d, v))
    <3> d.hint # None /\ d.hint \in Int /\ c < d.hint - 1
      BY <1>2, <2>3 DEF FilesAreInLog
    <3> QED
      BY <1>4, <1>5
  <2> QED
    BY <2>2, <2>3, Zenon
<1>7. \A k \in b + 1 .. v : k \in d.commits
  <2> TAKE k \in b + 1 .. v
  <2> k \in 0 .. v
    BY <1>4
  <2> \A c \in DOMAIN d.checkpoints : ~(c > k)
    BY <1>3, <1>4, <1>6
  <2> QED
    BY Zenon DEF NothingIsMissing
<1>8. \A k \in b + 1 .. v : k >= Offset(d, v)
  BY <1>2, <1>4, <1>5 DEF FilesAreInLog
<1>9. {c \in Listed(d, v) : c > b} = b + 1 .. v
  <2> d.commits \subseteq 0 .. v
    BY Zenon DEF FilesAreInLog
  <2> QED
    BY <1>4, <1>7, <1>8 DEF Listed
<1> DEFINE segment == Segment(d, v)
<1>10. segment.commits = (b + 1 .. v) \ segment.covered
  BY <1>9, Zenon DEF Segment
<1> segment.covered \subseteq b + 1 .. v
  <2>1. segment.covered = UNION {r[1] .. r[2] : r \in segment.ranges}
    BY Zenon DEF Segment
  <2>2. \A r \in segment.ranges : r \in DOMAIN d.compactions /\ r[1] > b /\ r[2] <= v
    BY Zenon DEF Segment
  <2> \A r \in DOMAIN d.compactions : r[1] \in Int /\ r[2] \in Int
    BY DEF FilesAreInLog
  <2> HIDE DEF segment, b
  <2> \A r \in segment.ranges : r[1] .. r[2] \subseteq b + 1 .. v
    BY <1>4, <2>2
  <2> QED
    BY <2>1, Zenon
<1> segment.checkpoint = b
  BY Zenon DEF Segment
<1> QED
  BY <1>10, Zenon DEF Contiguous

\* A table has a header from its first version on.
LEMMA VersionHasHeader ==
    ASSUME MaxLaw, NEW d, NEW v \in Nat, d.log[1].header # NoHeader
    PROVE  Version(d, v).header # NoHeader
<1> DEFINE parts == Commits(d, 0 .. v)
<1>1. DOMAIN parts = 0 .. v /\ parts[0].header = d.log[1].header
  BY ActionsFields DEF Commits, Commit
<1> HIDE DEF parts
<1>2. 0 \in Int /\ v \in Int /\ DOMAIN parts \subseteq 0 .. v
  BY <1>1
<1>3. Bounded(parts)
  BY <1>2, IntervalBounded, Zenon
<1>4. ~NoHeaderIn(parts)
  BY <1>1 DEF NoHeaderIn
<1> LastHeader(parts, Reconcile(Nothing, parts).header)
  BY <1>3, <1>4, ReconcileHeader, Zenon
<1> Reconcile(Nothing, parts).header # NoHeader
  BY Zenon DEF LastHeader
<1> QED
  BY Zenon DEF Version, parts

\* The header of a version stays until a later one sets another.
LEMMA HeaderStays ==
    ASSUME MaxLaw, NEW d, NEW b \in Nat, NEW v \in Nat, b <= v,
           \A k \in b + 1 .. v : d.log[k + 1].header = NoHeader
    PROVE  Version(d, v).header = Version(d, b).header
<1> DEFINE lower == Commits(d, 0 .. b)
           upper == Commits(d, b + 1 .. v)
           whole == Commits(d, 0 .. v)
           mid == Reconcile(Nothing, lower)
<1>1. Divided(whole, lower, upper, 0, b, v)
  BY DEF Divided, Commits
<1>2. DOMAIN upper = b + 1 .. v /\ \A k \in b + 1 .. v : upper[k].header = NoHeader
  BY ActionsFields DEF Commits, Commit
<1> HIDE DEF lower, upper, whole
<1>3. NoHeaderIn(upper)
  BY <1>2, Zenon DEF NoHeaderIn
<1>4. Bounded(upper)
  <2> b + 1 \in Int /\ v \in Int /\ DOMAIN upper \subseteq b + 1 .. v
    BY <1>2
  <2> QED
    BY IntervalBounded, Zenon
<1>5. 0 \in Int /\ v \in Int /\ b \in Int /\ 0 <= b + 1 /\ b <= v
  OBVIOUS
<1>6. Same(mid, Reconcile(Nothing, lower))
  BY Zenon DEF Same
<1> Same(Reconcile(mid, upper), Reconcile(Nothing, whole))
  BY <1>1, <1>5, <1>6, ReconcileOnTop, Zenon
<1> Reconcile(mid, upper).header = mid.header
  BY <1>3, <1>4, ReconcileHeader, Zenon
<1> QED
  BY Zenon DEF Same, Version, lower, whole

\* Whoever opens a well kept directory finds the last version, can load it, and
\* finds in it what was committed.
LEMMA Readable ==
    ASSUME MaxLaw, NEW d, NEW S, d.log \in Seq(S), WellKept(d), d.log # <<>>
    PROVE  LET v == LatestVersion(d)
           IN  /\ v = Len(d.log) - 1
               /\ ScanFiles(d, v) = Version(d, v).adds
               /\ NoneIsSkipped(d) => /\ CanLoadState(d, v)
                                      /\ LoadState(d, v).adds = Version(d, v).adds
                                      /\ LoadState(d, v).header = Version(d, v).header
<1> DEFINE v == Len(d.log) - 1
<1> Len(d.log) \in Nat /\ Len(d.log) \in Nat \ {0} /\ v \in Nat
  OBVIOUS
<1>2. LatestVersion(d) = v
  BY LatestVersionIs, Zenon DEF WellKept
<1> Contiguous(Segment(d, v), v)
  BY LatestIsContiguous, Zenon DEF WellKept
<1>3. /\ ScanFiles(d, v) = Version(d, v).adds
      /\ NoneIsSkipped(d) => /\ LoadState(d, v).adds = Version(d, v).adds
                             /\ LoadState(d, v).header = Version(d, v).header
  BY ExactReplay, Zenon DEF WellKept
<1> Version(d, v).header # NoHeader
  BY VersionHasHeader, Zenon DEF WellKept
<1>4. NoneIsSkipped(d) => CanLoadState(d, v)
  BY <1>3, Zenon DEF CanLoadState
<1> QED
  BY <1>2, <1>3, <1>4, Zenon

\* The commits up to a version, one by one.
LEMMA CommitsAre ==
    ASSUME NEW d, NEW v \in Nat
    PROVE  LET parts == Commits(d, 0 .. v)
           IN  /\ DOMAIN parts = 0 .. v /\ Bounded(parts)
               /\ \A k \in 0 .. v : /\ parts[k].adds = d.log[k + 1].adds
                                    /\ parts[k].removes = d.log[k + 1].removes
                                    /\ parts[k].header = d.log[k + 1].header
<1> DEFINE parts == Commits(d, 0 .. v)
<1> DOMAIN parts = 0 .. v /\ \A k \in 0 .. v : parts[k] = Commit(d, k)
  BY Zenon DEF Commits
<1> HIDE DEF parts
<1>2. 0 \in Int /\ v \in Int /\ DOMAIN parts \subseteq 0 .. v
  OBVIOUS
<1> Bounded(parts)
  BY <1>2, IntervalBounded, Zenon
<1> \A k \in 0 .. v : /\ parts[k].adds = d.log[k + 1].adds
                      /\ parts[k].removes = d.log[k + 1].removes
                      /\ parts[k].header = d.log[k + 1].header
  BY ActionsFields DEF Commit
<1> QED
  BY Zenon DEF parts

\* The files of a version are those that were added and not removed from then on.
LEMMA VersionFiles ==
    ASSUME MaxLaw, NEW d, NEW v \in Nat, NEW f
    PROVE  f \in Version(d, v).adds <=>
             \E k \in 0 .. v :
                f \in d.log[k + 1].adds /\ \A j \in k .. v : f \notin d.log[j + 1].removes
<1> DEFINE parts == Commits(d, 0 .. v)
<1>1. /\ DOMAIN parts = 0 .. v /\ Bounded(parts)
      /\ \A k \in 0 .. v : parts[k].adds = d.log[k + 1].adds
                            /\ parts[k].removes = d.log[k + 1].removes
  BY CommitsAre, Zenon
<1>2. Nothing.adds = {} /\ Version(d, v) = Reconcile(Nothing, parts)
  BY Zenon DEF Nothing, Actions, Version
<1> HIDE DEF parts
<1>3. f \in Version(d, v).adds <=> AddedIn(parts, f) /\ ~RemovedIn(parts, f)
  BY <1>2, ReconcileFiles, Zenon
<1>4. ASSUME NEW k \in 0 .. v, f \in parts[k].adds, \A j \in k .. v : f \notin parts[j].removes
      PROVE  AddedIn(parts, f) /\ ~RemovedIn(parts, f)
  <2> USE <1>4
  <2>1. AddedIn(parts, f)
    BY <1>1, Zenon DEF AddedIn
  <2>2. ASSUME RemovedIn(parts, f) PROVE FALSE
    <3> PICK q \in 0 .. v : f \in parts[q].removes
            /\ \A p \in 0 .. v : p > q => f \notin parts[p].adds
      BY <1>1, <2>2, Zenon DEF RemovedIn
    <3> ~(k > q)
      BY Zenon
    <3> q \in k .. v
      OBVIOUS
    <3> QED
      BY Zenon
  <2> QED
    BY <2>1, <2>2, Zenon
<1>5. ASSUME AddedIn(parts, f), ~RemovedIn(parts, f)
      PROVE  \E k \in 0 .. v : f \in parts[k].adds /\ \A j \in k .. v : f \notin parts[j].removes
  <2> USE <1>5
  <2> PICK k \in 0 .. v :
          f \in parts[k].adds /\ \A j \in 0 .. v : j > k => f \notin parts[j].adds
    BY <1>1, LastAdd, Zenon
  <2> \A j \in k .. v : f \notin parts[j].removes
    BY <1>1 DEF RemovedIn
  <2> QED
    BY Zenon
<1> \A k \in 0 .. v : \A j \in k .. v : j \in 0 .. v
  OBVIOUS
<1> QED
  BY <1>1, <1>3, <1>4, <1>5, Zenon

\* The header of a version is the last that was set.
LEMMA VersionHeader ==
    ASSUME MaxLaw, NEW d, NEW v \in Nat, NEW p \in 0 .. v, d.log[p + 1].header # NoHeader,
           \A q \in 0 .. v : q > p => d.log[q + 1].header = NoHeader
    PROVE  Version(d, v).header = d.log[p + 1].header
<1> DEFINE parts == Commits(d, 0 .. v)
<1> /\ DOMAIN parts = 0 .. v /\ Bounded(parts)
    /\ \A k \in 0 .. v : parts[k].header = d.log[k + 1].header
  BY CommitsAre, Zenon
<1> HIDE DEF parts
<1> LastHeader(parts, d.log[p + 1].header)
  BY Zenon DEF LastHeader
<1> Reconcile(Nothing, parts).header = d.log[p + 1].header
  BY ReconcileHeader
<1> QED
  BY Zenon DEF Version, parts

-----------------------------------------------------------------------------
(* Writing the directory.                                                  *)

\* A directory, of whatever entries.
Shaped(d) ==
    /\ d = Dir(d.log, d.commits, d.hint, d.checkpoints, d.compactions)
    /\ \E S : d.log \in Seq(S)

\* Logs that agree on some versions have the same commits there.
LEMMA CommitsAgree ==
    ASSUME NEW d, NEW e, NEW K, \A k \in K : e.log[k + 1] = d.log[k + 1]
    PROVE  Commits(e, K) = Commits(d, K)
  BY Zenon DEF Commits, Commit

\* A commit at the end of the log keeps the directory well kept.
LEMMA AppendKeeps ==
    ASSUME NEW d, Shaped(d), WellKept(d), NEW entry,
           d.log = <<>> => entry.header # NoHeader
    PROVE  LET e == WriteCommitEntry(d, Len(d.log), entry)
           IN  /\ Shaped(e) /\ WellKept(e)
               /\ e.log = Append(d.log, entry) /\ e.commits = d.commits \cup {Len(d.log)}
               /\ e.checkpoints = d.checkpoints /\ e.compactions = d.compactions
               /\ e.hint = d.hint
<1> DEFINE n == Len(d.log)
           e == WriteCommitEntry(d, n, entry)
<1>1. PICK S : d.log \in Seq(S)
  BY Zenon DEF Shaped
<1>2. n \in Nat
  BY <1>1
<1>3. /\ e.log = Append(d.log, entry) /\ e.commits = d.commits \cup {n}
      /\ e.checkpoints = d.checkpoints /\ e.compactions = d.compactions /\ e.hint = d.hint
      /\ e = Dir(e.log, e.commits, e.hint, e.checkpoints, e.compactions)
  <2> e = Dir(Append(d.log, entry), d.commits \cup {n}, d.hint, d.checkpoints, d.compactions)
    BY Zenon DEF WriteCommitEntry
  <2> HIDE DEF e
  <2> QED
    BY Zenon DEF Dir
<1> HIDE DEF e
<1>4. Append(d.log, entry) \in Seq(S \cup {entry})
  <2> d.log \in Seq(S \cup {entry})
    BY <1>1
  <2> QED
    OBVIOUS
<1>5. /\ Len(e.log) = n + 1 /\ \A i \in 1 .. n : e.log[i] = d.log[i]
      /\ e.log[n + 1] = entry
  BY <1>1, <1>3
<1>6. Shaped(e)
  BY <1>3, <1>4, Zenon DEF Shaped
<1>7. e.log # <<>> => e.log[1].header # NoHeader
  <2>1. CASE d.log = <<>>
    BY <1>1, <1>5, <2>1
  <2>2. CASE d.log # <<>>
    BY <1>1, <1>5, <2>2 DEF WellKept
  <2> QED
    BY <2>1, <2>2, Zenon
<1>8. FilesAreInLog(e)
  <2> 0 .. n - 1 \subseteq 0 .. n /\ n \in 0 .. n /\ -1 .. n - 1 \subseteq -1 .. n
    BY <1>2
  <2> FilesAreInLog(d)
    BY Zenon DEF WellKept
  <2> QED
    BY <1>2, <1>3, <1>5 DEF FilesAreInLog
<1>9. NothingIsMissing(e)
  <2> NothingIsMissing(d)
    BY Zenon DEF WellKept
  <2> \A v \in 0 .. n : v \in 0 .. n - 1 \/ v = n
    BY <1>2
  <2> QED
    BY <1>2, <1>3, <1>5 DEF NothingIsMissing
<1>10. \A K : K \subseteq 0 .. n - 1 => Commits(e, K) = Commits(d, K)
  <2> SUFFICES ASSUME NEW K, K \subseteq 0 .. n - 1 PROVE Commits(e, K) = Commits(d, K)
    BY Zenon
  <2> \A k \in K : e.log[k + 1] = d.log[k + 1]
    BY <1>2, <1>5
  <2> QED
    BY CommitsAgree, Zenon
<1>11. CheckpointsAreExact(e)
  <2> \A v \in DOMAIN d.checkpoints : 0 .. v \subseteq 0 .. n - 1
    BY <1>2 DEF WellKept, FilesAreInLog
  <2> \A v \in DOMAIN d.checkpoints : Version(e, v) = Version(d, v)
    BY <1>10, Zenon DEF Version
  <2> QED
    BY <1>3, Zenon DEF WellKept, CheckpointsAreExact
<1> CompactionsAreExact(e)
  <2> \A r \in DOMAIN d.compactions : r[1] .. r[2] \subseteq 0 .. n - 1
    BY <1>2 DEF WellKept, FilesAreInLog
  <2> \A r \in DOMAIN d.compactions : Commits(e, r[1] .. r[2]) = Commits(d, r[1] .. r[2])
    BY <1>10, Zenon
  <2> QED
    BY <1>3, Zenon DEF WellKept, CompactionsAreExact
<1> WellKept(e)
  BY <1>7, <1>8, <1>9, <1>11, Zenon DEF WellKept
<1> QED
  BY <1>3, <1>6, Zenon DEF e

\* So does a checkpoint of any version.
LEMMA CheckpointKeeps ==
    ASSUME MaxLaw, NEW d, Shaped(d), WellKept(d), NEW v \in 0 .. Len(d.log) - 1
    PROVE  LET e == WriteCheckpoint(d, v)
           IN  /\ Shaped(e) /\ WellKept(e)
               /\ e.log = d.log /\ e.commits = d.commits /\ e.hint = d.hint
               /\ DOMAIN e.checkpoints = DOMAIN d.checkpoints \cup {v}
               /\ e.compactions = d.compactions
<1> DEFINE b == CheckpointFor(d, v)
           state == Reconcile(Base(d, b), Commits(d, b + 1 .. v))
           new == [c \in DOMAIN d.checkpoints \cup {v} |->
                     IF c = v THEN Actions(state.adds, {}, state.header) ELSE d.checkpoints[c]]
           e == WriteCheckpoint(d, v)
<1>1. PICK S : d.log \in Seq(S)
  BY Zenon DEF Shaped
<1>2. Len(d.log) \in Nat /\ v \in Nat
  BY <1>1
<1>3. e = Dir(d.log, d.commits, d.hint, new, d.compactions)
  <2>1. e = [d EXCEPT !.checkpoints = new]
    BY Zenon DEF WriteCheckpoint
  <2> HIDE DEF e, new
  <2> PICK p, q, r, x, y : d = Dir(p, q, r, x, y)
    BY Zenon DEF Shaped
  <2> d.log = p /\ d.commits = q /\ d.hint = r /\ d.compactions = y
    BY Zenon DEF Dir
  <2> [d EXCEPT !.checkpoints = new] = Dir(p, q, r, new, y)
    BY DEF Dir
  <2> QED
    BY <2>1, Zenon
<1>4. DOMAIN new = DOMAIN d.checkpoints \cup {v}
  BY Zenon
<1>5. /\ new[v].adds = state.adds /\ new[v].header = state.header
      /\ \A c \in DOMAIN d.checkpoints : c # v => new[c] = d.checkpoints[c]
  BY ActionsFields
<1>6. b \in -1 .. v /\ (b # None => b \in DOMAIN d.checkpoints)
  BY <1>2, CheckpointForIs, Zenon DEF WellKept
<1> HIDE DEF b
<1>7. Same(state, Version(d, v))
  BY <1>2, <1>6, ReplayOnBase, Zenon DEF WellKept
<1>8. state.adds = Version(d, v).adds /\ state.header = Version(d, v).header
  BY <1>7, ZenonT(30) DEF Same
<1> HIDE DEF e, new, state
<1> /\ e.log = d.log /\ e.commits = d.commits /\ e.hint = d.hint
    /\ e.checkpoints = new /\ e.compactions = d.compactions
    /\ e = Dir(e.log, e.commits, e.hint, e.checkpoints, e.compactions)
  BY <1>3, Zenon DEF Dir
<1>10. Shaped(e)
  BY <1>1, Zenon DEF Shaped
<1>11. FilesAreInLog(e)
  BY <1>4, Zenon DEF FilesAreInLog, WellKept
<1>12. NothingIsMissing(e)
  BY <1>4, Zenon DEF NothingIsMissing, WellKept
<1>13. \A K : Commits(e, K) = Commits(d, K)
  BY Zenon DEF Commits, Commit
<1>14. CheckpointsAreExact(e)
  <2> \A c : Version(e, c) = Version(d, c)
    BY <1>13, Zenon DEF Version
  <2> QED
    BY <1>4, <1>5, <1>8 DEF CheckpointsAreExact, WellKept
<1> CompactionsAreExact(e)
  BY <1>13, Zenon DEF CompactionsAreExact, WellKept
<1> WellKept(e)
  BY <1>11, <1>12, <1>14, Zenon DEF WellKept
<1> QED
  BY <1>4, <1>10, Zenon DEF e

\* So does a hint at or below a checkpoint.
LEMMA HintKeeps ==
    ASSUME NEW d, Shaped(d), WellKept(d), NEW v \in 0 .. Len(d.log) - 1,
           \E c \in DOMAIN d.checkpoints : c >= v
    PROVE  LET e == WriteHint(d, v)
           IN  /\ Shaped(e) /\ WellKept(e)
               /\ e.log = d.log /\ e.commits = d.commits
               /\ e.checkpoints = d.checkpoints /\ e.compactions = d.compactions
<1> DEFINE e == WriteHint(d, v)
<1>1. PICK p, q, r, x, y : d = Dir(p, q, r, x, y)
  BY Zenon DEF Shaped
<1>2. e = Dir(p, q, v, x, y)
  BY <1>1 DEF Dir, WriteHint
<1> HIDE DEF e
<1> /\ e.log = d.log /\ e.commits = d.commits /\ e.hint = v
    /\ e.checkpoints = d.checkpoints /\ e.compactions = d.compactions
    /\ e = Dir(e.log, e.commits, e.hint, e.checkpoints, e.compactions)
  BY <1>1, <1>2, Zenon DEF Dir
<1>4. Shaped(e)
  BY Zenon DEF Shaped
<1>5. FilesAreInLog(e) /\ NothingIsMissing(e)
  BY SMTT(30) DEF FilesAreInLog, NothingIsMissing, WellKept
<1> \A K : Commits(e, K) = Commits(d, K)
  BY Zenon DEF Commits, Commit
<1> CheckpointsAreExact(e) /\ CompactionsAreExact(e)
  BY DEF CheckpointsAreExact, CompactionsAreExact, Version, WellKept
<1> QED
  BY <1>4, <1>5, Zenon DEF WellKept, e

\* So does the deletion of any file below a checkpoint.  No commit from the
\* checkpoint on is lost, and no checkpoint without a later one.
LEMMA DeleteKeeps ==
    ASSUME NEW d, Shaped(d), WellKept(d), NEW boundary \in DOMAIN d.checkpoints,
           NEW file \in Expired(d, boundary)
    PROVE  LET e == Delete(d, file)
           IN  /\ Shaped(e) /\ WellKept(e) /\ e.log = d.log
               /\ \A k \in d.commits : k >= boundary => k \in e.commits
               /\ \A k \in Int : (\E c \in DOMAIN d.checkpoints : c >= k)
                                    => \E c \in DOMAIN e.checkpoints : c >= k
               /\ DOMAIN e.checkpoints \subseteq DOMAIN d.checkpoints
               /\ DOMAIN e.compactions \subseteq DOMAIN d.compactions
               /\ \A r \in DOMAIN e.compactions : e.compactions[r] = d.compactions[r]
<1> DEFINE e == Delete(d, file)
           points == {v \in DOMAIN d.checkpoints : file # [type |-> "checkpoint", range |-> <<v, v>>]}
           ranges == {r \in DOMAIN d.compactions : file # [type |-> "compaction", range |-> r]}
           commits == {v \in d.commits : file # [type |-> "commit", range |-> <<v, v>>]}
<1>1. PICK S : d.log \in Seq(S)
  BY Zenon DEF Shaped
<1>2. Len(d.log) \in Nat /\ boundary \in Int
  BY <1>1 DEF WellKept, FilesAreInLog
<1>3. /\ e.log = d.log /\ e.commits = commits /\ e.hint = d.hint
      /\ DOMAIN e.checkpoints = points /\ \A v \in points : e.checkpoints[v] = d.checkpoints[v]
      /\ DOMAIN e.compactions = ranges /\ \A r \in ranges : e.compactions[r] = d.compactions[r]
      /\ e = Dir(e.log, e.commits, e.hint, e.checkpoints, e.compactions)
  <2> e = Dir(d.log, commits, d.hint, Restrict(d.checkpoints, points),
              Restrict(d.compactions, ranges))
    BY Zenon DEF Delete
  <2> HIDE DEF e, points, ranges, commits
  <2> /\ e.log = d.log /\ e.commits = commits /\ e.hint = d.hint
      /\ e.checkpoints = Restrict(d.checkpoints, points)
      /\ e.compactions = Restrict(d.compactions, ranges)
      /\ e = Dir(e.log, e.commits, e.hint, e.checkpoints, e.compactions)
    BY Zenon DEF Dir
  <2> QED
    BY Zenon DEF Restrict
<1>4. file.range[2] < boundary
  BY Zenon DEF Expired
<1>5. boundary \in points
  <2> file # [type |-> "checkpoint", range |-> <<boundary, boundary>>]
    BY <1>2, <1>4
  <2> QED
    BY Zenon
<1>6. /\ \A k \in d.commits : k >= boundary => k \in commits
      /\ \A c \in DOMAIN d.checkpoints : c >= boundary => c \in points
  <2> \A k \in Int : k >= boundary => file.range # <<k, k>>
    BY <1>2, <1>4
  <2> d.commits \subseteq Int /\ DOMAIN d.checkpoints \subseteq Int
    BY DEF WellKept, FilesAreInLog
  <2> QED
    OBVIOUS
<1>7. points \subseteq DOMAIN d.checkpoints /\ ranges \subseteq DOMAIN d.compactions
        /\ commits \subseteq d.commits
  BY Zenon
<1>8. \A k \in d.commits : k \notin commits => k < boundary
  <2> d.commits \subseteq Int
    BY DEF WellKept, FilesAreInLog
  <2> QED
    BY <1>2, <1>6
<1>9. DOMAIN d.checkpoints \subseteq Int
  BY DEF WellKept, FilesAreInLog
<1> HIDE DEF e, points, ranges, commits
<1>10. \A k \in Int : (\E c \in DOMAIN d.checkpoints : c >= k) => \E c \in points : c >= k
  <2> SUFFICES ASSUME NEW k \in Int, NEW c \in DOMAIN d.checkpoints, c >= k
               PROVE  \E m \in points : m >= k
    BY Zenon
  <2>1. CASE c >= boundary
    BY <1>6, <2>1, Zenon
  <2>2. CASE ~(c >= boundary)
    <3> boundary >= k
      BY <1>2, <1>9, <2>2
    <3> QED
      BY <1>5, Zenon
  <2> QED
    BY <2>1, <2>2, Zenon
<1>11. Shaped(e)
  BY <1>1, <1>3, Zenon DEF Shaped
<1>12. FilesAreInLog(e)
  BY <1>3, <1>7, Zenon DEF FilesAreInLog, WellKept
<1>13. NothingIsMissing(e)
  <2>1. ASSUME NEW v \in 0 .. Len(d.log) - 1 PROVE v \in commits \/ \E c \in points : c > v
    <3>1. CASE v \in commits
      BY <3>1, Zenon
    <3>2. CASE v \in d.commits /\ v \notin commits
      BY <1>2, <1>5, <1>8, <3>2, Zenon
    <3>3. CASE v \notin d.commits
      <4>1. PICK c \in DOMAIN d.checkpoints : c > v
        BY <3>3, Zenon DEF WellKept, NothingIsMissing
      <4>2. v + 1 \in Int /\ c >= v + 1
        BY <1>9, <4>1
      <4> PICK m \in points : m >= v + 1
        BY <1>10, <4>2, Zenon
      <4> m > v
        BY <1>7, <1>9
      <4> QED
        BY Zenon
    <3> QED
      BY <3>1, <3>2, <3>3, Zenon
  <2> d.hint # None => \E c \in points : c >= d.hint
    <3> d.hint \in Int
      BY DEF WellKept, FilesAreInLog
    <3> QED
      BY <1>10, Zenon DEF WellKept, NothingIsMissing
  <2> QED
    BY <1>3, <2>1, Zenon DEF NothingIsMissing
<1>14. \A K : Commits(e, K) = Commits(d, K)
  BY <1>3, Zenon DEF Commits, Commit
<1> CheckpointsAreExact(e) /\ CompactionsAreExact(e)
  BY <1>3, <1>7, <1>14, Zenon DEF CheckpointsAreExact, CompactionsAreExact, Version, WellKept
<1> WellKept(e)
  BY <1>3, <1>12, <1>13, Zenon DEF WellKept
<1> QED
  BY <1>3, <1>6, <1>7, <1>10, <1>11, Zenon DEF e

OverlapsNone(d, a, v) ==
    \A r \in DOMAIN d.compactions : r = <<a, v>> \/ r[2] < a \/ v < r[1]

\* So does a compaction without expired removes that overlaps no other.
LEMMA CompactionKeeps ==
    ASSUME NEW d, Shaped(d), WellKept(d), NEW v \in 0 .. Len(d.log) - 1, NEW a \in 0 .. v,
           OverlapsNone(d, a, v), NEW now
    PROVE  LET e == PutCompaction(d, <<a, v>>, Compaction(d, <<a, v>>, {}, now))
           IN  /\ Shaped(e) /\ WellKept(e)
               /\ e.log = d.log /\ e.commits = d.commits /\ e.checkpoints = d.checkpoints
               /\ DOMAIN e.compactions = DOMAIN d.compactions \cup {<<a, v>>}
               /\ \A r \in DOMAIN d.compactions : e.compactions[r] = d.compactions[r]
               /\ <<a, v>> \notin DOMAIN d.compactions => e.compactions[<<a, v>>].modified = now
<1> DEFINE range == <<a, v>>
           content == Compaction(d, range, {}, now)
           state == Reconcile(Nothing, Commits(d, a .. v))
           new == [r \in DOMAIN d.compactions \cup {range} |->
                     IF r \in DOMAIN d.compactions THEN d.compactions[r] ELSE content]
           e == PutCompaction(d, range, content)
<1>1. e = Dir(d.log, d.commits, d.hint, d.checkpoints, new)
  <2>1. e = [d EXCEPT !.compactions = new]
    BY Zenon DEF PutCompaction
  <2> HIDE DEF e, new
  <2> PICK p, q, r, x, y : d = Dir(p, q, r, x, y)
    BY Zenon DEF Shaped
  <2> d.log = p /\ d.commits = q /\ d.hint = r /\ d.checkpoints = x
    BY Zenon DEF Dir
  <2> [d EXCEPT !.compactions = new] = Dir(p, q, r, x, new)
    BY DEF Dir
  <2> QED
    BY <2>1, Zenon
<1>2. /\ content.adds = state.adds /\ content.removes = state.removes
      /\ content.header = state.header /\ content.modified = now
  BY Zenon DEF Compaction
<1>3. /\ DOMAIN new = DOMAIN d.compactions \cup {range}
      /\ \A r \in DOMAIN d.compactions : new[r] = d.compactions[r]
      /\ range \notin DOMAIN d.compactions => new[range] = content
  BY Zenon
<1> HIDE DEF e, new, content
<1>4. /\ e.log = d.log /\ e.commits = d.commits /\ e.hint = d.hint
      /\ e.checkpoints = d.checkpoints /\ e.compactions = new
      /\ e = Dir(e.log, e.commits, e.hint, e.checkpoints, e.compactions)
  BY <1>1, Zenon DEF Dir
<1>5. Shaped(e)
  BY <1>4, Zenon DEF Shaped
<1>6. range[1] = a /\ range[2] = v
  BY Zenon
<1> HIDE DEF range
<1>7. FilesAreInLog(e) /\ NothingIsMissing(e)
  <2> PICK S : d.log \in Seq(S)
    BY Zenon DEF Shaped
  <2> a \in 0 .. Len(d.log) - 1 /\ v \in a .. Len(d.log) - 1
    OBVIOUS
  <2> QED
    BY <1>3, <1>4, <1>6, Zenon DEF FilesAreInLog, NothingIsMissing, WellKept
<1>8. \A K : Commits(e, K) = Commits(d, K)
  BY <1>4, Zenon DEF Commits, Commit
<1>9. CheckpointsAreExact(e)
  BY <1>4, <1>8, Zenon DEF CheckpointsAreExact, Version, WellKept
<1> CompactionsAreExact(e)
  <2>1. \A r \in DOMAIN d.compactions :
          LET s == Reconcile(Nothing, Commits(d, r[1] .. r[2]))
          IN  /\ new[r].adds = s.adds /\ new[r].removes = s.removes
              /\ new[r].header = s.header
    BY <1>3, Zenon DEF CompactionsAreExact, WellKept
  <2>2. CASE range \in DOMAIN d.compactions
    BY <1>3, <1>4, <1>8, <2>1, <2>2, ZenonT(30) DEF CompactionsAreExact, WellKept
  <2>3. CASE range \notin DOMAIN d.compactions
    <3>1. /\ new[range].adds = state.adds /\ new[range].removes = state.removes
          /\ new[range].header = state.header
      BY <1>2, <1>3, <2>3, Zenon
    <3>2. \A r \in DOMAIN d.compactions : r[2] < range[1] \/ range[2] < r[1]
      BY <1>6, <2>3, Zenon DEF range, OverlapsNone
    <3>3. \A r \in DOMAIN new :
            LET s == Reconcile(Nothing, Commits(d, r[1] .. r[2]))
            IN  /\ new[r].adds = s.adds /\ new[r].removes = s.removes
                /\ new[r].header = s.header
      BY <1>3, <1>6, <2>1, <3>1, Zenon
    <3> \A r, s \in DOMAIN new : r = s \/ r[2] < s[1] \/ s[2] < r[1]
      <4> \A r, s \in DOMAIN d.compactions : r = s \/ r[2] < s[1] \/ s[2] < r[1]
        BY Zenon DEF CompactionsAreExact, WellKept
      <4> QED
        BY <1>3, <3>2, Zenon
    <3> QED
      BY <1>4, <1>8, <3>3 DEF CompactionsAreExact
  <2> QED
    BY <2>2, <2>3, Zenon
<1> WellKept(e)
  BY <1>4, <1>7, <1>9, Zenon DEF WellKept
<1> QED
  BY <1>2, <1>3, <1>4, <1>5, Zenon DEF e, content, range
-----------------------------------------------------------------------------
(* The commit loop.                                                        *)

Fields == {"pc", "kind", "planned", "sets", "removes", "base", "timestamp", "target",
           "attempts", "version"}
Deciding == {"scan", "load", "list", "check", "put"}
After == {"post", "checkpoint", "hint", "cleanup", "compact"}

DirOK(d) ==
    /\ Shaped(d) /\ WellKept(d) /\ Aligned(d)
    /\ \A i \in DOMAIN d.log : d.log[i].timestamp \in Int

\* What a writer removes and sets, by the version it is based on: it was planned
\* under the header of its base, if full loads of it skip nothing; what it
\* removes is what a scan of its base found, unless somebody has committed since,
\* and then it fails.
Planned(d, base, kind, planned, sets, removes) ==
    IF base = None
    THEN kind = "create" /\ sets = planned /\ sets \in Headers /\ removes = {}
    ELSE /\ KeptApart => planned = Version(d, base).header
         /\ \/ kind \in {"create", "append"} /\ sets = NoHeader /\ removes = {}
            \/ kind = "alter" /\ sets \in Headers /\ removes = {}
            \/ /\ kind = "overwrite" /\ sets = NoHeader
               /\ removes # {} /\ base = Len(d.log) - 1 => removes = Version(d, base).adds
            \/ /\ kind = "rewrite" /\ sets = NoHeader
               /\ base = Len(d.log) - 1 => removes \subseteq Version(d, base).adds

\* The time that a writer has read with its base is that of the commit, unless
\* it was read in a full load.
Timed(d, base, timestamp, full) ==
    /\ timestamp \in Int
    /\ base # None /\ ~(ShouldCreateCompaction(base) /\ full)
         => timestamp = d.log[base + 1].timestamp

\* What a writer that has not put yet, with record r, will put on directory d.
Decides(d, r) ==
    /\ r.version = None
    /\ Timed(d, r.base, r.timestamp, InFull(r))
    /\ Planned(d, r.base, r.kind, r.planned, r.sets, r.removes)
    /\ r.kind = "rewrite" /\ r.pc # "scan" => r.removes # {}
    /\ r.pc \in {"scan", "load"} => r.kind \in {"overwrite", "rewrite"} /\ r.attempts = 0
    /\ r.pc = "scan" => r.removes = {}
    /\ r.pc = "load" => r.removes # {}
    /\ r.pc = "list" => r.attempts <= Retries(r)
    /\ r.pc = "check" => r.target >= r.base
    /\ r.pc = "put" => r.target = r.base

\* The commit files from version base on exist.
StillThere(d, base) == \A k \in 0 .. Len(d.log) - 1 : k >= base => k \in d.commits

\* The record r of writer w, on directory d.  The versions from its base on are
\* not cleaned up, so that its put finds each one that is taken.
WriterOK(d, w, r) ==
    /\ DOMAIN r = Fields
    /\ r.pc \in {"idle", "done", "failed"} \cup Deciding \cup After
    /\ r.base \in -1 .. Len(d.log) - 1 /\ r.target \in -1 .. Len(d.log) - 1
    /\ r.attempts \in 0 .. Retries(r) + 1
    /\ r.pc \in Deciding \cup After => StillThere(d, r.base)
    /\ r.pc \in Deciding => Decides(d, r)
    /\ r.pc \in After => r.version \in 0 .. Len(d.log) - 1
    /\ r.pc = "checkpoint" => ShouldCreateCheckpoint(r.version)
    /\ r.pc = "hint" => \E c \in DOMAIN d.checkpoints : c >= r.version
    /\ r.pc \in After \cup {"done"} /\ r.version # None
         => \E i \in DOMAIN d.log : d.log[i].writer = w

Inv ==
    /\ DirOK(dir) /\ Increases(dir.log) /\ lost \in 0 .. MaxLost
    /\ DOMAIN writer = Writer /\ \A w \in Writer : WriterOK(dir, w, writer[w])

\* The number of retries is a number.
LEMMA RetriesType == ASSUME NEW r PROVE Retries(r) \in Nat
  BY DeltaAssumption, Zenon DEF Retries

\* A record of a writer that has not started, or has ended.
LEMMA RestingOK ==
    ASSUME NEW d, Len(d.log) \in Nat, NEW w, NEW e, DOMAIN e = Fields,
           e.pc \in {"idle", "done", "failed"}, e.base = None, e.target = None, e.attempts = 0,
           e.pc = "done" /\ e.version # None => \E i \in DOMAIN d.log : d.log[i].writer = w
    PROVE  WriterOK(d, w, e)
<1> Retries(e) \in Nat
  BY RetriesType, Zenon
<1>1. /\ e.base \in -1 .. Len(d.log) - 1 /\ e.target \in -1 .. Len(d.log) - 1
      /\ e.attempts \in 0 .. Retries(e) + 1
  BY DEF None
<1>2. e.pc \notin Deciding /\ e.pc \notin After /\ e.pc # "hint" /\ e.pc # "checkpoint"
  BY Zenon DEF Deciding, After
<1> QED
  BY <1>1, <1>2, Zenon DEF WriterOK

\* A record of a writer that is about to put.
LEMMA DecidingOK ==
    ASSUME NEW d, NEW w, NEW e, DOMAIN e = Fields, e.pc \in Deciding, Decides(d, e),
           StillThere(d, e.base), e.base \in -1 .. Len(d.log) - 1,
           e.target \in -1 .. Len(d.log) - 1, e.attempts \in 0 .. Retries(e) + 1
    PROVE  WriterOK(d, w, e)
<1>1. e.pc \notin After /\ e.pc # "hint" /\ e.pc # "checkpoint" /\ e.pc # "done"
  BY Zenon DEF Deciding, After
<1> QED
  BY <1>1, Zenon DEF WriterOK

\* What such a record gives.
LEMMA DecidingGives ==
    ASSUME NEW d, NEW w, NEW r, WriterOK(d, w, r), r.pc \in Deciding
    PROVE  /\ DOMAIN r = Fields /\ Decides(d, r) /\ StillThere(d, r.base)
           /\ r.base \in -1 .. Len(d.log) - 1 /\ r.target \in -1 .. Len(d.log) - 1
           /\ r.attempts \in 0 .. Retries(r) + 1
  BY Zenon DEF WriterOK

\* A writer that moves on with its record, and what it may change in it.
LEMMA PcFields ==
    ASSUME NEW r, DOMAIN r = Fields, NEW pc
    PROVE  LET e == [r EXCEPT !.pc = pc]
           IN  /\ DOMAIN e = Fields /\ e.pc = pc
               /\ e.kind = r.kind /\ e.planned = r.planned /\ e.sets = r.sets
               /\ e.removes = r.removes /\ e.base = r.base /\ e.timestamp = r.timestamp
               /\ e.target = r.target /\ e.attempts = r.attempts /\ e.version = r.version
  BY Zenon DEF Fields

\* It lists again, or it puts.
LEMMA MovesOnOK ==
    ASSUME NEW d, NEW w, NEW r, WriterOK(d, w, r), r.pc \in Deciding,
           NEW pc \in {"list", "put"}, r.kind = "rewrite" => r.removes # {},
           pc = "list" => r.attempts <= Retries(r), pc = "put" => r.target = r.base
    PROVE  WriterOK(d, w, [r EXCEPT !.pc = pc])
<1> DEFINE e == [r EXCEPT !.pc = pc]
<1>1. /\ DOMAIN r = Fields /\ Decides(d, r) /\ StillThere(d, r.base)
      /\ r.base \in -1 .. Len(d.log) - 1 /\ r.target \in -1 .. Len(d.log) - 1
      /\ r.attempts \in 0 .. Retries(r) + 1
  BY DecidingGives, Zenon
<1>2. /\ DOMAIN e = Fields /\ e.pc = pc
      /\ e.kind = r.kind /\ e.planned = r.planned /\ e.sets = r.sets
      /\ e.removes = r.removes /\ e.base = r.base /\ e.timestamp = r.timestamp
      /\ e.target = r.target /\ e.attempts = r.attempts /\ e.version = r.version
  BY <1>1, PcFields, Zenon
<1> HIDE DEF e
<1>3. Retries(e) = Retries(r)
  BY <1>2, Zenon DEF Retries, IsBlindAppend
<1>4. Decides(d, e)
  BY <1>1, <1>2, <1>3, Zenon DEF Decides, InFull
<1>5. e.pc \in Deciding
  BY <1>2, Zenon DEF Deciding
<1>6. WriterOK(d, w, e)
  BY <1>1, <1>2, <1>3, <1>4, <1>5, DecidingOK, Zenon
<1> QED
  BY <1>6, Zenon DEF e

\* It has scanned the table.
LEMMA ScannedOK ==
    ASSUME NEW d, NEW w, NEW r, WriterOK(d, w, r), r.pc = "scan", NEW removes, removes # {},
           Planned(d, r.base, r.kind, r.planned, r.sets, removes)
    PROVE  WriterOK(d, w, [r EXCEPT !.pc = "load", !.removes = removes])
<1> DEFINE e == [r EXCEPT !.pc = "load", !.removes = removes]
<1>1. /\ DOMAIN r = Fields /\ Decides(d, r) /\ StillThere(d, r.base)
      /\ r.base \in -1 .. Len(d.log) - 1 /\ r.target \in -1 .. Len(d.log) - 1
  BY DecidingGives, Zenon DEF Deciding
<1>2. /\ DOMAIN e = Fields /\ e.pc = "load" /\ e.removes = removes
      /\ e.kind = r.kind /\ e.planned = r.planned /\ e.sets = r.sets
      /\ e.base = r.base /\ e.timestamp = r.timestamp
      /\ e.target = r.target /\ e.attempts = r.attempts /\ e.version = r.version
  BY <1>1, Zenon DEF Fields
<1> HIDE DEF e
<1>3. Decides(d, e)
  <2> r.kind # "create" /\ r.removes = {}
    BY <1>1, Zenon DEF Decides
  <2> Timed(d, e.base, e.timestamp, InFull(e))
    BY <1>1, <1>2, Zenon DEF Decides, Timed, InFull
  <2> QED
    BY <1>1, <1>2, Zenon DEF Decides
<1>4. Retries(e) \in Nat
  BY RetriesType, Zenon
<1>5. e.attempts \in 0 .. Retries(e) + 1 /\ e.pc \in Deciding
  BY <1>2, <1>3, <1>4 DEF Decides, Deciding
<1>6. WriterOK(d, w, e)
  BY <1>1, <1>2, <1>3, <1>5, DecidingOK, Zenon
<1> QED
  BY <1>6, Zenon DEF e

\* It has loaded its base.
LEMMA LoadedOK ==
    ASSUME NEW d, NEW w, NEW r, WriterOK(d, w, r), r.pc = "load",
           NEW time, Timed(d, r.base, time, InFull(r))
    PROVE  WriterOK(d, w, [r EXCEPT !.pc = "list", !.timestamp = time])
<1> DEFINE e == [r EXCEPT !.pc = "list", !.timestamp = time]
<1>1. /\ DOMAIN r = Fields /\ Decides(d, r) /\ StillThere(d, r.base)
      /\ r.base \in -1 .. Len(d.log) - 1 /\ r.target \in -1 .. Len(d.log) - 1
  BY DecidingGives, Zenon DEF Deciding
<1>2. /\ DOMAIN e = Fields /\ e.pc = "list" /\ e.timestamp = time
      /\ e.kind = r.kind /\ e.planned = r.planned /\ e.sets = r.sets
      /\ e.removes = r.removes /\ e.base = r.base
      /\ e.target = r.target /\ e.attempts = r.attempts /\ e.version = r.version
  BY <1>1, Zenon DEF Fields
<1> HIDE DEF e
<1>3. Retries(e) \in Nat
  BY RetriesType, Zenon
<1>4. e.attempts = 0
  BY <1>1, <1>2, Zenon DEF Decides
<1>5. Decides(d, e)
  <2> InFull(e) = InFull(r)
    BY <1>2, Zenon DEF InFull
  <2> e.attempts <= Retries(e)
    BY <1>3, <1>4
  <2> r.removes # {}
    BY <1>1, Zenon DEF Decides
  <2> QED
    BY <1>1, <1>2, Zenon DEF Decides
<1>6. e.attempts \in 0 .. Retries(e) + 1 /\ e.pc \in Deciding
  BY <1>2, <1>3, <1>4 DEF Deciding
<1>7. WriterOK(d, w, e)
  BY <1>1, <1>2, <1>5, <1>6, DecidingOK, Zenon
<1> QED
  BY <1>7, Zenon DEF e

\* It has listed the log.
LEMMA ListedOK ==
    ASSUME NEW d, Len(d.log) \in Nat, NEW w, NEW r, WriterOK(d, w, r), r.pc = "list",
           NEW target \in -1 .. Len(d.log) - 1, target >= r.base
    PROVE  WriterOK(d, w, [r EXCEPT !.pc = "check", !.attempts = @ + 1, !.target = target])
<1> DEFINE e == [r EXCEPT !.pc = "check", !.attempts = @ + 1, !.target = target]
<1>1. /\ DOMAIN r = Fields /\ Decides(d, r) /\ StillThere(d, r.base)
      /\ r.base \in -1 .. Len(d.log) - 1 /\ r.attempts \in 0 .. Retries(r) + 1
  BY DecidingGives, Zenon DEF Deciding
<1>2. /\ DOMAIN e = Fields /\ e.pc = "check" /\ e.timestamp = r.timestamp
      /\ e.kind = r.kind /\ e.planned = r.planned /\ e.sets = r.sets
      /\ e.removes = r.removes /\ e.base = r.base
      /\ e.target = target /\ e.attempts = r.attempts + 1 /\ e.version = r.version
  BY <1>1, Zenon DEF Fields
<1> HIDE DEF e
<1>3. Retries(e) = Retries(r)
  BY <1>2, Zenon DEF Retries, IsBlindAppend
<1>4. Retries(r) \in Nat
  BY RetriesType, Zenon
<1>5. r.attempts <= Retries(r)
  BY <1>1, Zenon DEF Decides
<1>6. Decides(d, e)
  BY <1>1, <1>2, Zenon DEF Decides, InFull
<1>7. e.attempts \in 0 .. Retries(e) + 1 /\ e.pc \in Deciding
  BY <1>1, <1>2, <1>3, <1>4, <1>5 DEF Deciding
<1>8. WriterOK(d, w, e)
  BY <1>1, <1>2, <1>6, <1>7, DecidingOK, Zenon
<1> QED
  BY <1>8, Zenon DEF e

\* The invariant holds initially.
LEMMA InitInv == Init => Inv
<1> SUFFICES ASSUME Init PROVE Inv
  BY Zenon
<1>1. dir \in Directories /\ writer = [w \in Writer |-> NewWriter]
  BY Zenon DEF Init
<1>2. /\ IsDirectory(dir) /\ WellKept(dir) /\ Aligned(dir) /\ Increases(dir.log)
      /\ \A i \in DOMAIN dir.log : dir.log[i].timestamp \in Int
  BY <1>1, DirectoriesAssumption, Zenon
<1>3. Shaped(dir)
  BY <1>2, Zenon DEF IsDirectory, Shaped
<1>4. PICK S : dir.log \in Seq(S)
  BY <1>3, Zenon DEF Shaped
<1>5. Len(dir.log) \in Nat
  BY <1>4
<1> \A w : WriterOK(dir, w, NewWriter)
  <2> /\ DOMAIN NewWriter = Fields /\ NewWriter.pc = "idle" /\ NewWriter.base = None
      /\ NewWriter.target = None /\ NewWriter.attempts = 0
    BY Zenon DEF NewWriter, Fields
  <2> QED
    BY <1>5, RestingOK, Zenon
<1> lost \in 0 .. MaxLost
  BY DeltaAssumption DEF Init
<1> QED
  BY <1>1, <1>2, <1>3, Zenon DEF Inv, DirOK

-----------------------------------------------------------------------------
(* Steps that leave the directory alone.                                   *)

\* What every step may use of the directory.
LEMMA Known ==
    ASSUME NEW d, DirOK(d)
    PROVE  /\ Len(d.log) \in Nat /\ LatestVersion(d) = Len(d.log) - 1
           /\ Len(d.log) > 0 => Len(d.log) - 1 \in d.commits
           /\ DOMAIN d.log = 1 .. Len(d.log)
<1>1. PICK S : d.log \in Seq(S)
  BY Zenon DEF DirOK, Shaped
<1> Len(d.log) \in Nat /\ DOMAIN d.log = 1 .. Len(d.log)
  BY <1>1
<1> FilesAreInLog(d) /\ NothingIsMissing(d)
  BY Zenon DEF DirOK, WellKept
<1>4. LatestVersion(d) = Len(d.log) - 1
  BY LatestVersionIs, Zenon
<1>5. ASSUME Len(d.log) > 0 PROVE Len(d.log) - 1 \in d.commits
  <2> Len(d.log) - 1 \in 0 .. Len(d.log) - 1
    BY <1>5
  <2> \A c \in DOMAIN d.checkpoints : ~(c > Len(d.log) - 1)
    BY DEF FilesAreInLog
  <2> QED
    BY Zenon DEF NothingIsMissing
<1> QED
  BY <1>4, <1>5, Zenon

\* A step of one writer, when it hurts no other.
LEMMA OneWriter ==
    ASSUME Inv, NEW w \in Writer, NEW rec, Set(w, rec), WriterOK(dir', w, rec),
           DirOK(dir'), Increases(dir'.log), lost' \in 0 .. MaxLost,
           \A u \in Writer : u # w => WriterOK(dir', u, writer[u])
    PROVE  Inv'
<1> /\ DOMAIN writer' = Writer /\ writer'[w] = rec
    /\ \A u \in Writer : u # w => writer'[u] = writer[u]
  BY Zenon DEF Inv, Set
<1> \A u \in Writer : WriterOK(dir', u, writer'[u])
  BY Zenon
<1> QED
  BY Zenon DEF Inv

\* The same without a change of the directory.
LEMMA OneWriterOnly ==
    ASSUME Inv, NEW w \in Writer, NEW rec, Set(w, rec), WriterOK(dir, w, rec),
           dir' = dir, lost' = lost
    PROVE  Inv'
  BY OneWriter, Zenon DEF Inv

\* Goto sets the writer's record.
LEMMA GotoIs ==
    ASSUME Inv, NEW w \in Writer, NEW pc, Goto(w, pc)
    PROVE  Set(w, [writer[w] EXCEPT !.pc = pc])
  BY Zenon DEF Inv, Goto, Set

\* A writer that has failed knows nothing that can be wrong; one that reports a
\* version must have made one.
LEMMA EndedOK ==
    ASSUME NEW d, DirOK(d), NEW w, NEW v, v # None => \E i \in DOMAIN d.log : d.log[i].writer = w
    PROVE  /\ WriterOK(d, w, [NewWriter EXCEPT !.pc = "failed"])
           /\ WriterOK(d, w, [NewWriter EXCEPT !.pc = "done", !.version = v])
<1> DEFINE failed == [NewWriter EXCEPT !.pc = "failed"]
           done == [NewWriter EXCEPT !.pc = "done", !.version = v]
<1>1. Len(d.log) \in Nat
  BY Known, Zenon
<1>2. \A e \in {failed, done} :
         DOMAIN e = Fields /\ e.base = None /\ e.target = None /\ e.attempts = 0
  BY Zenon DEF NewWriter, Fields
<1>3. failed.pc = "failed" /\ done.pc = "done" /\ done.version = v
  BY Zenon DEF NewWriter
<1> HIDE DEF failed, done
<1>4. WriterOK(d, w, failed) /\ WriterOK(d, w, done)
  BY <1>1, <1>2, <1>3, RestingOK, Zenon
<1> QED
  BY <1>4, Zenon DEF failed, done

\* Planning reads the last version.
LEMMA PlanInv == ASSUME Inv, NEW w \in Writer, Plan(w) PROVE Inv'
<1>1. dir' = dir /\ lost' = lost
  BY Zenon DEF Plan
<1>2. DirOK(dir)
  BY Zenon DEF Inv
<1>3. Len(dir.log) \in Nat /\ LatestVersion(dir) = Len(dir.log) - 1
  BY <1>2, Known, Zenon
<1>4. \A r : Retries(r) \in Nat
  BY RetriesType, Zenon
<1>5. CASE PlanCreate(w)
  <2>1. PICK h \in Headers :
          Set(w, [NewWriter EXCEPT !.pc = "list", !.kind = "create", !.planned = h, !.sets = h])
    BY <1>5, Zenon DEF PlanCreate
  <2>2. Len(dir.log) = 0
    BY <1>3, <1>5 DEF PlanCreate, None
  <2> DEFINE rec == [NewWriter EXCEPT !.pc = "list", !.kind = "create", !.planned = h, !.sets = h]
  <2> /\ DOMAIN rec = Fields /\ rec.pc = "list" /\ rec.kind = "create" /\ rec.planned = h
      /\ rec.sets = h /\ rec.removes = {} /\ rec.base = None /\ rec.timestamp = None
      /\ rec.target = None /\ rec.attempts = 0 /\ rec.version = None
    BY Zenon DEF NewWriter, Fields
  <2> Retries(rec) \in Nat
    BY <1>4, Zenon
  <2> HIDE DEF rec
  <2> Decides(dir, rec)
    BY DEF Decides, Planned, Timed, InFull, None
  <2>3. /\ StillThere(dir, rec.base) /\ rec.base \in -1 .. Len(dir.log) - 1
        /\ rec.target \in -1 .. Len(dir.log) - 1 /\ rec.attempts \in 0 .. Retries(rec) + 1
    BY <2>2 DEF StillThere, None
  <2> rec.pc \in Deciding
    BY Zenon DEF Deciding
  <2> WriterOK(dir, w, rec)
    BY <2>3, DecidingOK, Zenon
  <2> QED
    BY <1>1, <2>1, OneWriterOnly, Zenon DEF rec
<1>6. ASSUME NEW kind, NEW sets, PlanOn(w, kind, sets), LatestVersion(dir) # None,
             \/ kind \in {"append", "overwrite", "rewrite"} /\ sets = NoHeader
             \/ kind = "alter" /\ sets \in Headers
      PROVE  Inv'
  <2> DEFINE latest == LatestVersion(dir)
             planned == [NewWriter EXCEPT !.kind = kind, !.planned = Header(latest), !.sets = sets,
                                          !.base = latest, !.timestamp = Timestamp(latest)]
             rec == [planned EXCEPT !.pc =
                       IF kind \in {"overwrite", "rewrite"} THEN "scan" ELSE "list"]
  <2>1. Set(w, rec)
    BY <1>6, Zenon DEF PlanOn
  <2>2. Len(dir.log) > 0 /\ latest = Len(dir.log) - 1 /\ latest \in dir.commits
    BY <1>2, <1>3, <1>6, Known DEF None
  <2>3. Timestamp(latest) \in Int /\ Timestamp(latest) = dir.log[latest + 1].timestamp
    <3> latest + 1 \in DOMAIN dir.log
      BY <1>2, <1>3, <2>2, Known
    <3> QED
      BY <1>2, Zenon DEF Timestamp, DirOK
  <2>4. Header(latest) = Version(dir, latest).header
    BY Zenon DEF Header
  <2> HIDE DEF latest
  <2>5. /\ DOMAIN rec = Fields /\ rec.kind = kind /\ rec.planned = Header(latest)
        /\ rec.sets = sets /\ rec.removes = {} /\ rec.base = latest
        /\ rec.timestamp = Timestamp(latest)
        /\ rec.target = None /\ rec.attempts = 0 /\ rec.version = None
        /\ rec.pc = IF kind \in {"overwrite", "rewrite"} THEN "scan" ELSE "list"
    BY Zenon DEF NewWriter, Fields
  <2> Retries(rec) \in Nat
    BY <1>4, Zenon
  <2> HIDE DEF rec, planned
  <2>7. latest \in Nat
    BY <1>3, <2>2
  <2> Decides(dir, rec)
    BY <1>6, <2>3, <2>4, <2>5, <2>7 DEF Decides, Planned, Timed, InFull, None
  <2>8. /\ StillThere(dir, rec.base) /\ rec.base \in -1 .. Len(dir.log) - 1
        /\ rec.target \in -1 .. Len(dir.log) - 1 /\ rec.attempts \in 0 .. Retries(rec) + 1
    BY <1>3, <2>2, <2>5 DEF StillThere, None
  <2> rec.pc \in Deciding
    BY <2>5, Zenon DEF Deciding
  <2> WriterOK(dir, w, rec)
    BY <2>5, <2>8, DecidingOK, Zenon
  <2> QED
    BY <1>1, <2>1, OneWriterOnly, Zenon
<1> QED
  BY <1>5, <1>6, Zenon DEF Plan

\* What a writer in use may rely on.
LEMMA Using ==
    ASSUME Inv, NEW w \in Writer
    PROVE  /\ DirOK(dir) /\ WriterOK(dir, w, writer[w]) /\ Len(dir.log) \in Nat
           /\ DOMAIN writer[w] = Fields
           /\ writer[w].base \in -1 .. Len(dir.log) - 1
           /\ writer[w].target \in -1 .. Len(dir.log) - 1
           /\ writer[w].pc \in Deciding => Decides(dir, writer[w])
<1> DirOK(dir) /\ WriterOK(dir, w, writer[w])
  BY Zenon DEF Inv
<1> QED
  BY Known, Zenon DEF WriterOK

\* A full replay or a scan of the last version is exact.
LEMMA LastIsExact ==
    ASSUME MaxLaw, NEW d, DirOK(d), Len(d.log) > 0, NEW v, v = Len(d.log) - 1
    PROVE  ScanFiles(d, v) = Version(d, v).adds
<1> PICK S : d.log \in Seq(S)
  BY Zenon DEF DirOK, Shaped
<1> d.log # <<>> /\ WellKept(d)
  BY DEF DirOK
<1> LatestVersion(d) = v /\ ScanFiles(d, LatestVersion(d)) = Version(d, LatestVersion(d)).adds
  BY Readable, Zenon
<1> QED
  BY Zenon

\* A scan finds the files of the version it was planned on, or has lost already.
LEMMA ScanInv == ASSUME MaxLaw, Inv, NEW w \in Writer, Scan(w) PROVE Inv'
<1> DEFINE r == writer[w]
           files == ScanFiles(dir, r.base)
           overwrites == r.kind = "overwrite"
<1> dir' = dir /\ lost' = lost /\ r.pc = "scan"
  BY Zenon DEF Scan
<1> /\ DirOK(dir) /\ WriterOK(dir, w, r) /\ Len(dir.log) \in Nat /\ DOMAIN r = Fields
    /\ r.base \in -1 .. Len(dir.log) - 1 /\ Decides(dir, r)
  BY Using, Zenon DEF Deciding
<1>3. /\ r.kind \in {"overwrite", "rewrite"} /\ r.attempts = 0 /\ r.base # None
      /\ r.version = None /\ r.sets = NoHeader /\ r.removes = {}
      /\ KeptApart => r.planned = Version(dir, r.base).header
  BY Zenon DEF Decides, Planned
<1>4. r.base = Len(dir.log) - 1 => files = Version(dir, r.base).adds
  BY <1>3, LastIsExact DEF None
<1>5. ASSUME NEW removes, files # {},
             removes \in IF overwrites THEN {files} ELSE {{f} : f \in files},
             Set(w, [r EXCEPT !.pc = "load", !.removes = removes])
      PROVE  Inv'
  <2>1. removes # {} /\ (overwrites => removes = files) /\ removes \subseteq files
    <3>1. CASE overwrites
      BY <1>5, <3>1, Zenon
    <3>2. CASE ~overwrites
      <4> PICK f \in files : removes = {f}
        BY <1>5, <3>2, Zenon
      <4> QED
        BY <3>2, Zenon
    <3> QED
      BY <3>1, <3>2, Zenon
  <2> HIDE DEF files
  <2>2. Planned(dir, r.base, r.kind, r.planned, r.sets, removes)
    BY <1>3, <1>4, <2>1, Zenon DEF Planned
  <2>3. WriterOK(dir, w, [r EXCEPT !.pc = "load", !.removes = removes])
    BY <2>1, <2>2, ScannedOK, Zenon
  <2> QED
    BY <1>5, <2>3, OneWriterOnly, Zenon
<1>6. ASSUME files = {}, overwrites, Goto(w, "list") PROVE Inv'
  <2>1. Set(w, [r EXCEPT !.pc = "list"])
    BY <1>6, GotoIs, Zenon
  <2>2. r.attempts <= Retries(r) /\ r.kind # "rewrite" /\ r.pc \in Deciding
    BY <1>3, <1>6, RetriesType DEF Deciding
  <2>3. WriterOK(dir, w, [r EXCEPT !.pc = "list"])
    BY <2>2, MovesOnOK, Zenon
  <2> QED
    BY <2>1, <2>3, OneWriterOnly, Zenon
<1>7. ASSUME Answer(w) PROVE Inv'
  BY <1>3, <1>7, EndedOK, OneWriterOnly, ZenonT(30) DEF Answer
<1> QED
  BY <1>5, <1>6, <1>7, ZenonT(30) DEF Scan

\* A replayed timestamp is the committed one, but at the end of a compaction.
LEMMA ReplayedTimestampIs ==
    ASSUME NEW d, DirOK(d), NEW v \in 0 .. Len(d.log) - 1
    PROVE  /\ ReplayedTimestamp(d, v) \in Int
           /\ ~ShouldCreateCompaction(v) => ReplayedTimestamp(d, v) = d.log[v + 1].timestamp
           /\ d.log[v + 1].timestamp \in Int
<1> DEFINE ends == {r \in Segment(d, v).ranges : r[2] = v}
<1>1. d.log[v + 1].timestamp \in Int
  BY Known DEF DirOK
<1>2. CASE ends = {}
  BY <1>1, <1>2, Zenon DEF ReplayedTimestamp
<1>3. CASE ends # {}
  <2> USE <1>3
  <2> DEFINE r == CHOOSE x \in ends : TRUE
  <2>1. r \in ends
    BY Zenon
  <2> r \in DOMAIN d.compactions /\ r[2] = v
    BY <2>1, Zenon DEF Segment
  <2> ReplayedTimestamp(d, v) = d.compactions[r].modified
    BY Zenon DEF ReplayedTimestamp
  <2> HIDE DEF r
  <2> QED
    BY <1>1, Zenon DEF DirOK, Aligned
<1> QED
  BY <1>2, <1>3, Zenon

\* The full snapshot of the base brings its own timestamp.
LEMMA LoadBaseInv == ASSUME Inv, NEW w \in Writer, LoadBase(w) PROVE Inv'
<1> DEFINE r == writer[w]
           time == ReplayedTimestamp(dir, r.base)
<1> dir' = dir /\ lost' = lost /\ r.pc = "load"
  BY Zenon DEF LoadBase
<1> /\ DirOK(dir) /\ WriterOK(dir, w, r) /\ Len(dir.log) \in Nat /\ DOMAIN r = Fields
    /\ r.base \in -1 .. Len(dir.log) - 1 /\ Decides(dir, r)
  BY Using, Zenon DEF Deciding
<1>3. r.attempts = 0 /\ r.base # None /\ InFull(r)
  BY Zenon DEF Decides, Planned, InFull
<1>4. time \in Int /\ (~ShouldCreateCompaction(r.base) => time = dir.log[r.base + 1].timestamp)
  BY <1>3, ReplayedTimestampIs, SMTT(30) DEF None
<1> HIDE DEF time
<1>5. ASSUME Set(w, [r EXCEPT !.pc = "list", !.timestamp = time]) PROVE Inv'
  <2>1. Timed(dir, r.base, time, InFull(r))
    BY <1>3, <1>4, Zenon DEF Timed
  <2>2. WriterOK(dir, w, [r EXCEPT !.pc = "list", !.timestamp = time])
    BY <2>1, LoadedOK, Zenon
  <2> QED
    BY <1>5, <2>2, OneWriterOnly, Zenon
<1>6. ASSUME Fail(w) PROVE Inv'
  BY <1>6, EndedOK, OneWriterOnly, ZenonT(30) DEF Fail
<1> QED
  BY <1>5, <1>6, Zenon DEF LoadBase, time

\* The listing of an attempt finds the last version, no earlier than the base.
LEMMA ListInv == ASSUME Inv, NEW w \in Writer, List(w) PROVE Inv'
<1> DEFINE r == writer[w]
           latest == LatestVersion(dir)
           target == IF latest >= r.base THEN latest ELSE None
           rec == [r EXCEPT !.pc = "check", !.attempts = @ + 1, !.target = target]
<1> dir' = dir /\ lost' = lost /\ r.pc = "list" /\ Set(w, rec)
  BY Zenon DEF List
<1> /\ DirOK(dir) /\ WriterOK(dir, w, r) /\ Len(dir.log) \in Nat /\ DOMAIN r = Fields
    /\ r.base \in -1 .. Len(dir.log) - 1 /\ Decides(dir, r)
  BY Using, Zenon DEF Deciding
<1>3. target = Len(dir.log) - 1
  BY Known
<1> HIDE DEF target
<1>4. target \in -1 .. Len(dir.log) - 1 /\ target >= r.base
  BY <1>3
<1>5. WriterOK(dir, w, rec)
  BY <1>4, ListedOK, Zenon
<1> QED
  BY <1>5, OneWriterOnly, Zenon

\* Multiples of n are at least n apart.
LEMMA Multiples ==
    ASSUME NEW n \in Nat \ {0}, NEW x \in Nat, NEW y \in Nat, x % n = 0, y % n = 0, x < y
    PROVE  x + n <= y
<1>1. x = n * (x \div n) /\ y = n * (y \div n)
  OBVIOUS
<1>2. x \div n \in Nat /\ y \div n \in Nat
  OBVIOUS
<1>3. PICK a \in Nat, b \in Nat : x = n * a /\ y = n * b
  BY <1>1, <1>2, Zenon
<1>4. a < b
  <2> SUFFICES ASSUME b <= a PROVE FALSE
    OBVIOUS
  <2> n * b <= n * a
    OBVIOUS
  <2> QED
    BY <1>3
<1> n * (a + 1) <= n * b
  BY <1>4
<1> n * (a + 1) = n * a + n
  OBVIOUS
<1> QED
  BY <1>3, Zenon

\* What is n short of a multiple of n is one.
LEMMA MultipleBelow ==
    ASSUME NEW n \in Nat \ {0}, NEW x \in Nat, NEW y \in Nat, y % n = 0, x = y - n
    PROVE  x % n = 0
<1>1. y = n * (y \div n) /\ y \div n \in Nat
  OBVIOUS
<1>2. x = n * (x \div n) + (x % n) /\ x \div n \in Nat /\ x % n \in 0 .. n - 1
  OBVIOUS
<1>3. PICK a \in Nat, b \in Nat, m \in 0 .. n - 1 : y = n * a /\ x = n * b + m /\ m = x % n
  BY <1>1, <1>2, Zenon
<1>4. n * a = n * (b + 1) + m
  <2> n * (b + 1) = n * b + n
    OBVIOUS
  <2> QED
    BY <1>3
<1>5. CASE a <= b + 1
  <2> n * a <= n * (b + 1)
    BY <1>5
  <2> QED
    BY <1>3, <1>4
<1>6. CASE b + 2 <= a
  <2> n * (b + 2) <= n * a
    BY <1>6
  <2> n * (b + 2) = n * (b + 1) + n
    OBVIOUS
  <2> QED
    BY <1>3, <1>4
<1> QED
  BY <1>5, <1>6

\* If no version has both a checkpoint and the end of a compaction, no compaction
\* starts right after a checkpoint: the one before it would end there.
LEMMA ApartSkipsNone ==
    ASSUME NEW d, DirOK(d), KeptApart
    PROVE  NoneIsSkipped(d)
<1> SUFFICES ASSUME NEW r \in DOMAIN d.compactions, r[1] - 1 \in DOMAIN d.checkpoints PROVE FALSE
  BY Zenon DEF NoneIsSkipped
<1> DEFINE n == CompactionInterval
           u == r[2]
           c == r[1] - 1
<1>1. r = <<u + 1 - n, u>> /\ ShouldCreateCompaction(u) /\ ShouldCreateCheckpoint(c)
  BY Zenon DEF DirOK, Aligned
<1>2. u \in Nat /\ c \in Nat
  BY Known DEF DirOK, WellKept, FilesAreInLog
<1>3. n \in Nat \ {0} /\ (u + 1) % n = 0
  BY <1>1, DeltaAssumption DEF ShouldCreateCompaction
<1>4. c # 0
  BY <1>1, Zenon DEF ShouldCreateCheckpoint
<1>5. r[1] = u + 1 - n
  BY <1>1
<1>6. c + 1 = u + 1 - n
  BY <1>2, <1>3, <1>5
<1> HIDE DEF u, c
<1>7. (c + 1) % n = 0
  <2> DEFINE x == c + 1
             y == u + 1
  <2> x \in Nat /\ y \in Nat /\ y % n = 0 /\ x = y - n
    BY <1>2, <1>3, <1>6
  <2> HIDE DEF x, y, n
  <2> x % n = 0
    BY <1>3, MultipleBelow, Zenon
  <2> QED
    BY Zenon DEF x
<1>8. ShouldCreateCompaction(c)
  BY <1>2, <1>3, <1>4, <1>7 DEF ShouldCreateCompaction
<1> QED
  BY <1>1, <1>2, <1>8, Zenon DEF KeptApart

\* A writer that goes on from a later version than it was planned on: one that
\* removes nothing and sets no header, with the header it was planned under.
LEMMA MovedOn ==
    ASSUME Inv, NEW w \in Writer, writer[w].pc = "check", dir' = dir, lost' = lost,
           NEW record, DOMAIN record = Fields,
           record.kind = writer[w].kind, record.removes = writer[w].removes,
           record.planned = writer[w].planned, record.target = writer[w].target,
           record.attempts = writer[w].attempts, record.version = writer[w].version,
           record.target > writer[w].base, record.sets = NoHeader, record.removes = {},
           record.kind \in {"create", "append", "overwrite"},
           KeptApart => record.planned = Version(dir, record.target).header,
           ReadyOn(w, record)
    PROVE  Inv'
<1> DEFINE r == writer[w]
           v == record.target
           time == IF record.kind = "create" THEN ReplayedTimestamp(dir, v) ELSE Timestamp(v)
           moved == [record EXCEPT !.base = v, !.timestamp = time]
           rec == [moved EXCEPT !.pc = "put"]
<1>1. /\ DirOK(dir) /\ WriterOK(dir, w, r) /\ Len(dir.log) \in Nat
      /\ r.base \in -1 .. Len(dir.log) - 1 /\ r.target \in -1 .. Len(dir.log) - 1
      /\ Decides(dir, r)
  BY Using, Zenon DEF Deciding
<1>2. v \in 0 .. Len(dir.log) - 1 /\ v > r.base
  BY <1>1
<1>3. /\ time \in Int
      /\ ~(ShouldCreateCompaction(v) /\ record.kind = "create") => time = dir.log[v + 1].timestamp
  BY <1>1, <1>2, ReplayedTimestampIs, Zenon DEF Timestamp
<1>4. Set(w, rec)
  BY Zenon DEF ReadyOn, Ready
<1> HIDE DEF time
<1>5. /\ DOMAIN moved = Fields /\ moved.base = v /\ moved.timestamp = time
      /\ moved.removes = record.removes /\ moved.kind = record.kind
      /\ moved.planned = record.planned /\ moved.sets = record.sets
      /\ moved.target = record.target /\ moved.attempts = record.attempts
      /\ moved.version = record.version
  BY Zenon DEF Fields
<1> HIDE DEF moved
<1> /\ DOMAIN rec = Fields /\ rec.pc = "put" /\ rec.base = v /\ rec.timestamp = time
    /\ rec.removes = record.removes /\ rec.kind = record.kind /\ rec.planned = record.planned
    /\ rec.sets = record.sets /\ rec.target = v /\ rec.attempts = r.attempts
    /\ rec.version = r.version
  BY <1>5, PcFields
<1> HIDE DEF rec
<1>6. r.version = None /\ StillThere(dir, r.base) /\ r.attempts \in 0 .. Retries(r) + 1
  BY <1>1, DecidingGives, Zenon DEF Decides, Deciding
<1>7. /\ Timed(dir, v, time, InFull(rec))
      /\ Planned(dir, v, rec.kind, rec.planned, rec.sets, rec.removes)
  <2>1. v # None
    BY <1>2 DEF None
  <2>2. InFull(rec) <=> record.kind = "create"
    BY Zenon DEF InFull
  <2>3. Timed(dir, v, time, InFull(rec))
    BY <1>3, <2>2, Zenon DEF Timed
  <2>4. Planned(dir, v, rec.kind, rec.planned, rec.sets, rec.removes)
    BY <2>1, Zenon DEF Planned
  <2> QED
    BY <2>3, <2>4, Zenon
<1>8. Decides(dir, rec)
  BY <1>6, <1>7, Zenon DEF Decides
<1>9. rec.attempts \in 0 .. Retries(rec) + 1
  <2> Retries(rec) = Retries(r)
    BY Zenon DEF Retries, IsBlindAppend
  <2> QED
    BY <1>6, Zenon
<1>10. StillThere(dir, v) /\ v \in -1 .. Len(dir.log) - 1
  BY <1>1, <1>2, <1>6 DEF StillThere
<1>11. rec.pc \in Deciding /\ v = rec.base /\ v = rec.target
  BY Zenon DEF Deciding
<1>12. WriterOK(dir, w, rec)
  BY <1>8, <1>9, <1>10, <1>11, DecidingOK, Zenon
<1> QED
  BY <1>4, <1>12, OneWriterOnly, Zenon

\* A creator goes on as an append if the table it finds has the header it
\* wanted; the others go on if no winner conflicts.
LEMMA CheckInv == ASSUME MaxLaw, Inv, NEW w \in Writer, Check(w) PROVE Inv'
<1> DEFINE r == writer[w]
<1>1. dir' = dir /\ lost' = lost /\ r.pc = "check"
  BY Zenon DEF Check
<1>2. /\ DirOK(dir) /\ WriterOK(dir, w, r) /\ Len(dir.log) \in Nat /\ DOMAIN r = Fields
      /\ r.base \in -1 .. Len(dir.log) - 1 /\ r.target \in -1 .. Len(dir.log) - 1
      /\ Decides(dir, r)
  BY <1>1, Using, Zenon DEF Deciding
<1>3. ASSUME Fail(w) PROVE Inv'
  BY <1>1, <1>2, <1>3, EndedOK, OneWriterOnly, ZenonT(30) DEF Fail
<1>4. CASE CheckCreated(w)
  <2>1. r.base = None /\ r.target # None
    BY <1>4, Zenon DEF CheckCreated
  <2> r.kind = "create" /\ r.removes = {} /\ r.target \in Nat /\ r.target > r.base
    BY <1>2, <2>1 DEF Decides, Planned, Timed, None
  <2>3. ASSUME CanLoadState(dir, r.target), LoadState(dir, r.target).header = r.planned,
               ReadyOn(w, [r EXCEPT !.sets = NoHeader])
        PROVE  Inv'
    <3> USE <2>3
    <3> DEFINE record == [r EXCEPT !.sets = NoHeader]
    <3> /\ DOMAIN record = Fields /\ record.sets = NoHeader
        /\ record.kind = r.kind /\ record.removes = r.removes /\ record.planned = r.planned
        /\ record.target = r.target /\ record.attempts = r.attempts
        /\ record.version = r.version
      BY <1>2, Zenon DEF Fields
    <3> HIDE DEF record
    <3> KeptApart => LoadState(dir, r.target).header = Version(dir, r.target).header
      <4> SUFFICES ASSUME KeptApart
                   PROVE  LoadState(dir, r.target).header = Version(dir, r.target).header
        BY Zenon
      <4> NoneIsSkipped(dir)
        BY <1>2, ApartSkipsNone, Zenon
      <4> QED
        BY <1>2, ExactReplay, Zenon DEF CanLoadState, DirOK, WellKept
    <3> QED
      BY <1>1, MovedOn, ZenonT(30) DEF record
  <2> QED
    BY <1>3, <1>4, <2>3, Zenon DEF CheckCreated
<1>5. CASE CheckWinners(w)
  <2>1. r.base # None /\ r.target > r.base
    BY <1>5, Zenon DEF CheckWinners
  <2>2. ASSUME Retries(r) > 0, ~Conflicts(r), ReadyOn(w, r) PROVE Inv'
    <3> USE <2>2
    <3>1. r.kind = "create" \/ IsBlindAppend(r)
      BY SMTT(30) DEF Retries
    <3>2. /\ r.kind \in {"create", "append", "overwrite"} /\ r.sets = NoHeader
          /\ r.removes = {} /\ (KeptApart => r.planned = Version(dir, r.base).header)
      BY <1>2, <2>1, <3>1, Zenon DEF Decides, Planned, IsBlindAppend
    <3>3. \A k \in r.base + 1 .. r.target : dir.log[k + 1].header = NoHeader
      BY Zenon DEF Conflicts, ConflictsWith
    <3> r.base \in Nat /\ r.target \in Nat /\ r.base <= r.target
      BY <1>2, <2>1 DEF None
    <3> Version(dir, r.target).header = Version(dir, r.base).header
      BY <3>3, HeaderStays, ZenonT(30)
    <3> QED
      BY <1>1, <1>2, <2>1, <3>2, MovedOn, Zenon
  <2> QED
    BY <1>3, <1>5, <2>2, Zenon DEF CheckWinners
<1>6. CASE r.base = r.target /\ Ready(w, r)
  <2>1. Set(w, [r EXCEPT !.pc = "put"])
    BY <1>6, Zenon DEF Ready
  <2>2. r.pc \in Deciding /\ (r.kind = "rewrite" => r.removes # {})
    BY <1>1, <1>2, Zenon DEF Decides, Deciding
  <2>3. WriterOK(dir, w, [r EXCEPT !.pc = "put"])
    BY <1>2, <1>6, <2>2, MovesOnOK, Zenon
  <2> QED
    BY <1>1, <2>1, <2>3, OneWriterOnly, Zenon
<1> QED
  BY <1>4, <1>5, <1>6, Zenon DEF Check

-----------------------------------------------------------------------------
(* The put.                                                                *)

\* What any writer holds true stays true when somebody appends a version.
LEMMA OthersAppend ==
    ASSUME NEW d, DirOK(d), NEW e, NEW entry, e.log = Append(d.log, entry),
           e.commits = d.commits \cup {Len(d.log)}, e.checkpoints = d.checkpoints,
           NEW u, NEW r, WriterOK(d, u, r)
    PROVE  WriterOK(e, u, r)
<1>1. PICK S : d.log \in Seq(S)
  BY Zenon DEF DirOK, Shaped
<1> DEFINE n == Len(d.log)
<1> /\ n \in Nat /\ Len(e.log) = n + 1 /\ \A i \in 1 .. n : e.log[i] = d.log[i]
    /\ DOMAIN d.log = 1 .. n /\ DOMAIN e.log = 1 .. n + 1
  BY <1>1
<1>3. DOMAIN r = Fields /\ r.base \in -1 .. n - 1 /\ r.target \in -1 .. n - 1
  BY Zenon DEF WriterOK
<1>4. ASSUME r.base # None PROVE Version(e, r.base) = Version(d, r.base)
  <2> \A k \in 0 .. r.base : e.log[k + 1] = d.log[k + 1]
    BY <1>3
  <2> QED
    BY CommitsAgree, Zenon DEF Version
<1>5. r.base # None => e.log[r.base + 1] = d.log[r.base + 1]
  BY <1>3 DEF None
<1>6. r.base # Len(e.log) - 1
  BY <1>3
<1>7. r.pc \in Deciding => Decides(e, r)
  <2> SUFFICES ASSUME Decides(d, r) PROVE Decides(e, r)
    BY Zenon DEF WriterOK
  <2> QED
    BY <1>4, <1>5, <1>6, ZenonT(30) DEF Decides, Planned, Timed
<1>8. r.pc \in Deciding \cup After => StillThere(e, r.base)
  <2> SUFFICES ASSUME StillThere(d, r.base), NEW k \in 0 .. n, k >= r.base
               PROVE  k \in e.commits
    BY DEF WriterOK, StillThere
  <2>1. CASE k = n
    BY <2>1, Zenon
  <2>2. CASE k \in 0 .. n - 1
    BY <2>2, Zenon DEF StillThere
  <2> QED
    BY <2>1, <2>2
<1> /\ r.base \in -1 .. Len(e.log) - 1 /\ r.target \in -1 .. Len(e.log) - 1
    /\ r.pc \in After => r.version \in 0 .. Len(e.log) - 1
  BY <1>3 DEF WriterOK
<1> (\E i \in DOMAIN d.log : d.log[i].writer = u) => \E i \in DOMAIN e.log : e.log[i].writer = u
  OBVIOUS
<1> QED
  BY <1>7, <1>8, Zenon DEF WriterOK

\* A writer whose put was refused starts another attempt, or fails.
LEMMA RefusedOK ==
    ASSUME Inv, NEW w \in Writer, NEW d, DirOK(d), writer[w].pc = "put",
           WriterOK(d, w, writer[w]), Refused(w)
    PROVE  \E rec : Set(w, rec) /\ WriterOK(d, w, rec)
<1> DEFINE r == writer[w]
           rec == [r EXCEPT !.pc = "list"]
<1>1. CASE r.attempts > Retries(r)
  <2> Set(w, [NewWriter EXCEPT !.pc = "failed"])
    BY <1>1, Zenon DEF Refused, Fail
  <2> WriterOK(d, w, [NewWriter EXCEPT !.pc = "failed"])
    BY EndedOK, Zenon
  <2> QED
    BY Zenon
<1>2. CASE ~(r.attempts > Retries(r))
  <2>1. Set(w, rec)
    BY <1>2, GotoIs, Zenon DEF Refused
  <2>2. /\ r.pc \in Deciding /\ Decides(d, r) /\ r.attempts \in 0 .. Retries(r) + 1
        /\ Retries(r) \in Nat
    BY DecidingGives, RetriesType, Zenon DEF Deciding
  <2>3. r.kind = "rewrite" => r.removes # {}
    BY <2>2, Zenon DEF Decides
  <2>4. r.attempts <= Retries(r)
    BY <1>2, <2>2
  <2>5. WriterOK(d, w, rec)
    BY <2>2, <2>3, <2>4, MovesOnOK, Zenon
  <2> QED
    BY <2>1, <2>5, Zenon
<1> QED
  BY <1>1, <1>2, Zenon

\* The time of a commit is later than its base's.
LEMMA InCommitTimestampIs ==
    ASSUME NEW r, r.timestamp \in Int, NEW now \in Clock
    PROVE  InCommitTimestamp(r, now) \in Int /\ InCommitTimestamp(r, now) > r.timestamp
<1> DEFINE t == r.timestamp + 1
           both == {now, t}
<1> now \in Int /\ t \in Int
  BY DeltaAssumption
<1>2. CASE now >= t
  <2> USE <1>2
  <2> both \in SUBSET Int /\ now \in both /\ \A y \in both : now >= y
    OBVIOUS
  <2> HIDE DEF both
  <2> Max(both) = now
    BY MaxIs, Zenon
  <2> QED
    BY DEF InCommitTimestamp, both
<1>3. CASE ~(now >= t)
  <2> both \in SUBSET Int /\ t \in both /\ \A y \in both : t >= y
    BY <1>3
  <2> HIDE DEF both
  <2> Max(both) = t
    BY MaxIs, Zenon
  <2> QED
    BY DEF InCommitTimestamp, both
<1> QED
  BY <1>2, <1>3, Zenon

\* A put that is not refused makes the version after the last, on a base that is
\* the last: no version is overwritten, even where commits were cleaned up.
LEMMA PutIs ==
    ASSUME Inv, NEW w \in Writer, Put(w)
    PROVE  \/ Refused(w) /\ dir' = dir /\ lost' = lost
           \/ /\ writer[w].base = Len(dir.log) - 1
              /\ writer[w].target = Len(dir.log) - 1
              /\ \E now \in Clock : dir' = WriteCommitEntry(dir, Len(dir.log), Entry(w, now))
              /\ \/ /\ Set(w, [NewWriter EXCEPT !.pc = "post", !.base = writer[w].base,
                                                 !.version = Len(dir.log)])
                    /\ lost' = lost
                 \/ lost < MaxLost /\ lost' = lost + 1 /\ (Fail(w) \/ Refused(w))
<1> DEFINE r == writer[w]
           version == r.target + 1
<1>1. r.pc = "put"
  BY Zenon DEF Put
<1> /\ DirOK(dir) /\ WriterOK(dir, w, r) /\ Len(dir.log) \in Nat
    /\ r.base \in -1 .. Len(dir.log) - 1 /\ Decides(dir, r)
  BY <1>1, Using, Zenon DEF Deciding
<1>3. r.target = r.base
  BY <1>1, Zenon DEF Decides, Planned, Timed
<1>4. CASE CommitExists(dir, version)
  BY <1>4, Zenon DEF Put
<1>5. CASE ~CommitExists(dir, version)
  <2> version = Len(dir.log)
    <3> \A k \in 0 .. Len(dir.log) - 1 : k >= r.base => k \in dir.commits
      BY <1>1, Zenon DEF WriterOK, Deciding, StillThere
    <3> version \notin dir.commits
      BY <1>5, Zenon DEF CommitExists
    <3>1. version \in 0 .. Len(dir.log) /\ version >= r.base
      BY <1>3
    <3> QED
      BY <3>1
  <2> r.base = Len(dir.log) - 1 /\ r.target = Len(dir.log) - 1
    BY <1>3
  <2> QED
    BY <1>5, Zenon DEF Put
<1> QED
  BY <1>4, <1>5, Zenon

\* The fields of an entry.
LEMMA EntryFields ==
    ASSUME NEW w, NEW now
    PROVE  LET c == Entry(w, now)
           IN  /\ c.writer = w /\ c.kind = writer[w].kind /\ c.removes = writer[w].removes
               /\ c.header = writer[w].sets /\ c.planned = writer[w].planned
               /\ c.timestamp = InCommitTimestamp(writer[w], now)
               /\ writer[w].kind = "alter" => c.adds = {}
  BY Zenon DEF Entry

\* A commit keeps all that is known of the directory and of its writers.
LEMMA AppendInv ==
    ASSUME Inv, NEW w \in Writer, writer[w].pc = "put", writer[w].base = Len(dir.log) - 1,
           NEW now \in Clock, dir' = WriteCommitEntry(dir, Len(dir.log), Entry(w, now))
    PROVE  /\ DirOK(dir') /\ Increases(dir'.log)
           /\ dir'.log = Append(dir.log, Entry(w, now))
           /\ dir'.commits = dir.commits \cup {Len(dir.log)}
           /\ \A u \in Writer : WriterOK(dir', u, writer[u])
<1> DEFINE r == writer[w]
           entry == Entry(w, now)
           n == Len(dir.log)
<1> DirOK(dir) /\ WriterOK(dir, w, r) /\ n \in Nat /\ Decides(dir, r)
  BY Using, Zenon DEF Deciding
<1>2. PICK S : dir.log \in Seq(S)
  BY Zenon DEF DirOK, Shaped
<1>3. /\ entry.header = r.sets /\ entry.kind = r.kind /\ entry.removes = r.removes
      /\ entry.timestamp \in Int /\ entry.timestamp > r.timestamp
  <2>1. /\ entry.header = r.sets /\ entry.kind = r.kind /\ entry.removes = r.removes
        /\ entry.timestamp = InCommitTimestamp(r, now)
    BY EntryFields
  <2>2. r.timestamp \in Int
    BY Zenon DEF Decides, Timed
  <2>3. InCommitTimestamp(r, now) \in Int /\ InCommitTimestamp(r, now) > r.timestamp
    BY <2>2, InCommitTimestampIs, Zenon
  <2> QED
    BY <2>1, <2>3, Zenon
<1> HIDE DEF entry
<1>4. dir.log = <<>> => entry.header # NoHeader
  <2> SUFFICES ASSUME dir.log = <<>> PROVE entry.header # NoHeader
    BY Zenon
  <2> r.base = None
    BY <1>2 DEF None
  <2> QED
    BY <1>3, DeltaAssumption, Zenon DEF Decides, Planned, Timed
<1>5. /\ Shaped(dir') /\ WellKept(dir')
      /\ dir'.log = Append(dir.log, entry) /\ dir'.commits = dir.commits \cup {n}
      /\ dir'.checkpoints = dir.checkpoints /\ dir'.compactions = dir.compactions
  BY <1>4, AppendKeeps, ZenonT(30) DEF DirOK, entry
<1>6. /\ Len(dir'.log) = n + 1 /\ DOMAIN dir'.log = 1 .. n + 1 /\ DOMAIN dir.log = 1 .. n
      /\ \A i \in 1 .. n : dir'.log[i] = dir.log[i]
      /\ dir'.log[n + 1] = entry
  BY <1>2, <1>5
<1>7. DirOK(dir')
  <2> \A i \in 1 .. n + 1 : dir'.log[i].timestamp \in Int
    <3> TAKE i \in 1 .. n + 1
    <3>1. CASE i = n + 1
      BY <1>3, <1>6, <3>1, Zenon
    <3>2. CASE i \in 1 .. n
      BY <1>6, <3>2, Zenon DEF DirOK
    <3> QED
      BY <3>1, <3>2
  <2> Aligned(dir')
    BY <1>5, Zenon DEF DirOK, Aligned
  <2> QED
    BY <1>5, <1>6, Zenon DEF DirOK
<1> Increases(dir'.log)
  <2> SUFFICES ASSUME NEW i \in 1 .. n + 1, i < n + 1,
                      ~(ShouldCreateCompaction(i - 1) /\ InFull(dir'.log[i + 1]))
               PROVE  dir'.log[i].timestamp < dir'.log[i + 1].timestamp
    BY <1>6, Zenon DEF Increases
  <2> i \in 1 .. n
    OBVIOUS
  <2>2. CASE i = n
    <3> USE <2>2
    <3> r.base # None /\ r.base + 1 = n /\ i - 1 = r.base
      BY SMTT(30) DEF None
    <3> InFull(entry) = InFull(r)
      BY <1>3, Zenon DEF InFull
    <3> ~(ShouldCreateCompaction(r.base) /\ InFull(r))
      BY <1>6, Zenon
    <3> r.timestamp = dir.log[n].timestamp
      BY Zenon DEF Decides, Timed
    <3> QED
      BY <1>3, <1>6, Zenon
  <2>3. CASE i < n
    <3> USE <2>3
    <3> i + 1 \in 1 .. n
      OBVIOUS
    <3> dir'.log[i + 1] = dir.log[i + 1]
      BY <1>6, Zenon
    <3> dir.log[i].timestamp < dir.log[i + 1].timestamp
      BY <1>6, Zenon DEF Inv, Increases
    <3> QED
      BY <1>6, Zenon
  <2> QED
    BY <2>2, <2>3, SMTT(30)
<1> \A u \in Writer : WriterOK(dir', u, writer[u])
  BY <1>5, OthersAppend, ZenonT(30) DEF Inv
<1> QED
  BY <1>5, <1>7, Zenon DEF entry

\* Whether its answer arrives or not.
LEMMA PutInv == ASSUME Inv, NEW w \in Writer, Put(w) PROVE Inv'
<1> DEFINE r == writer[w]
           n == Len(dir.log)
<1>1. r.pc = "put"
  BY Zenon DEF Put
<1>2. DirOK(dir) /\ WriterOK(dir, w, r) /\ n \in Nat /\ lost \in 0 .. MaxLost
  BY Using, Zenon DEF Inv
<1>3. CASE Refused(w) /\ dir' = dir /\ lost' = lost
  <2> USE <1>3
  <2> PICK rec : Set(w, rec) /\ WriterOK(dir, w, rec)
    BY <1>1, <1>2, RefusedOK, Zenon
  <2> QED
    BY OneWriterOnly, Zenon
<1>4. ASSUME r.base = n - 1, NEW now \in Clock,
             dir' = WriteCommitEntry(dir, n, Entry(w, now)),
             \/ /\ Set(w, [NewWriter EXCEPT !.pc = "post", !.base = r.base, !.version = n])
                /\ lost' = lost
             \/ lost < MaxLost /\ lost' = lost + 1 /\ (Fail(w) \/ Refused(w))
      PROVE  Inv'
  <2>1. /\ DirOK(dir') /\ Increases(dir'.log) /\ \A u \in Writer : WriterOK(dir', u, writer[u])
        /\ dir'.log = Append(dir.log, Entry(w, now)) /\ dir'.commits = dir.commits \cup {n}
    BY <1>1, <1>4, AppendInv, Zenon
  <2>2. lost' \in 0 .. MaxLost
    BY <1>2, <1>4, DeltaAssumption
  <2>3. ASSUME NEW rec, Set(w, rec), WriterOK(dir', w, rec) PROVE Inv'
    BY <2>1, <2>2, <2>3, OneWriter, Zenon
  <2>4. ASSUME Fail(w) PROVE Inv'
    BY <2>1, <2>3, <2>4, EndedOK, ZenonT(30) DEF Fail
  <2>5. ASSUME Refused(w) PROVE Inv'
    <3> PICK rec : Set(w, rec) /\ WriterOK(dir', w, rec)
      BY <1>1, <2>1, <2>5, RefusedOK, Zenon
    <3> QED
      BY <2>3, Zenon
  <2>6. ASSUME Set(w, [NewWriter EXCEPT !.pc = "post", !.base = r.base, !.version = n])
        PROVE  Inv'
    <3> DEFINE rec == [NewWriter EXCEPT !.pc = "post", !.base = r.base, !.version = n]
    <3>1. /\ DOMAIN rec = Fields /\ rec.pc = "post" /\ rec.base = r.base /\ rec.version = n
          /\ rec.target = None /\ rec.attempts = 0
      BY Zenon DEF NewWriter, Fields
    <3>2. Retries(rec) \in Nat
      BY RetriesType, Zenon
    <3> HIDE DEF rec
    <3>3. PICK S : dir.log \in Seq(S)
      BY <1>2, Zenon DEF DirOK, Shaped
    <3> /\ Len(dir'.log) = n + 1 /\ DOMAIN dir'.log = 1 .. n + 1
        /\ dir'.log[n + 1] = Entry(w, now)
      BY <2>1, <3>3
    <3>5. dir'.log[n + 1].writer = w
      BY EntryFields
    <3>6. \A k \in 0 .. n : k >= n - 1 => k \in dir'.commits
      <4> \A k \in 0 .. Len(dir'.log) - 1 : k >= r.base => k \in dir'.commits
        BY <1>1, <2>1, Zenon DEF WriterOK, Deciding, StillThere
      <4> QED
        BY <1>2, <1>4, SMTT(30)
    <3>7. /\ rec.base \in -1 .. Len(dir'.log) - 1 /\ rec.target \in -1 .. Len(dir'.log) - 1
          /\ rec.attempts \in 0 .. Retries(rec) + 1 /\ rec.version \in 0 .. Len(dir'.log) - 1
      BY <1>2, <1>4, <3>1, <3>2 DEF None
    <3>8. \E i \in DOMAIN dir'.log : dir'.log[i].writer = w
      BY <1>2, <3>5
    <3>9. StillThere(dir', rec.base)
      BY <1>2, <1>4, <3>1, <3>6, SMTT(30) DEF StillThere
    <3>10. rec.pc \in After /\ rec.pc \notin Deciding /\ rec.pc # "hint" /\ rec.pc # "checkpoint"
      BY <3>1, Zenon DEF After, Deciding
    <3> WriterOK(dir', w, rec)
      BY <3>1, <3>7, <3>8, <3>9, <3>10, Zenon DEF WriterOK
    <3> QED
      BY <2>3, <2>6, Zenon DEF rec
  <2> QED
    BY <1>4, <2>4, <2>5, <2>6, Zenon
<1> QED
  BY <1>3, <1>4, PutIs, Zenon

-----------------------------------------------------------------------------
(* The work after a commit.                                                *)

\* What a writer holds true stays true when the log does and no commit from its
\* base on is deleted.
LEMMA OthersSameLog ==
    ASSUME NEW d, NEW e, e.log = d.log, NEW u, NEW r, WriterOK(d, u, r), Len(d.log) \in Nat,
           r.pc \in Deciding \cup After => \A k \in d.commits : k >= r.base => k \in e.commits,
           \A k \in Int : (\E c \in DOMAIN d.checkpoints : c >= k)
                             => \E c \in DOMAIN e.checkpoints : c >= k
    PROVE  WriterOK(e, u, r)
<1>1. \A v : Version(e, v) = Version(d, v)
  BY Zenon DEF Version, Commits, Commit
<1>2. r.pc \in Deciding => Decides(e, r)
  BY <1>1, Zenon DEF WriterOK, Decides, Planned, Timed
<1> r.pc = "hint" => \E c \in DOMAIN e.checkpoints : c >= r.version
  <2> SUFFICES ASSUME r.pc = "hint" PROVE \E c \in DOMAIN e.checkpoints : c >= r.version
    BY Zenon
  <2> r.version \in Int /\ \E c \in DOMAIN d.checkpoints : c >= r.version
    BY DEF WriterOK, After
  <2> QED
    BY Zenon
<1>4. r.pc \in Deciding \cup After => StillThere(e, r.base)
  BY Zenon DEF WriterOK, StillThere
<1> QED
  BY <1>2, <1>4, Zenon DEF WriterOK

\* After the commit a writer moves from one piece of work to the next.
LEMMA AfterOK ==
    ASSUME NEW d, Len(d.log) \in Nat, NEW w, NEW r, WriterOK(d, w, r), r.pc \in After,
           NEW pc \in After, pc = "checkpoint" => ShouldCreateCheckpoint(r.version),
           pc = "hint" => \E c \in DOMAIN d.checkpoints : c >= r.version
    PROVE  WriterOK(d, w, [r EXCEPT !.pc = pc])
<1> DEFINE rec == [r EXCEPT !.pc = pc]
<1>1. DOMAIN r = Fields
  BY Zenon DEF WriterOK
<1> /\ DOMAIN rec = Fields /\ rec.pc = pc /\ rec.removes = r.removes
    /\ rec.kind = r.kind /\ rec.base = r.base /\ rec.target = r.target
    /\ rec.attempts = r.attempts /\ rec.version = r.version
  BY <1>1, PcFields
<1> HIDE DEF rec
<1> Retries(rec) = Retries(r)
  BY Zenon DEF Retries, IsBlindAppend
<1> WriterOK(d, w, rec)
  BY Zenon DEF WriterOK, Deciding, After
<1> QED
  BY Zenon DEF rec

\* A writer that answers after its commit reports it.
LEMMA AnswerOK ==
    ASSUME NEW d, DirOK(d), NEW w, NEW r, WriterOK(d, w, r), r.pc \in After
    PROVE  WriterOK(d, w, [NewWriter EXCEPT !.pc = "done", !.version = r.version])
<1> r.version # None => \E i \in DOMAIN d.log : d.log[i].writer = w
  BY Zenon DEF WriterOK
<1> QED
  BY EndedOK, ZenonT(30)

\* Choosing the work.
LEMMA PostInv == ASSUME Inv, NEW w \in Writer, Post(w) PROVE Inv'
<1> DEFINE r == writer[w]
<1> dir' = dir /\ lost' = lost /\ r.pc = "post" /\ r.pc \in After
  BY Zenon DEF Post, After
<1>2. DirOK(dir) /\ WriterOK(dir, w, r) /\ Len(dir.log) \in Nat
  BY Using, Zenon
<1>3. ASSUME NEW pc \in {"checkpoint", "compact"}, Goto(w, pc),
             pc = "checkpoint" => ShouldCreateCheckpoint(r.version)
      PROVE  Inv'
  <2> pc \in After /\ pc # "hint"
    BY Zenon DEF After
  <2> WriterOK(dir, w, [r EXCEPT !.pc = pc])
    BY <1>2, <1>3, AfterOK, Zenon
  <2> QED
    BY <1>3, GotoIs, OneWriterOnly, Zenon
<1>4. ASSUME Answer(w) PROVE Inv'
  BY <1>2, <1>4, AnswerOK, OneWriterOnly, ZenonT(30) DEF Answer
<1> QED
  BY <1>3, <1>4, Zenon DEF Post

\* The checkpoint.
LEMMA CheckpointInv == ASSUME MaxLaw, Inv, NEW w \in Writer, Checkpoint(w) PROVE Inv'
<1> DEFINE r == writer[w]
           v == r.version
<1>1. lost' = lost /\ r.pc = "checkpoint" /\ r.pc \in After
  BY Zenon DEF Checkpoint, After
<1> /\ DirOK(dir) /\ WriterOK(dir, w, r) /\ Len(dir.log) \in Nat /\ Increases(dir.log)
    /\ lost \in 0 .. MaxLost
  BY Using, Zenon DEF Inv
<1>3. v \in 0 .. Len(dir.log) - 1 /\ ShouldCreateCheckpoint(v)
  BY <1>1, Zenon DEF WriterOK
<1>4. ASSUME dir' = WriteCheckpoint(dir, v), Goto(w, "hint") PROVE Inv'
  <2> /\ Shaped(dir') /\ WellKept(dir')
      /\ dir'.log = dir.log /\ dir'.commits = dir.commits
      /\ DOMAIN dir'.checkpoints = DOMAIN dir.checkpoints \cup {v}
      /\ dir'.compactions = dir.compactions
    BY <1>3, <1>4, CheckpointKeeps, Zenon DEF DirOK
  <2>1. Aligned(dir')
    BY <1>3, Zenon DEF DirOK, Aligned
  <2>2. DirOK(dir') /\ Increases(dir'.log)
    BY <2>1, Zenon DEF DirOK
  <2> \A u \in Writer : WriterOK(dir', u, writer[u])
    <3> TAKE u \in Writer
    <3> WriterOK(dir, u, writer[u])
      BY Zenon DEF Inv
    <3> QED
      BY OthersSameLog, Zenon
  <2>4. v \in DOMAIN dir'.checkpoints /\ v >= v
    BY <1>3
  <2> WriterOK(dir', w, [r EXCEPT !.pc = "hint"])
    <3> "hint" \in After
      BY Zenon DEF After
    <3> QED
      BY <1>1, <2>4, AfterOK, Zenon
  <2> QED
    BY <1>1, <1>4, <2>2, GotoIs, OneWriter, Zenon
<1>5. ASSUME dir' = dir, Goto(w, "compact") PROVE Inv'
  <2> "compact" \in After
    BY Zenon DEF After
  <2> WriterOK(dir, w, [r EXCEPT !.pc = "compact"])
    BY <1>1, AfterOK, Zenon
  <2> QED
    BY <1>1, <1>5, GotoIs, OneWriterOnly, Zenon
<1> QED
  BY <1>4, <1>5, Zenon DEF Checkpoint

\* The hint, which names a version at or below a checkpoint.
LEMMA HintInv == ASSUME Inv, NEW w \in Writer, Hint(w) PROVE Inv'
<1> DEFINE r == writer[w]
           v == r.version
<1>1. lost' = lost /\ r.pc = "hint" /\ r.pc \in After /\ dir' = WriteHint(dir, v) /\ Goto(w, "cleanup")
  BY Zenon DEF Hint, After
<1> /\ DirOK(dir) /\ WriterOK(dir, w, r) /\ Len(dir.log) \in Nat /\ Increases(dir.log)
    /\ lost \in 0 .. MaxLost
  BY Using, Zenon DEF Inv
<1>3. v \in 0 .. Len(dir.log) - 1 /\ \E c \in DOMAIN dir.checkpoints : c >= v
  BY <1>1, Zenon DEF WriterOK
<1> /\ Shaped(dir') /\ WellKept(dir')
    /\ dir'.log = dir.log /\ dir'.commits = dir.commits
    /\ dir'.checkpoints = dir.checkpoints /\ dir'.compactions = dir.compactions
  BY <1>1, <1>3, HintKeeps, Zenon DEF DirOK
<1>5. DirOK(dir') /\ Increases(dir'.log)
  BY Zenon DEF DirOK, Aligned
<1> \A u \in Writer : WriterOK(dir', u, writer[u])
  <2> TAKE u \in Writer
  <2> WriterOK(dir, u, writer[u])
    BY Zenon DEF Inv
  <2> QED
    BY OthersSameLog, Zenon
<1> WriterOK(dir', w, [r EXCEPT !.pc = "cleanup"])
  <2> "cleanup" \in After
    BY Zenon DEF After
  <2> QED
    BY <1>1, AfterOK, Zenon
<1> QED
  BY <1>1, <1>5, GotoIs, OneWriter, Zenon

\* A clean-up stays below the base of every writer that is still at work.
LEMMA CleanUpInv == ASSUME Inv, NEW w \in Writer, CleanUp(w) PROVE Inv'
<1> DEFINE r == writer[w]
<1>1. lost' = lost /\ r.pc = "cleanup" /\ r.pc \in After
  BY Zenon DEF CleanUp, After
<1>2. /\ DirOK(dir) /\ WriterOK(dir, w, r) /\ Len(dir.log) \in Nat /\ Increases(dir.log)
      /\ lost \in 0 .. MaxLost
  BY Using, Zenon DEF Inv
<1>3. ASSUME NEW boundary \in Boundaries(r.version), NEW file \in Expired(dir, boundary),
             dir' = Delete(dir, file), writer' = writer
      PROVE  Inv'
  <2>1. boundary \in DOMAIN dir.checkpoints /\ \A b \in InUse : boundary <= b
    BY <1>3, Zenon DEF Boundaries
  <2>2. /\ Shaped(dir') /\ WellKept(dir') /\ dir'.log = dir.log
        /\ \A k \in dir.commits : k >= boundary => k \in dir'.commits
        /\ \A k \in Int : (\E c \in DOMAIN dir.checkpoints : c >= k)
                             => \E c \in DOMAIN dir'.checkpoints : c >= k
        /\ DOMAIN dir'.checkpoints \subseteq DOMAIN dir.checkpoints
        /\ DOMAIN dir'.compactions \subseteq DOMAIN dir.compactions
        /\ \A x \in DOMAIN dir'.compactions : dir'.compactions[x] = dir.compactions[x]
    BY <1>2, <1>3, <2>1, DeleteKeeps, Zenon DEF DirOK
  <2>3. DirOK(dir') /\ Increases(dir'.log)
    BY <1>2, <2>2, Zenon DEF DirOK, Aligned
  <2> \A u \in Writer : WriterOK(dir', u, writer[u])
    <3> TAKE u \in Writer
    <3>1. WriterOK(dir, u, writer[u])
      BY Zenon DEF Inv
    <3>2. ASSUME writer[u].pc \in Deciding \cup After, NEW k \in dir.commits, k >= writer[u].base
          PROVE  k \in dir'.commits
      <4> USE <3>2
      <4>1. writer[u].base \in InUse
        BY Zenon DEF InUse, Deciding, After
      <4>2. /\ dir.commits \subseteq 0 .. Len(dir.log) - 1
            /\ DOMAIN dir.checkpoints \subseteq 0 .. Len(dir.log) - 1
            /\ writer[u].base \in -1 .. Len(dir.log) - 1
        BY <1>2, <3>1, Zenon DEF DirOK, WellKept, FilesAreInLog, WriterOK
      <4> boundary \in Int /\ k \in Int /\ writer[u].base \in Int
        BY <2>1, <4>2
      <4> k >= boundary
        BY <2>1, <4>1
      <4> QED
        BY <2>2, Zenon
    <3> QED
      BY <1>2, <2>2, <3>1, <3>2, OthersSameLog, Zenon
  <2> QED
    BY <1>1, <1>2, <1>3, <2>3, Zenon DEF Inv
<1>4. ASSUME dir' = dir, Goto(w, "compact") PROVE Inv'
  <2> "compact" \in After
    BY Zenon DEF After
  <2> WriterOK(dir, w, [r EXCEPT !.pc = "compact"])
    BY <1>1, <1>2, AfterOK, Zenon
  <2> QED
    BY <1>1, <1>4, GotoIs, OneWriterOnly, Zenon
<1> QED
  BY <1>3, <1>4, Zenon DEF CleanUp

\* Compactions of one interval never overlap.
LEMMA Apart ==
    ASSUME NEW d, DirOK(d), NEW v \in Nat, ShouldCreateCompaction(v),
           NEW r \in DOMAIN d.compactions
    PROVE  LET a == v + 1 - CompactionInterval
           IN  r = <<a, v>> \/ r[2] < a \/ v < r[1]
<1> DEFINE n == CompactionInterval
           u == r[2]
<1>1. n \in Nat \ {0} /\ (v + 1) % n = 0
  BY DeltaAssumption DEF ShouldCreateCompaction
<1>2. r = <<u + 1 - n, u>> /\ ShouldCreateCompaction(u)
  BY Zenon DEF DirOK, Aligned
<1> u \in Nat /\ r[1] = u + 1 - n /\ (u + 1) % n = 0
  <2> u \in Nat
    BY Known DEF DirOK, WellKept, FilesAreInLog
  <2> QED
    BY <1>2 DEF ShouldCreateCompaction
<1> HIDE DEF u
<1>4. CASE u = v
  BY <1>2, <1>4, Zenon
<1>5. CASE u < v
  <2> u + 1 \in Nat /\ v + 1 \in Nat /\ u + 1 < v + 1
    BY <1>5
  <2> u + 1 + n <= v + 1
    BY <1>1, Multiples, Zenon
  <2> QED
    BY <1>1 DEF u
<1>6. CASE v < u
  <2> u + 1 \in Nat /\ v + 1 \in Nat /\ v + 1 < u + 1
    BY <1>6
  <2> v + 1 + n <= u + 1
    BY <1>1, Multiples, Zenon
  <2> QED
    BY <1>1
<1> QED
  BY <1>4, <1>5, <1>6

\* A compaction of what is in the log, as long as its removes are all kept.
LEMMA CompactInv == ASSUME Inv, ~TombstonesExpire, NEW w \in Writer, Compact(w) PROVE Inv'
<1> DEFINE r == writer[w]
           v == r.version
           a == v + 1 - CompactionInterval
<1>1. lost' = lost /\ r.pc = "compact" /\ r.pc \in After
        /\ Set(w, [NewWriter EXCEPT !.pc = "done", !.version = v])
  BY Zenon DEF Compact, After, Answer
<1>2. /\ DirOK(dir) /\ WriterOK(dir, w, r) /\ Len(dir.log) \in Nat /\ Increases(dir.log)
      /\ lost \in 0 .. MaxLost
  BY Using, Zenon DEF Inv
<1>3. v \in 0 .. Len(dir.log) - 1
  BY <1>1, <1>2, Zenon DEF WriterOK
<1>4. ASSUME ShouldCreateCompaction(v), CanCompact(dir, <<a, v>>), NEW now \in Clock,
             dir' = PutCompaction(dir, <<a, v>>, Compaction(dir, <<a, v>>, {}, now))
      PROVE  Inv'
  <2>1. a \in 0 .. v
    <3>1. CompactionInterval \in Nat \ {0}
      BY <1>4, DeltaAssumption DEF ShouldCreateCompaction
    <3>2. a .. v \subseteq dir.commits
      BY <1>4, Zenon DEF CanCompact
    <3> a \in Int /\ a <= v
      BY <1>3, <3>1
    <3> a \in dir.commits
      BY <1>3, <3>2
    <3> QED
      BY <1>2 DEF DirOK, WellKept, FilesAreInLog
  <2>2. v \in Nat
    BY <1>3
  <2>3. OverlapsNone(dir, a, v)
    BY <1>2, <1>4, <2>2, Apart, Zenon DEF OverlapsNone
  <2> HIDE DEF a
  <2>4. /\ Shaped(dir') /\ WellKept(dir') /\ dir'.log = dir.log /\ dir'.commits = dir.commits
        /\ dir'.checkpoints = dir.checkpoints
        /\ DOMAIN dir'.compactions = DOMAIN dir.compactions \cup {<<a, v>>}
        /\ \A x \in DOMAIN dir.compactions : dir'.compactions[x] = dir.compactions[x]
        /\ <<a, v>> \notin DOMAIN dir.compactions => dir'.compactions[<<a, v>>].modified = now
    <3> Shaped(dir) /\ WellKept(dir)
      BY <1>2, Zenon DEF DirOK
    <3> HIDE DEF v
    <3> QED
      BY <1>3, <1>4, <2>1, <2>3, CompactionKeeps
  <2>5. Aligned(dir')
    <3> SUFFICES ASSUME NEW x \in DOMAIN dir'.compactions
                 PROVE  /\ x = <<x[2] + 1 - CompactionInterval, x[2]>>
                        /\ ShouldCreateCompaction(x[2]) /\ dir'.compactions[x].modified \in Int
      BY <1>2, <2>4, Zenon DEF DirOK, Aligned
    <3>1. CASE x \in DOMAIN dir.compactions
      BY <1>2, <2>4, <3>1, Zenon DEF DirOK, Aligned
    <3>2. CASE x \notin DOMAIN dir.compactions
      <4> x = <<a, v>> /\ dir'.compactions[x].modified = now
        BY <2>4, <3>2, Zenon
      <4> x[2] = v /\ now \in Int
        BY DeltaAssumption
      <4> QED
        BY <1>4, Zenon DEF a
    <3> QED
      BY <3>1, <3>2, Zenon
  <2> DirOK(dir') /\ Increases(dir'.log)
    BY <1>2, <2>4, <2>5, Zenon DEF DirOK
  <2> \A u \in Writer : WriterOK(dir', u, writer[u])
    <3> TAKE u \in Writer
    <3> WriterOK(dir, u, writer[u])
      BY Zenon DEF Inv
    <3> QED
      BY <1>2, <2>4, OthersSameLog, Zenon
  <2> WriterOK(dir', w, [NewWriter EXCEPT !.pc = "done", !.version = v])
    BY <1>1, AnswerOK, ZenonT(30)
  <2> QED
    BY <1>1, <1>2, OneWriter, Zenon
<1>5. ASSUME dir' = dir PROVE Inv'
  <2> WriterOK(dir, w, [NewWriter EXCEPT !.pc = "done", !.version = v])
    BY <1>1, <1>2, AnswerOK, ZenonT(30)
  <2> QED
    BY <1>1, <1>5, OneWriterOnly, Zenon
<1> QED
  BY <1>4, <1>5, Zenon DEF Compact

\* Every step keeps the invariant.
LEMMA NextInv == ASSUME MaxLaw, Inv, ~TombstonesExpire, [Next]_vars PROVE Inv'
<1>1. ASSUME NEW w \in Writer, Step(w) PROVE Inv'
  BY <1>1, PlanInv, ScanInv, LoadBaseInv, ListInv, CheckInv, PutInv, PostInv, CheckpointInv,
     HintInv, CleanUpInv, CompactInv, Zenon DEF Step
<1>2. CASE UNCHANGED vars
  BY <1>2, Zenon DEF vars, Inv
<1> QED
  BY <1>1, <1>2, Zenon DEF Next

-----------------------------------------------------------------------------
(* The refinement.                                                         *)

\* The table that DeltaTable reads off the history is the last version.
LEMMA TableIs ==
    ASSUME MaxLaw, Inv, Len(dir.log) > 0
    PROVE  LET v == Len(dir.log) - 1
           IN  Table!Header = Version(dir, v).header /\ Table!Live = Version(dir, v).adds
<1> DEFINE n == Len(dir.log)
           v == n - 1
           log == dir.log
<1>1. PICK S : log \in Seq(S)
  BY Zenon DEF Inv, DirOK, Shaped
<1> n \in Nat /\ DOMAIN log = 1 .. n /\ v \in Nat /\ log # <<>>
  BY <1>1
<1>3. log[1].header # NoHeader
  BY Zenon DEF Inv, DirOK, WellKept
<1> HIDE DEF n
<1>4. Table!Header = Version(dir, v).header
  <2> DEFINE H == {i \in DOMAIN log : log[i].header # NoHeader}
  <2>1. H \in SUBSET (0 .. n) /\ H # {}
    BY <1>3
  <2>2. n \in Int
    OBVIOUS
  <2>3. \A i \in H : i \in 1 .. n /\ log[i].header # NoHeader
    BY Zenon
  <2>4. \A i \in 1 .. n : log[i].header # NoHeader => i \in H
    BY Zenon
  <2>5. Table!Header = log[Max(H)].header
    BY Zenon DEF Table!Header, Table!Max, Max
  <2> HIDE DEF H
  <2>6. Max(H) \in H /\ \A y \in H : Max(H) >= y
    BY <2>1, <2>2, MaxOfVersions, ZenonT(30)
  <2>7. PICK m \in H : m = Max(H) /\ \A y \in H : m >= y
    BY <2>6, Zenon
  <2> m - 1 \in 0 .. v /\ (m - 1) + 1 = m /\ m \in Int
    BY <2>3
  <2>9. ASSUME NEW q \in 0 .. v, q > m - 1 PROVE log[q + 1].header = NoHeader
    <3> q + 1 \in 1 .. n /\ ~(m >= q + 1)
      BY <2>9
    <3> QED
      BY <2>4, <2>7, Zenon
  <2> Version(dir, v).header = log[(m - 1) + 1].header
    <3> log[(m - 1) + 1].header # NoHeader
      BY <2>3, Zenon
    <3> QED
      BY <2>9, VersionHeader, ZenonT(30)
  <2> QED
    BY <2>5, <2>7, Zenon
<1> ASSUME NEW f PROVE f \in Table!Live <=> f \in Version(dir, v).adds
  <2>1. f \in Table!Live <=>
          \E i \in 1 .. n : f \in log[i].adds /\ \A j \in 1 .. n : j >= i => f \notin log[j].removes
    BY Zenon DEF Table!Live
  <2>2. f \in Version(dir, v).adds <=>
          \E k \in 0 .. v : f \in log[k + 1].adds /\ \A j \in k .. v : f \notin log[j + 1].removes
    BY VersionFiles, ZenonT(30)
  <2> HIDE DEF log
  <2>3. ASSUME NEW i \in 1 .. n, f \in log[i].adds,
               \A j \in 1 .. n : j >= i => f \notin log[j].removes
        PROVE  \E k \in 0 .. v : f \in log[k + 1].adds /\ \A j \in k .. v : f \notin log[j + 1].removes
    <3> i - 1 \in 0 .. v /\ (i - 1) + 1 = i
      OBVIOUS
    <3> \A j \in i - 1 .. v : j + 1 \in 1 .. n /\ j + 1 >= i
      OBVIOUS
    <3> QED
      BY <2>3, Zenon
  <2>4. ASSUME NEW k \in 0 .. v, f \in log[k + 1].adds, \A j \in k .. v : f \notin log[j + 1].removes
        PROVE  \E i \in 1 .. n : f \in log[i].adds /\ \A j \in 1 .. n : j >= i => f \notin log[j].removes
    <3> k + 1 \in 1 .. n
      OBVIOUS
    <3> \A j \in 1 .. n : j >= k + 1 => j - 1 \in k .. v /\ (j - 1) + 1 = j
      OBVIOUS
    <3> QED
      BY <2>4, Zenon
  <2> QED
    BY <2>1, <2>2, <2>3, <2>4, Zenon
<1> Table!Live = Version(dir, v).adds
  BY Zenon
<1> QED
  BY <1>4, Zenon DEF n

\* The work after a commit changes no version.
LEMMA LogStays ==
    ASSUME NEW d, Shaped(d), NEW v, NEW x, NEW y
    PROVE  /\ WriteCheckpoint(d, v).log = d.log /\ WriteHint(d, v).log = d.log
           /\ Delete(d, x).log = d.log /\ PutCompaction(d, x, y).log = d.log
<1> PICK p, q, r, s, t : d = Dir(p, q, r, s, t)
  BY Zenon DEF Shaped
<1>2. WriteCheckpoint(d, v).log = d.log
  BY Zenon DEF WriteCheckpoint, Dir
<1>3. WriteHint(d, v).log = d.log
  BY Zenon DEF WriteHint, Dir
<1> Delete(d, x).log = d.log
  BY Zenon DEF Delete, Dir
<1> PutCompaction(d, x, y).log = d.log
  BY Zenon DEF PutCompaction, Dir
<1> QED
  BY <1>2, <1>3, Zenon

\* No step changes what another writer knows, or one that has answered.
LEMMA OthersStay ==
    ASSUME Inv, NEW w \in Writer, Step(w)
    PROVE  /\ writer[w].pc # "done"
           /\ \A u \in Writer : u # w => writer'[u] = writer[u]
<1> \A rec : Set(w, rec) => \A u \in Writer : u # w => writer'[u] = writer[u]
  BY Zenon DEF Set, Inv
<1> \A pc : Goto(w, pc) => \A u \in Writer : u # w => writer'[u] = writer[u]
  BY Zenon DEF Goto, Inv
<1>3. CASE Plan(w)
  BY <1>3, ZenonT(30) DEF Plan, PlanCreate, PlanOn
<1>4. CASE Scan(w)
  BY <1>4, ZenonT(30) DEF Scan, Answer
<1>5. CASE LoadBase(w)
  BY <1>5, Zenon DEF LoadBase, Fail
<1>6. CASE List(w)
  BY <1>6, Zenon DEF List
<1>7. CASE Check(w)
  BY <1>7, Zenon DEF Check, CheckCreated, CheckWinners, ReadyOn, Ready, Fail
<1>8. CASE Put(w)
  BY <1>8, Zenon DEF Put, Refused, Fail
<1>9. CASE Post(w)
  BY <1>9, Zenon DEF Post, Answer
<1>10. CASE Checkpoint(w)
  BY <1>10, Zenon DEF Checkpoint
<1>11. CASE Hint(w)
  BY <1>11, Zenon DEF Hint
<1>12. CASE CleanUp(w)
  BY <1>12, Zenon DEF CleanUp
<1>13. CASE Compact(w)
  BY <1>13, Zenon DEF Compact, Answer
<1> QED
  BY <1>3, <1>4, <1>5, <1>6, <1>7, <1>8, <1>9, <1>10, <1>11, <1>12, <1>13, ZenonT(30) DEF Step

\* No step but a put that is not refused makes a version.
LEMMA LogStaysBut ==
    ASSUME Inv, NEW w \in Writer, Step(w), ~Put(w)
    PROVE  dir'.log = dir.log
<1> Shaped(dir)
  BY Zenon DEF Inv, DirOK
<1>2. CASE Checkpoint(w)
  <2>1. dir' = dir \/ \E v : dir' = WriteCheckpoint(dir, v)
    BY <1>2, Zenon DEF Checkpoint
  <2>2. \A v : WriteCheckpoint(dir, v).log = dir.log
    BY LogStays, Zenon
  <2>3. QED
    BY <2>1, <2>2, Zenon
<1>3. CASE Hint(w)
  BY <1>3, LogStays, Zenon DEF Hint
<1>4. CASE CleanUp(w)
  <2>1. dir' = dir \/ \E file : dir' = Delete(dir, file)
    BY <1>4, Zenon DEF CleanUp
  <2>2. \A file : Delete(dir, file).log = dir.log
    BY LogStays, Zenon
  <2>3. QED
    BY <2>1, <2>2, Zenon
<1>5. CASE Compact(w)
  <2>1. dir' = dir \/ \E x, y : dir' = PutCompaction(dir, x, y)
    BY <1>5, Zenon DEF Compact
  <2>2. \A x, y : PutCompaction(dir, x, y).log = dir.log
    BY LogStays, Zenon
  <2>3. QED
    BY <2>1, <2>2, Zenon
<1>6. CASE Plan(w) \/ Scan(w) \/ LoadBase(w) \/ List(w) \/ Check(w) \/ Post(w)
  BY <1>6, ZenonT(30) DEF Plan, Scan, LoadBase, List, Check, Post
<1> QED
  BY <1>2, <1>3, <1>4, <1>5, <1>6, Zenon DEF Step

Reported == {w \in Writer : writer[w].pc = "done" /\ writer[w].version # None}

\* A step that makes no version is a report, of commits that were made.
LEMMA IsReport ==
    ASSUME Inv, Inv', NEW w \in Writer, Step(w), dir'.log = dir.log
    PROVE  Table!Report
<1>1. Reported \subseteq Reported'
  BY OthersStay, Zenon DEF Reported
<1> Reported' \subseteq {dir.log[i].writer : i \in DOMAIN dir.log}
  <2> SUFFICES ASSUME NEW u \in Reported' PROVE \E i \in DOMAIN dir.log : dir.log[i].writer = u
    BY Zenon
  <2> u \in Writer /\ WriterOK(dir', u, writer'[u])
    BY Zenon DEF Reported, Inv
  <2> QED
    BY Zenon DEF Reported, WriterOK
<1> QED
  BY <1>1, Zenon DEF Table!Report, Reported

\* What is put on a table was decided on the last version, in one of the ways
\* DeltaTable allows.
LEMMA EntryIsAllowed ==
    ASSUME MaxLaw, KeptApart, Inv, NEW w \in Writer, writer[w].pc = "put", writer[w].base = Len(dir.log) - 1,
           NEW now
    PROVE  LET c == Entry(w, now)
           IN  \/ Table!Create(c) \/ Table!AppendFiles(c) \/ Table!Replace(c)
               \/ Table!Rewrite(c) \/ Table!Alter(c)
<1> DEFINE r == writer[w]
           c == Entry(w, now)
           n == Len(dir.log)
           v == n - 1
<1>1. DirOK(dir) /\ n \in Nat /\ Decides(dir, r)
  BY Using, Zenon DEF Deciding
<1>2. PICK S : dir.log \in Seq(S)
  BY <1>1, Zenon DEF DirOK, Shaped
<1>3. /\ c.kind = r.kind /\ c.removes = r.removes /\ c.header = r.sets
      /\ c.planned = r.planned
      /\ r.kind = "alter" => c.adds = {}
  BY EntryFields
<1> HIDE DEF c
<1>4. CASE n = 0
  <2> dir.log = <<>> /\ r.base = None
    BY <1>2, <1>4, SMTT(30) DEF None
  <2> r.sets \in Headers /\ r.removes = {}
    BY <1>1, Zenon DEF Decides, Planned, Timed
  <2> Table!Create(c)
    BY <1>3, Zenon DEF Table!Create
  <2> QED
    BY Zenon DEF c
<1>5. CASE n > 0
  <2> dir.log # <<>> /\ r.base # None /\ r.base = Len(dir.log) - 1
    BY <1>1, <1>2, <1>5 DEF None
  <2>2. Table!Header = Version(dir, r.base).header /\ Table!Live = Version(dir, r.base).adds
    BY <1>5, TableIs, Zenon
  <2>3. c.planned = Table!Header
    BY <1>1, <1>3, <2>2, ZenonT(30) DEF Decides, Planned, Timed
  <2>4. \/ r.kind \in {"create", "append"} /\ r.sets = NoHeader /\ r.removes = {}
        \/ r.kind = "alter" /\ r.sets \in Headers /\ r.removes = {}
        \/ /\ r.kind = "overwrite" /\ r.sets = NoHeader
           /\ r.removes # {} => r.removes = Table!Live
        \/ /\ r.kind = "rewrite" /\ r.sets = NoHeader /\ r.removes # {}
           /\ r.removes \subseteq Table!Live
    <3> r.pc # "scan"
      BY Zenon
    <3> HIDE DEF r
    <3> QED
      BY <1>1, <2>2, ZenonT(30) DEF Decides, Planned, Timed
  <2>5. CASE c.kind \in {"create", "append", "overwrite"} /\ c.header = NoHeader /\ c.removes = {}
    <3> Table!AppendFiles(c)
      BY <2>3, <2>5, Zenon DEF Table!AppendFiles
    <3> QED
      BY Zenon DEF c
  <2>6. CASE r.kind = "alter" /\ r.sets \in Headers /\ r.removes = {}
    <3> Table!Alter(c)
      BY <1>3, <2>3, <2>6, Zenon DEF Table!Alter
    <3> QED
      BY Zenon DEF c
  <2>7. CASE r.kind = "overwrite" /\ r.sets = NoHeader /\ r.removes = Table!Live
    <3> Table!Replace(c)
      BY <1>3, <2>3, <2>7, Zenon DEF Table!Replace
    <3> QED
      BY Zenon DEF c
  <2>8. CASE r.kind = "rewrite" /\ r.sets = NoHeader /\ r.removes # {}
             /\ r.removes \subseteq Table!Live
    <3> Table!Rewrite(c)
      BY <1>3, <2>3, <2>8, Zenon DEF Table!Rewrite
    <3> QED
      BY Zenon DEF c
  <2> QED
    BY <1>3, <2>4, <2>5, <2>6, <2>7, <2>8, ZenonT(30)
<1> QED
  BY <1>1, <1>4, <1>5

\* A put that is not refused is a commit of the abstract table: it adds one
\* version after the others and reports nothing yet.
LEMMA IsCommit ==
    ASSUME MaxLaw, KeptApart, Inv, NEW w \in Writer, writer[w].pc = "put", writer[w].base = Len(dir.log) - 1,
           NEW now \in Clock, dir' = WriteCommitEntry(dir, Len(dir.log), Entry(w, now)),
           writer'[w].pc # "done", \A u \in Writer : u # w => writer'[u] = writer[u]
    PROVE  Table!Commit
<1> DEFINE c == Entry(w, now)
           n == Len(dir.log)
<1>1. dir'.log = Append(dir.log, c)
  BY AppendInv, Zenon
<1>2. PICK S : dir.log \in Seq(S)
  BY Zenon DEF Inv, DirOK, Shaped
<1>3. \/ Table!Create(c) \/ Table!AppendFiles(c) \/ Table!Replace(c)
      \/ Table!Rewrite(c) \/ Table!Alter(c)
  BY EntryIsAllowed, Zenon
<1> HIDE DEF c
<1>4. dir.log \in Seq(S \cup {c}) /\ c \in S \cup {c}
  BY <1>2
<1> /\ Len(dir'.log) = n + 1 /\ dir'.log[n + 1] = c
    /\ SubSeq(dir'.log, 1, n) = dir.log
  BY <1>1, <1>4
<1> Reported' = Reported
  BY Zenon DEF Reported
<1> dir'.log[Len(dir'.log)] = c
  BY Zenon
<1> QED
  BY <1>3, Zenon DEF Table!Commit, Reported

\* Every step of a writer is a step of the abstract table.
LEMMA StepIsTableStep ==
    ASSUME MaxLaw, KeptApart, Inv, Inv', NEW w \in Writer, Step(w)
    PROVE  Table!Next
<1>1. CASE ~Put(w) \/ dir'.log = dir.log
  BY <1>1, LogStaysBut, IsReport, Zenon DEF Table!Next
<1>2. CASE Put(w) /\ dir'.log # dir.log
  <2>1. writer[w].pc = "put" /\ \A u \in Writer : u # w => writer'[u] = writer[u]
    BY <1>2, OthersStay, Zenon DEF Put
  <2> /\ writer[w].base = Len(dir.log) - 1
      /\ \E now \in Clock : dir' = WriteCommitEntry(dir, Len(dir.log), Entry(w, now))
      /\ \/ Set(w, [NewWriter EXCEPT !.pc = "post", !.base = writer[w].base,
                                     !.version = Len(dir.log)])
         \/ Fail(w) \/ Refused(w)
    BY <1>2, PutIs, ZenonT(30)
  <2>3. w \in DOMAIN writer /\ DOMAIN writer[w] = Fields
    BY Using, Zenon DEF Inv
  <2> writer'[w].pc \in {"post", "failed", "list"}
    BY <2>3, ZenonT(30) DEF Set, Fail, Refused, Goto, NewWriter, Fields
  <2> PICK now \in Clock : dir' = WriteCommitEntry(dir, Len(dir.log), Entry(w, now))
    BY Zenon
  <2> QED
    BY <2>1, IsCommit, Zenon DEF Table!Next
<1> QED
  BY <1>1, <1>2, Zenon

-----------------------------------------------------------------------------
(* The theorems.                                                           *)

INSTANCE WellFoundedInduction

\* The law about maxima: the least distance from the upper bound is that of the
\* maximum.
LEMMA MaxLawHolds == MaxLaw
<1> SUFFICES ASSUME NEW lo \in Int, NEW hi \in Int, NEW S \in SUBSET (lo .. hi), S # {}
             PROVE  Max(S) \in S /\ \A y \in S : Max(S) >= y
  BY Zenon DEF MaxLaw
<1> DEFINE T == {hi - x : x \in S}
<1>1. T \subseteq Nat /\ T # {}
  <2>1. \A x \in S : x \in lo .. hi
    BY Zenon
  <2>2. \A x \in S : hi - x \in Nat
    BY <2>1
  <2>3. T \subseteq Nat
    BY <2>2, Zenon
  <2> PICK x \in S : TRUE
    BY Zenon
  <2> hi - x \in T
    BY Zenon
  <2> QED
    BY <2>3, Zenon
<1> DEFINE R == OpToRel(<, Nat)
<1>a. R = {ss \in Nat \X Nat : ss[1] < ss[2]}
  BY Zenon DEF OpToRel
<1>b. IsWellFoundedOn(R, Nat)
  BY NatLessThanWellFounded, Zenon
<1> HIDE DEF R
<1> PICK t \in T : \A y \in T : ~(<<y, t>> \in R)
  BY <1>1, <1>b, WFMin, Zenon
<1>3. \A y \in T : ~(y < t)
  BY <1>1, <1>a, Zenon
<1> PICK x \in S : t = hi - x
  BY Zenon
<1> \A y \in S : x >= y
  BY <1>3
<1> QED
  BY Zenon DEF Max

\* Replaying parts that stand for the whole is replaying the whole: compacting
\* a log changes neither the files nor the header that its readers find.
THEOREM CompactingIsTransparent ==
    ASSUME NEW lo \in Int, NEW hi \in Int, NEW whole, NEW parts, NEW end,
           Grouped(parts, whole, lo, hi, end), NEW base
    PROVE  Same(Reconcile(base, parts), Reconcile(base, whole))
  BY CompactedReplay, MaxLawHolds, Zenon

\* Whatever files a reader of version v puts together, without a gap they come
\* to what was committed up to v: in the replay pipeline of a scan always, and in
\* a full load (LogSegmentResolver, load_replayed_table_state) if no compaction
\* starts right after a checkpoint.  A load skips one that does.
THEOREM ReplayIsExact ==
    ASSUME NEW d, Len(d.log) \in Nat, FilesAreInLog(d),
           CheckpointsAreExact(d), CompactionsAreExact(d),
           NEW v \in Nat, Contiguous(Segment(d, v), v)
    PROVE  /\ ScanFiles(d, v) = Version(d, v).adds
           /\ NoneIsSkipped(d) => /\ LoadState(d, v).adds = Version(d, v).adds
                                  /\ LoadState(d, v).header = Version(d, v).header
  BY ExactReplay, MaxLawHolds, Zenon

\* Whoever opens a well kept directory finds the last version and scans what was
\* committed; if no compaction starts right after a checkpoint, it can be loaded,
\* and the load finds what was committed as well.
THEOREM WellKeptIsReadable ==
    ASSUME NEW d, NEW S, d.log \in Seq(S), WellKept(d), d.log # <<>>
    PROVE  LET v == LatestVersion(d)
           IN  /\ v = Len(d.log) - 1
               /\ ScanFiles(d, v) = Version(d, v).adds
               /\ NoneIsSkipped(d) => /\ CanLoadState(d, v)
                                      /\ LoadState(d, v).adds = Version(d, v).adds
                                      /\ LoadState(d, v).header = Version(d, v).header
  BY Readable, MaxLawHolds, Zenon

\* The invariant always holds.
LEMMA AlwaysInv == ~TombstonesExpire => (Spec => []Inv)
<1> SUFFICES ASSUME ~TombstonesExpire PROVE Spec => []Inv
  BY Zenon
<1> Inv /\ [Next]_vars => Inv'
  BY NextInv, MaxLawHolds, Zenon
<1> QED
  BY InitInv, PTL DEF Spec

\* As long as removes are kept in compactions, and the intervals keep the end of
\* a compaction apart from a checkpoint, whoever opens the table finds its last
\* version, can load it, and finds in it what the commits made, whatever number
\* of writers commit, checkpoint, compact and clean up at the same time.
THEOREM Exact == ~TombstonesExpire /\ KeptApart => (Spec => []LatestIsExact)
<1> SUFFICES ASSUME ~TombstonesExpire, KeptApart PROVE Spec => []LatestIsExact
  BY Zenon
<1> Inv => LatestIsExact
  <2> SUFFICES ASSUME Inv, dir.log # <<>> PROVE LatestIsExact
    BY Zenon DEF LatestIsExact
  <2> PICK S : dir.log \in Seq(S)
    BY Zenon DEF Inv, DirOK, Shaped
  <2> WellKept(dir)
    BY Zenon DEF Inv, DirOK
  <2> NoneIsSkipped(dir)
    BY ApartSkipsNone, Zenon DEF Inv
  <2> QED
    BY Readable, MaxLawHolds, Zenon DEF LatestIsExact
<1> QED
  BY AlwaysInv, PTL

\* As long as removes are kept in compactions, each timestamp is later than the
\* one before it, whatever the clocks say, but for the commits that were made on
\* a full load of a version that ends a compaction.
THEOREM Times == ~TombstonesExpire => (Spec => []TimestampsIncrease)
<1> SUFFICES ASSUME ~TombstonesExpire PROVE Spec => []TimestampsIncrease
  BY Zenon
<1> Inv => TimestampsIncrease
  BY Zenon DEF Inv, TimestampsIncrease
<1> QED
  BY AlwaysInv, PTL

\* The types, and the bound on the attempts of a writer.
THEOREM Types == ~TombstonesExpire => (Spec => []TypeOK)
<1> SUFFICES ASSUME ~TombstonesExpire PROVE Spec => []TypeOK
  BY Zenon
<1> Inv => TypeOK
  BY Zenon DEF Inv, DirOK, WellKept, FilesAreInLog, WriterOK, TypeOK
<1> QED
  BY AlwaysInv, PTL

\* ImplementsTable, for any number of writers, any length of the log and any
\* answers lost, under the same two conditions as Exact: the commit loop makes one
\* history, and no commit in it was decided on a state that a winner had changed.
THEOREM Implements == ~TombstonesExpire /\ KeptApart => (Spec => ImplementsTable)
<1> SUFFICES ASSUME ~TombstonesExpire, KeptApart PROVE Spec => ImplementsTable
  BY Zenon
<1>1. Init => Table!Init
  <2> SUFFICES ASSUME Init, dir.log # <<>> PROVE dir.log[1].header # NoHeader
    BY Zenon DEF Table!Init
  <2> QED
    BY InitInv, Zenon DEF Inv, DirOK, WellKept
<1> Inv /\ Inv' /\ [Next]_vars => [Table!Next]_(Table!vars)
  <2> SUFFICES ASSUME Inv, Inv', [Next]_vars PROVE [Table!Next]_(Table!vars)
    BY Zenon
  <2>1. CASE Next
    BY <2>1, StepIsTableStep, MaxLawHolds, Zenon DEF Next
  <2>2. CASE UNCHANGED vars
    BY <2>2, Zenon DEF vars, Table!vars
  <2> QED
    BY <2>1, <2>2, Zenon
<1> Spec => []Inv
  BY AlwaysInv, Zenon
<1> QED
  BY <1>1, PTL DEF Spec, ImplementsTable, Table!Spec
=============================================================================
