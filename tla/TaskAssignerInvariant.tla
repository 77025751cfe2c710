------------------------ MODULE TaskAssignerInvariant ------------------------
(***************************************************************************)
(* What the task assigner keeps of its queue, and the statements of what   *)
(* its methods do, for the proofs about them.  JobProofs proves the        *)
(* statements from SetLaws; the proofs about the driver take them as a     *)
(* hypothesis.                                                             *)
(***************************************************************************)
EXTENDS TaskAssigner, JobScheduler

\* Tasks that may share a slot.
Shareable(keys) == \A k, o \in keys : k # o => k[1] = o[1] /\ StageOf[k[2]] # StageOf[o[2]]

RegionSound(region) ==
    \A i \in DOMAIN region.sets :
        /\ Shareable(region.sets[i])
        /\ region.sets[i] \cap region.driver = {}
        /\ \A n \in DOMAIN region.sets : n # i => region.sets[i] \cap region.sets[n] = {}

\* No attempt is queued twice, or queued and assigned.
Orderly(queue) ==
    \A i \in DOMAIN queue :
        /\ RegionSound(queue[i])
        /\ \A n \in DOMAIN queue : n # i => RegionKeys(queue[i]) \cap RegionKeys(queue[n]) = {}

\* The number of an element among the elements of a set of integers.
Rank(S, x) == Cardinality({y \in S : y <= x})
-----------------------------------------------------------------------------
(* Facts about finite sets.  They are a hypothesis of the lemmas that use  *)
(* them, and JobProofs proves them at its end: with the theorems of the    *)
(* library in scope each obligation would take much longer to prepare.     *)

LeastLaw == \A B \in SUBSET Nat : B # {} => \E m \in B : \A i \in B : m <= i
CardinalityLaw == \A S : IsFiniteSet(S) => Cardinality(S) \in Nat
EmptyLaw ==
    Cardinality({}) = 0 /\ \A S : IsFiniteSet(S) => (Cardinality(S) = 0 <=> S = {})
SubsetLaw ==
    \A S : IsFiniteSet(S) => \A T \in SUBSET S :
        /\ IsFiniteSet(T) /\ Cardinality(T) <= Cardinality(S)
        /\ Cardinality(S) = Cardinality(T) => S = T
RemoveLaw ==
    \A S, x : IsFiniteSet(S) =>
        /\ IsFiniteSet(S \ {x})
        /\ Cardinality(S \ {x}) = IF x \in S THEN Cardinality(S) - 1 ELSE Cardinality(S)
SingletonLaw ==
    /\ \A x : IsFiniteSet({x}) /\ Cardinality({x}) = 1
    /\ \A S : IsFiniteSet(S) => (Cardinality(S) = 1 <=> \E x : S = {x})
IntervalLaw == \A n \in Nat : IsFiniteSet(1 .. n) /\ Cardinality(1 .. n) = n
PairUnionLaw ==
    \A S, T : IsFiniteSet(S) /\ IsFiniteSet(T) =>
        Cardinality(S \cup T) = Cardinality(S) + Cardinality(T) - Cardinality(S \cap T)
UnionLaw == \A S : IsFiniteSet(S) /\ (\A T \in S : IsFiniteSet(T)) => IsFiniteSet(UNION S)
ProductLaw == \A S, T : IsFiniteSet(S) /\ IsFiniteSet(T) => IsFiniteSet(S \X T)
SurjectionLaw ==
    \A S, T : \A f \in Surjection(S, T) : IsFiniteSet(S) => IsFiniteSet(T)
InjectionLaw ==
    \A S, T : \A f \in Injection(S, T) : IsFiniteSet(T) =>
        IsFiniteSet(S) /\ (Cardinality(S) = Cardinality(T) <=> f \in Surjection(S, T))

SetLaws ==
    /\ LeastLaw /\ CardinalityLaw /\ EmptyLaw /\ SubsetLaw /\ RemoveLaw /\ SingletonLaw
    /\ IntervalLaw /\ PairUnionLaw /\ UnionLaw /\ ProductLaw /\ SurjectionLaw /\ InjectionLaw
-----------------------------------------------------------------------------
(* The methods of the task assigner.                                       *)

InOrderLaw ==
    \A S \in SUBSET Int : IsFiniteSet(S) =>
        /\ Cardinality(S) \in Nat
        /\ InOrder(S) \in [1 .. Cardinality(S) -> S]
        /\ \A i, n \in 1 .. Cardinality(S) : InOrder(S)[i] = InOrder(S)[n] => i = n

FirstOnesLaw ==
    \A S \in SUBSET Int : IsFiniteSet(S) => \A n \in Nat : n <= Cardinality(S) =>
        LET T == {x \in S : Rank(S, x) <= n} IN IsFiniteSet(T) /\ Cardinality(T) = n

WorkersLaw ==
        /\ Worker \in SUBSET Int /\ IsFiniteSet(Worker)
        /\ IsFiniteSet(Slot)
        /\ \A a : Cardinality(VacantSlots(a)) \in Nat /\ Cardinality(Active(a)) \in Nat

RequiredLaw ==
    \A a \in TaskAssigner :
        RequiredWorkers(a) \in Nat

ExcludeLaw ==
    \A a \in TaskAssigner : \A keys :
        LET b == ExcludeTasks(a, keys)
        IN  /\ b \in TaskAssigner
            /\ b.requested = a.requested /\ b.resource = a.resource /\ b.slots = a.slots
            /\ b.streams = a.streams /\ b.driverTasks = a.driverTasks
            /\ b.driverStreams = a.driverStreams /\ b.assigned = a.assigned
            /\ \E f \in [DOMAIN b.queue -> DOMAIN a.queue] :
                 /\ \A i, n \in DOMAIN b.queue : f[i] = f[n] => i = n
                 /\ \A i \in DOMAIN b.queue :
                     b.queue[i] = a.queue[f[i]] /\ RegionKeys(b.queue[i]) \cap keys = {}

UnassignLaw ==
    \A a \in TaskAssigner : \A keys :
        LET b == UnassignTasks(a, keys)
        IN  /\ b \in TaskAssigner
            /\ b.queue = a.queue /\ b.requested = a.requested /\ b.resource = a.resource
            /\ b.streams = a.streams /\ b.driverStreams = a.driverStreams
            /\ b.assigned = a.assigned
            /\ \A s \in Slot : b.slots[s] = a.slots[s] \ {k \in keys : a.assigned[k] = s}
            /\ b.driverTasks = a.driverTasks \ {k \in keys : a.assigned[k] = OnDriver}

UntrackLaw ==
    \A a \in TaskAssigner : \A keys :
        LET b == UntrackLocalStreams(a, keys)
        IN  /\ b \in TaskAssigner
            /\ b.queue = a.queue /\ b.requested = a.requested /\ b.resource = a.resource
            /\ b.slots = a.slots /\ b.driverTasks = a.driverTasks
            /\ b.assigned = a.assigned
            /\ \A w \in Worker : b.streams[w] = a.streams[w] \ keys

EnqueueLaw ==
    \A a \in TaskAssigner, regions \in Seq(TaskRegion) :
        LET b == EnqueueTasks(a, regions)
        IN  /\ b \in TaskAssigner
            /\ b.queue = a.queue \o regions
            /\ b.requested = a.requested /\ b.resource = a.resource
            /\ b.slots = a.slots /\ b.driverTasks = a.driverTasks
            /\ b.streams = a.streams /\ b.assigned = a.assigned

RegionKeyLaw ==
    \A region \in TaskRegion :
        /\ region.driver \in SUBSET Key
        /\ \A i \in DOMAIN region.sets : region.sets[i] \in SUBSET Key
        /\ RegionKeys(region) \in SUBSET Key
        /\ region.driver \subseteq RegionKeys(region)
        /\ \A i \in DOMAIN region.sets : region.sets[i] \subseteq RegionKeys(region)
        /\ \A k \in RegionKeys(region) :
             k \in region.driver \/ \E i \in DOMAIN region.sets : k \in region.sets[i]

\* From a to b, the attempts `keys` are taken from the queue and assigned.
Assigns(a, b, keys) ==
    /\ b \in TaskAssigner
    /\ b.requested = a.requested /\ b.resource = a.resource
    /\ \E f \in [DOMAIN b.queue -> DOMAIN a.queue] :
         /\ \A i, n \in DOMAIN b.queue : f[i] = f[n] => i = n
         /\ \A i \in DOMAIN b.queue :
             /\ b.queue[i] = a.queue[f[i]]
             /\ RegionKeys(b.queue[i]) \cap keys = {}
    /\ keys \subseteq UNION {RegionKeys(a.queue[i]) : i \in DOMAIN a.queue}
    /\ keys \subseteq Key
    /\ \A k \in Key \ keys : b.assigned[k] = a.assigned[k]
    /\ \A k \in keys :
         \/ b.assigned[k] = OnDriver /\ k \in b.driverTasks
         \/ b.assigned[k] \in VacantSlots(a) /\ k \in b.slots[b.assigned[k]]
    /\ \A s \in Slot :
         \/ b.slots[s] = a.slots[s]
         \/ /\ s \in VacantSlots(a) /\ Shareable(b.slots[s])
            /\ \A k \in b.slots[s] : k \in keys /\ b.assigned[k] = s
    /\ \A k \in b.driverTasks :
         k \in a.driverTasks \/ (k \in keys /\ b.assigned[k] = OnDriver)
    /\ \A w \in Worker : a.streams[w] \subseteq b.streams[w]
    /\ \A k \in keys, s \in Slot :
         b.assigned[k] = s /\ a.resource[s[1]] = "Active" => k \in b.streams[s[1]]

AssignLaw ==
    \A a \in TaskAssigner : Orderly(a.queue) => \A p \in Placements(a) :
        Assigns(a, TrackStreams(AssignTasks(a, p), AssignedKeys(a)), AssignedKeys(a))

RequestLaw ==
    \A a \in TaskAssigner :
        LET b == RequestWorkers(a)
        IN  /\ b \in TaskAssigner
            /\ b.requested = a.requested + RequiredWorkers(a)
            /\ b.resource = a.resource
            /\ b.queue = a.queue /\ b.slots = a.slots /\ b.streams = a.streams
            /\ b.driverTasks = a.driverTasks /\ b.assigned = a.assigned

Activated(a, w, b) ==
    /\ b \in TaskAssigner /\ b.requested = Minus(a.requested, 1)
    /\ \A v \in Worker : b.resource[v] =
          IF v = w /\ a.resource[v] = "Absent" THEN "Active" ELSE a.resource[v]
    /\ b.queue = a.queue /\ b.slots = a.slots /\ b.streams = a.streams
    /\ b.driverTasks = a.driverTasks /\ b.assigned = a.assigned
NotStarted(a, b) ==
    /\ b \in TaskAssigner /\ b.requested = Minus(a.requested, 1) /\ b.resource = a.resource
    /\ b.queue = a.queue /\ b.slots = a.slots /\ b.streams = a.streams
    /\ b.driverTasks = a.driverTasks /\ b.assigned = a.assigned
Deactivated(a, w, b) ==
    /\ b \in TaskAssigner /\ b.requested = a.requested
    /\ \A v \in Worker : b.resource[v] = IF v = w THEN "Inactive" ELSE a.resource[v]
    /\ \A s \in Slot : b.slots[s] = IF s[1] = w THEN {} ELSE a.slots[s]
    /\ \A v \in Worker : b.streams[v] = IF v = w THEN {} ELSE a.streams[v]
    /\ b.queue = a.queue /\ b.driverTasks = a.driverTasks /\ b.assigned = a.assigned
WorkerLaw ==
    \A a \in TaskAssigner, w \in Worker :
        /\ Activated(a, w, ActivateWorker(a, w))
        /\ NotStarted(a, TrackWorkerFailedToStart(a))
        /\ w \in Active(a) => Deactivated(a, w, DeactivateWorker(a, w))

AssignerLaws ==
    /\ InOrderLaw /\ FirstOnesLaw /\ WorkersLaw /\ RequiredLaw /\ ExcludeLaw /\ UnassignLaw
    /\ UntrackLaw /\ EnqueueLaw /\ RegionKeyLaw /\ AssignLaw /\ RequestLaw /\ WorkerLaw
=============================================================================
