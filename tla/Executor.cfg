SPECIFICATION FairSpec
CONSTANTS
    Batches = 2
    BufferCapacity = 3
    InFlight = 1
    MaxRequests = 3
    Trouble <- EveryTrouble
    MaxBreaks = 1
    MaxHeartbeats = 1
    MaxReleases = 1
INVARIANTS
    TypeOK
    BatchesArriveOnceInOrder
    InterruptedIsStopped
    RefusedWithReason
PROPERTIES
    EveryClientEnds
    InterruptsStopTheTask
\* An operation ends.
CHECK_DEADLOCK FALSE
