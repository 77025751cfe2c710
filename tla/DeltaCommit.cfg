SPECIFICATION Spec
CONSTANTS
    w1 = w1
    w2 = w2
    w3 = w3
    Writer = {w1, w2, w3}
    Headers = {"h1", "h2"}
    Directories <- Tables
    MaxRetries = 1
    CheckpointInterval = 2
    CompactionInterval = 2
    TombstonesExpire = FALSE
    MaxLost = 1
    Clock = {6}
SYMMETRY AnyOrder
INVARIANTS
    TypeOK
    LatestIsExact
    TimestampsIncrease
PROPERTY
    ImplementsTable
\* Writers end.
CHECK_DEADLOCK FALSE
