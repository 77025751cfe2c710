SPECIFICATION Spec
CONSTANTS
    w1 = w1
    w2 = w2
    w3 = w3
    Writer = {w1, w2, w3}
    Headers = {"h1", "h2"}
    Directories <- OnlyCleaned
    MaxRetries = 1
    CheckpointInterval = 3
    CompactionInterval = 2
    TombstonesExpire = FALSE
    MaxLost = 0
    Clock = {6}
SYMMETRY AnyOrder
INVARIANTS
    LatestIsExact
\* Writers end.
CHECK_DEADLOCK FALSE
