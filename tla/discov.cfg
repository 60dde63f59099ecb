SPECIFICATION DiscovSpec
CONSTANTS
    Keys = {k1, k2}
    Vals = {v1, v2}
    None = None
    Readers = {r1, r2}
    Modes = {TRUE, FALSE}
    MaxUpdates = 4
    WithIds = {TRUE, FALSE}
    MaxTurns = 4
    Feeders = {f1, f2}
    MaxChanges = 3
INVARIANTS ValuesWereLive StopUnpublishes SnapshotCurrent
PROPERTIES KeptPublished
CHECK_DEADLOCK FALSE
