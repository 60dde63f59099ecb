SPECIFICATION CollectionSpec
CONSTANTS
    Keys = {k1, k2, k3}
    Values = {v1, v2}
    Absent = Absent
    MaxDeletion = 2
    CopyThreshold = 2
    WheelKeys = {k1}
    NumSlots = 4
    MaxSteps = 9
    WheelOps = 5
    Users = {u1, u2}
    Callbacks = {c1}
    Limit = 2
    CacheOps = 4
    Workers = 1
    MaxTasks = 2
    Buckets = 3
    Interval = 2
    MaxTime = 14
INVARIANTS TimersKept EntriesKept WindowExact
PROPERTIES IsPlainMap EveryTimerEnds EntryExpiresUnlessRaced CleanEnds
CHECK_DEADLOCK FALSE
