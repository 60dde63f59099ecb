SPECIFICATION Spec
CONSTANTS
    Pushers = {p1, p2}
    BufSize = 2
    Runners = 2
    MaxPush = 3
    MayPanic = TRUE
    MaxWrites = 3
    Producers = {p1, p2}
    NumConsumers = 2
    MaxMessages = 2
    MaxPauses = 2
    MaxBroadcasts = 1
    Servers = {s1, s2}
    Others = {o1, o2}
    MaxNotify = 2
INVARIANTS OrderUnlessLapped WaitCovers OneAnswer AllConsumed PausedIsInactive
PROPERTIES WaitEnds HandlerReleased StopEndsStart ListenersCalled GroupEnds
CHECK_DEADLOCK FALSE
