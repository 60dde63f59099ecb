SPECIFICATION FairSpec
CONSTANTS
    t1 = t1
    t2 = t2
    t3 = t3
    Callers = {c1, c2}
    Waiters = {c2}
    Flushers = {f1, f2}
    Tasks = {t1, t2, t3}
    Size <- ChunkSizes
    MaxSize = 2
INVARIANTS TasksConserved NoWorkStranded
PROPERTIES WaitCoversEntered EveryTaskExecuted EveryCallReturns
