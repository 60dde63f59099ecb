SPECIFICATION SyncxSpec
CONSTANTS
    Procs = {p1, p2, p3}
    Keys = {k1}
    MaxFlights = 3
    MaxInjects = 1
    LockKeys = {k1, k2}
    MaxCalls = 2
    Users = {u1, u2, u3, u4}
    Limit = 2
INVARIANTS OneFlight NoStaleResult OneManagedResource Sequential WaitsForToken PoolServes
PROPERTIES EveryCallReturns
CHECK_DEADLOCK FALSE
