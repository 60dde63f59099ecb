SPECIFICATION Spec
CONSTANTS
    Procs = {p1}
    Keys = {k1, k2}
    MaxFlights = 2
    Workers = 1
    MaxTasks = 1
    MaxUpdates = 2
    Clusters = {TRUE, FALSE}
SYMMETRY Symmetry
INVARIANTS StaleExplained
CHECK_DEADLOCK FALSE
