SPECIFICATION Spec
CONSTANTS
    Keys = {k1}
    Vals = {v1, v2}
    None = None
    Listeners = {l1, l2}
    Watches = {w1, w2}
    MaxRev = 2
    MaxFaults = 1
    MaxReloads = 2
    Compacts = TRUE
    MaxLeaves = 1
SYMMETRY Symmetric
INVARIANTS CaughtUp ListenerInformed
CHECK_DEADLOCK FALSE
