SPECIFICATION FairSpec
CONSTANTS
    Keys = {k1}
    Vals = {v1}
    None = None
    Listeners = {l1}
    Watches = {w1, w2}
    MaxRev = 1
    MaxFaults = 1
    MaxReloads = 1
    Compacts = FALSE
    MaxLeaves = 0
PROPERTIES ReloadCompletes
CHECK_DEADLOCK FALSE
