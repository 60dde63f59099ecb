SPECIFICATION Spec
CONSTANTS
    Keys = {k1}
    NumSlots = 4
    MaxSteps = 5
    MaxOps = 3
    UseAfterDrain = FALSE
INVARIANTS MovedOnTime
CHECK_DEADLOCK FALSE
