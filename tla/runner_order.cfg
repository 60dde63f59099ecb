SPECIFICATION Spec
CONSTANTS
    Pushers = {p1, p2}
    BufSize = 2
    Runners = 2
    MaxPush = 4
    MayPanic = FALSE
INVARIANTS PushedOrder
CHECK_DEADLOCK FALSE
