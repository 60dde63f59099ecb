SPECIFICATION FairSpec
CONSTANTS
    Items = {i1, i2}
    Workers = 1
    MaxWrites = 1
    Scenarios <- HangScenario
PROPERTIES PanicEndsCall
CHECK_DEADLOCK FALSE
