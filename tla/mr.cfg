SPECIFICATION FairSpec
CONSTANTS
    Items = {i1, i2, i3}
    Workers = 2
    MaxWrites = 3
    Scenarios <- MCScenarios
INVARIANTS NoSendAfterClose ReturnsAfterMappers OutcomeFaithful
PROPERTIES NoGoroutineLeft
CHECK_DEADLOCK FALSE
