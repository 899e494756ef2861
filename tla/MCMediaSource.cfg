CONSTANTS
    Types = {"audio", "video"}
    TypesOf <- MCTypes
    DurationOf <- MCDurations
    Buffers = {1, 2, 3}
    MaxCalls = 2
    MaxFaults = 1
SPECIFICATION Spec
INVARIANTS
    BuffersAccounted
    AppendsWhenReady
    DurationCurrent
    WaitsEnd
CHECK_DEADLOCK FALSE
