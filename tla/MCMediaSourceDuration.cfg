CONSTANTS
    Types = {"audio", "video"}
    TypesOf <- MCTypes
    DurationOf <- MCDurations
    Buffers = {1, 2, 3}
    MaxCalls = 1
    MaxFaults = 0
SPECIFICATION Spec
INVARIANTS
    DurationSetWhenIdle
CHECK_DEADLOCK FALSE
