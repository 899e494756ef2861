SPECIFICATION Spec
CONSTANTS
    End = 1
    Targets = {1}
    MinSeekable = 1
    RetryLimit = 1
    MaxAttempts = 1
    SameTask = TRUE
    MaxPlays = 1
    MaxSeeks = 2
    MaxCalls = 2
    MaxFaults = 1
    MaxQueue = 2
INVARIANTS
    ControllerAgrees
    SupersededSeeksEnd
PROPERTIES
    SeekSettles
CHECK_DEADLOCK FALSE
