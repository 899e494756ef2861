SPECIFICATION Spec
CONSTANTS
    Requests <- MCRequests
    Loads <- MCLoads
    Retries = 1
    Cutoff = 2
    Timeout = 2
    MaxBackoff = 1
    Jitter = 1
    RetryAfters <- MCRetryAfters
    Platforms <- MCPlatforms
    MaxTime = 4
INVARIANTS
    LoadsAgree
    SettlesInTime
    OnlyAbortsAreSilent
PROPERTIES
    AbortEndsAttempts
CHECK_DEADLOCK FALSE
