CONSTANTS
    Slots = {s1, s2, s3}
    Reqs = {r1, r2}
    Gets = {get1}
    Qualities = {q1, q2}
    MaxTime = 2
    End <- MCLive
    PrefetchInactive = 1
    PrefetchActive = 2
    RetainTail = 0
    MaxCalls = 3
SPECIFICATION FairSpec
INVARIANTS
    CacheSound
    OneRequestPerSlot
PROPERTIES
    PrefetchNotForgotten
    PrefetchComesToRest
CHECK_DEADLOCK FALSE
