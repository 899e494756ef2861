SPECIFICATION Spec
CONSTANTS
    songA = songA
    songB = songB
    pre = pre
    mid = mid
    post = post
    Uris = {songA, songB}
    Breaks = {pre, mid, post}
    AdBreaks <- EveryPlacement
    Start <- MCStart
    Placement <- MCPlacement
    NoAds = {songB}
    MaxAds = 2
    MaxQueue = 1
    MaxCalls = 2
INVARIANTS
    OneActive
    AdHasBreak
    RestPlaysContent
    BreakMovesOn
PROPERTIES
    PostrollAfterContent
CHECK_DEADLOCK FALSE
