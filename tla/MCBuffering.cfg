SPECIFICATION FairSpec
CONSTANTS
    Static = 3
    MaxLast = 4
    Qualities = {q1, q2}
    Hls = {TRUE, FALSE}
    ChangeType = TRUE
    Chunks = 2
    MaxAppend <- AppendSizes
    MinAppend = 2
    MinBuffer = 1
    MaxCalls = 4
    MaxFailures <- Failures
    PeriodStart <- TwoPeriods
    q1 = q1
    q2 = q2
INVARIANTS
    BufferAgrees
    ContentInPlace
    EndedMeansBuffered
PROPERTIES
    BufferingProgress
CHECK_DEADLOCK FALSE
