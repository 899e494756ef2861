CONSTANTS
    t1 = t1
    t2 = t2
    t3 = t3
    Tasks <- MCTasks
    Priority <- MCPriority
    Capacities = {1, 2}
    MaxAborts = 1
SPECIFICATION FairSpec
INVARIANTS
    RunningIsExact
    NoLostWakeup
PROPERTIES
    DoomedNeverStart
    ImplementsScheduler
    AbortedSettle
    AllSettle
CHECK_DEADLOCK FALSE
