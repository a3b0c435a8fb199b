SPECIFICATION FairSpec
CONSTANTS
    s1 = s1
    s2 = s2
    a = a
    b = b
    NoSession = NoSession
    NoWorker = NoWorker
    Sessions = {s1}
    Ids = {a}
    ShortId <- MCDistinctIds
    Workers = {w1, w2}
    MaxTime = 2
    MaxVersion = 2
    Debounce = 2
    MinGrowth = 1
    Retention = 1
    Ends = {s1}
    Handoffs = {}
    MaxFailures = 1
    Faults = {"hook", "spawn", "inference"}
INVARIANTS StopTasksSpaced
PROPERTIES DrainedWhileLooking
CHECK_DEADLOCK FALSE
