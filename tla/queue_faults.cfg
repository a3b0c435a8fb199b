SPECIFICATION Spec
CONSTANTS
    s1 = s1
    s2 = s2
    a = a
    b = b
    NoSession = NoSession
    NoWorker = NoWorker
    Sessions = {s1}
    Ids = {a}
    ShortId <- MCDistinctIds
    Workers = {w1, w2}
    MaxTime = 1
    MaxVersion = 2
    Debounce = 1
    MinGrowth = 1
    Retention = 1
    Ends = {s1}
    Handoffs = {s1}
    MaxFailures = 1
    Faults = {"hook", "spawn", "inference"}
SYMMETRY WorkerSymmetry
INVARIANTS ListedStays FinalStateEvaluated EvaluatedOnce
PROPERTIES EvaluationsAdvance
CHECK_DEADLOCK FALSE
