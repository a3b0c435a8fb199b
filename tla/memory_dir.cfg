SPECIFICATION FairSpec
CONSTANTS
    s1 = s1
    s2 = s2
    w1 = w1
    w2 = w2
    h1 = h1
    h2 = h2
    Sessions = {s1, s2}
    Workers = {w1, w2}
    Owner <- MCOwner
    Text <- MCText
    NoHash = NoHash
    Nobody = Nobody
    Failures = {f}
    MaxFailures = 1
    MaxFaults = 1
INVARIANTS InsightsKept WrittenOnce
PROPERTIES NewerHandoffKept Settles
CHECK_DEADLOCK FALSE
