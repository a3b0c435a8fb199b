SPECIFICATION FairSpec
CONSTANTS
    Events = {e1, e2}
    Procs = {p1}
    MaxVersion = 2
    MaxCrashes = 1
    Batch = 2
    Lease = 1
    BackoffCap = 2
    MaxAttempts = 2
    FloatExponent = 9
    Rejected = {e1}
    Faults = {"http", "timeout"}
INVARIANTS TypeOK
PROPERTIES EventuallyDelivered
