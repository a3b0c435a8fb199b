SPECIFICATION Spec
CONSTANTS
    Events = {e1}
    Procs = {p1, p2, p3}
    MaxVersion = 2
    MaxCrashes = 1
    Batch = 1
    Lease = 1
    BackoffCap = 1
    MaxAttempts = 1
    FloatExponent = 1
    Rejected = {}
    Faults = {"db", "http", "late"}
SYMMETRY AllSymmetry
INVARIANTS SentMeansDelivered ClaimExclusive
PROPERTIES DeliveredStays
