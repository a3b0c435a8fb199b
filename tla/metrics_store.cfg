SPECIFICATION FairSpec
CONSTANTS
    Sessions = {a, b}
    Messages = {m1, m2}
    Procs = {p1, p2}
    Old = Old
    New = New
    NoName = NoName
    MaxWrites = 3
    MaxFaults = 2
    Prunes = TRUE
PROPERTIES TotalsRight HostReaches EventuallyReported
CHECK_DEADLOCK FALSE
