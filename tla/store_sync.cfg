SPECIFICATION FairSpec
CONSTANTS
    Machines = {m1, m2}
    Mirrors = {m1}
    Garbled = Garbled
    MaxWrites = 3
    MaxFaults = 1
PROPERTIES LinesKept HandoffAdvances OwnAhead EventuallyAlike
