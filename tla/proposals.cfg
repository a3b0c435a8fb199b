SPECIFICATION Spec
CONSTANTS
    Rules = {r1, r2}
    Workers = {w}
    People = {u}
    NoProc = NoProc
    MaxDay = 1
    MaxAge = 0
    Cap = 2
    Caps = {2, 3}
    MaxNew = 1
    MaxEntries = 3
    MaxHeld = 1
SYMMETRY RuleSymmetry
INVARIANTS RulesConserved CapRespected
PROPERTIES RevivedKept VerdictsExact ReviewSpec
CHECK_DEADLOCK FALSE
