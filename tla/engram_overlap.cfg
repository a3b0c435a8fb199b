SPECIFICATION Spec
CONSTANTS
    Runs = {r1, r2}
    MaxLines = 2
    MaxSavesPerRun = 2
    MaxAttempts = 2
    InitLines <- MCZeroOffsets
    OldCursors <- MCNoCursors
    StoreCursor <- MCZeroOffsets
    FailingWrites = {"cursor"}
    Crashes = {"run", "engram", "writer"}
    Appends = {"failure"}
SYMMETRY RunSymmetry
INVARIANTS TypeOK NothingSkipped QuarantineEarned
PROPERTY MirrorSpec
