SPECIFICATION FairSpec
CONSTANTS
    Runs = {r1}
    MaxLines = 2
    MaxSavesPerRun = 2
    MaxAttempts = 3
    InitLines <- MCInitLines
    OldCursors <- MCOldCursors
    StoreCursor <- MCZeroOffsets
    FailingWrites = {}
    Crashes = {"writer"}
    Appends = {"decision", "failure"}
INVARIANTS NoDuplicateEmission
PROPERTIES AttemptsKept EventuallyMirrored
