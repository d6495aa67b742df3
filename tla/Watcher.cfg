SPECIFICATION Spec
CONSTANTS
    f1 = f1
    f2 = f2
    Files <- MCFiles
    Restored <- FreshOnly
    MaxChanges = 2
    MaxFailures = 1
SYMMETRY Symmetry
INVARIANTS
    SummaryHonest
    LateChangesCovered
    FailuresKeepIncomplete
CHECK_DEADLOCK FALSE
