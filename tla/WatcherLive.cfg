SPECIFICATION FairSpec
CONSTANTS
    f1 = f1
    f2 = f2
    Files <- MCOne
    Restored <- Either
    MaxChanges = 2
    MaxFailures = 1
PROPERTIES EventuallyInspected
CHECK_DEADLOCK FALSE
