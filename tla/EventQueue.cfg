SPECIFICATION FairSpec
CONSTANTS
    Paths <- MCPaths
    Excluded <- MCExcluded
    MaxEvents = 2
    Debounce = 1
    MinCoalesce = 2
    DrainLimit = 1
    MaxSubmits = 4
    MaxTime = 4
INVARIANTS
    TypeOK
    Bookkeeping
    AgedIsDue
PROPERTIES
    KeepsObligations
    EventuallyScanned
CHECK_DEADLOCK FALSE
