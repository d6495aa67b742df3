CONSTANTS
    MaxRequests = 2
    PipeSize = 2
    MaxSize = 2
    MaxInspections = 3
    MaxVersions = 2
    MaxFaults = 1
SPECIFICATION FairSpec
INVARIANTS
    TypeOK
    ExchangeIsSound
PROPERTIES
    EventuallyReturns
CHECK_DEADLOCK FALSE
