SPECIFICATION Spec
CONSTANTS
    Nothing = Nothing
    Workers = 2
    Store = TRUE
    MaxScans = 2
    MaxActs = 2
    MaxFaults = 1
    Crowd = 0
INVARIANTS
    TypeOK
    WorkIsHeld
    CardsAreHonest
    DocumentsAgree
PROPERTIES
    WorkIsAnswered
CHECK_DEADLOCK FALSE
