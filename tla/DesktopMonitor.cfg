SPECIFICATION Spec
CONSTANTS
    Sessions = {s1, s2}
    NoSession = NoSession
    Depth = 1
    MaxActs = 2
    MaxFaults = 1
INVARIANTS
    TypeOK
    SessionsAreHeld
    ActiveIsProven
PROPERTIES
    MonitoringGoesOn
CHECK_DEADLOCK FALSE
