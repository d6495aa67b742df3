CONSTANTS
    q1 = q1
    q2 = q2
    Quarantines = {q1, q2}
    Restores = {"restore"}
    Nothing = Nothing
    MaxChanges = 3
SYMMETRY MCSymmetry
SPECIFICATION Spec
INVARIANTS
    TypeOK
    RemovalIsSafe
    StateIsHonest
CHECK_DEADLOCK FALSE
