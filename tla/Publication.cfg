SPECIFICATION Spec
CONSTANTS
    Absent = Absent
    Clients = {c1}
    Validity = 1
    Skew = 0
    MaxTime = 2
    MaxSequence = 2
    MaxCatalog = 3
    BadInputs = {2}
    MaxBuilds = 3
INVARIANTS
    TypeOK
    PublishedIsSound
PROPERTIES
    NothingGoesBack
CHECK_DEADLOCK FALSE
