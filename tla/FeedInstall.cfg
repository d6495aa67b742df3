CONSTANTS
    c1 = c1
    c2 = c2
    Clients = {c1, c2}
    Readers = {"scan"}
    Versions <- MCVersions
    Digests = {"a", "b"}
    Objects <- MCObjects
    Nothing = Nothing
    MaxFaults = 2
SYMMETRY MCSymmetry
SPECIFICATION FeedSpec
INVARIANTS
    InstalledIsSound
PROPERTIES
    ImplementsRegister
