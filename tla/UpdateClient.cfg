CONSTANTS
    c1 = c1
    c2 = c2
    Clients = {c1, c2}
    Versions <- MCVersions
    Newest <- MCNewest
    Digests = {"a", "b"}
    Objects <- MCObjects
    Nothing = Nothing
    MaxFaults = 1
SPECIFICATION FairSpec
INVARIANTS
    StatusIsCommitted
PROPERTIES
    StateOnlyAdvances
    EventuallyNewest
