SPECIFICATION CatalogSpec
CONSTANTS
    Nothing = Nothing
    Updaters = {u1, u2}
    u1 = u1
    u2 = u2
    Now = 3
    MaxRuns = 3
    MaxStops = 1
    Editions <- MCEditions
    Selections <- MCSelections
    Modes <- MCModes
SYMMETRY Symmetry
INVARIANTS
    CatalogTypeOK
    DiskIsSound
PROPERTIES
    WritesAreSafe
CHECK_DEADLOCK FALSE
