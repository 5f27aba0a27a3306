CONSTANTS
    old = old
    new = new
    N = 2
    Getters = {p, q}
    Main = main
    Contents = {old, new, junk}
    Readable = {old, new}
    Good <- Pairs
    Absent = absent
    MaxWrites = 3
    MaxErrors = 1
SPECIFICATION FairSpec
INVARIANTS TypeOK StampHidesNothing
PROPERTIES SettledFilesAreServed ImplementsReloaded
CHECK_DEADLOCK FALSE
