CONSTANTS
    a = a
    b = b
    Root = Root
    Names = {a, b}
    Parent <- Nested
    Mounts = {b}
    MaxChanges = 3
    MaxChan = 2
    Handles = {1, 2, 3}
    LostEvents = TRUE
SPECIFICATION FairSpec
INVARIANTS TypeOK RegisteredIsMonitored UnownedOnlyWhenOvertaken OneDeletionPerRemoval
PROPERTIES HandleNeverReplaced Converges
