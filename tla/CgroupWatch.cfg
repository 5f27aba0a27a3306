CONSTANTS
    a = a
    b = b
    c = c
    Root = Root
    Names = {a, b, c}
    Parent <- Nested
    MaxChanges = 9
    MaxQueue = 5
    WatchLimit = TRUE
SPECIFICATION Spec
INVARIANTS EveryDirectoryWatched EveryCgroupReported RemovalMissedOnlyWithParent
CHECK_DEADLOCK FALSE
