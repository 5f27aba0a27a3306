SPECIFICATION ServingSpec
CONSTANTS
    Flags <- MCFlags
    Clients = {c1, c2}
    Asks <- MCAsks
    Tokens = {"t1", "t2"}
    Contents <- MCContents
    Absent = {}
    MaxWrites = 2
    MaxErrors = 1
INVARIANTS ContentNeedsToken BadFilesNeverServe
PROPERTIES NobodyWaitsForEver ShutdownEnds
CHECK_DEADLOCK FALSE
