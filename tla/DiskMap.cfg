CONSTANTS
    Keys = {"8:0", "7:0"}
    Filtered = {"7:0"}
    Samplers = {s, t}
    Refresher = refresh
    MaxChanges = 3
    MaxFailures = 1
SPECIFICATION FairDiskSpec
INVARIANTS OncePerNewDevice
PROPERTIES MapFollows
