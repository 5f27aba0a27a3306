SPECIFICATION Spec
CONSTANTS
    Chars = {"/", "a", "b", "n", "x", "z"}
    Paths <- MCPaths
    Present <- MCPresent
    Asked <- MCAsked
    Meta <- MCMeta
    Opts <- MCOpts
    SampleAt <- MCSampleAt
    Specs <- MCSpecs
    Given <- MCGiven
    Pids = {1, 2}
    Devices = {1}
    MaxGen = 2
    MaxSamples = 3
    MaxChanges = 2
    DisableMetrics = {"cpu"}
    EnableMetrics = {"cpu", "cpuLoad", "diskIO", "oom_event"}
    Alnum = {"e", "f", "l", "m"}
INVARIANTS AnswerIsComplete FailureIsGenuine SpecDescribesStats ExpositionIsValid GroupsAreGated
CHECK_DEADLOCK FALSE
