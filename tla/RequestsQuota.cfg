SPECIFICATION Spec
CONSTANTS
    Chars = {"/", "a", "b", "n", "x", "z"}
    Paths <- MCPaths
    Present <- MCPresent
    Asked <- MCScrapes
    Meta <- MCMeta
    Opts <- MCOpts
    SampleAt <- MCSampleAt
    Specs <- MCQuotaSpecs
    Given <- MCQuotaGiven
    Pids = {1, 2}
    Devices = {1}
    MaxGen = 2
    MaxSamples = 3
    MaxChanges = 2
    DisableMetrics = {"disk", "network"}
    EnableMetrics = {}
    Alnum = {"e", "f", "l", "m"}
INVARIANT PushedIsServed
CHECK_DEADLOCK FALSE
