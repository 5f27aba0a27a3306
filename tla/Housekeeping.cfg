CONSTANTS
    Configs <- Flags
    Limits <- MCLimits
    MaxIdle = 3
    MaxEnv = 4
SPECIFICATION FairSpec
INVARIANTS NoPhantomKill IntervalDoubles
PROPERTIES LateKillIsReported SpecFollows
CHECK_DEADLOCK FALSE
