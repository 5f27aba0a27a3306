CONSTANTS
    Recorders = {p, q}
    Streams = {s}
    Kinds = {oom, creation}
    Wanted = {oom}
    Times = {1, 2, 3}
    Age = 1
    Cap = 2
    RingCap = 1
    OutCap = 1
    DefaultMax = 2
    MaxEvents = 3
SPECIFICATION FairSpec
INVARIANTS HistoryIsTheLatest StreamHasNoGap
PROPERTIES StreamDelivers
CHECK_DEADLOCK FALSE
