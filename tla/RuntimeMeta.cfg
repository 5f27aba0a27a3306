SPECIFICATION Spec
CONSTANTS
    Callers = {consumer, sweeper}
    IdLen = 2
    MaxChanges = 1
    Basenames <- MCBasenames
    Sandboxes <- MCSandboxes
    Named <- MCNamed
    Layered <- MCLayered
INVARIANTS KnownIsFound CrioRaceIsWaitedFor
PROPERTIES EveryCallReturns
CHECK_DEADLOCK FALSE
