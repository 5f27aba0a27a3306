CONSTANTS
    a = a
    b = b
    Root = Root
    Names = {a}
    Parent <- Single
    Mounts = {}
    MaxChanges = 3
    MaxChan = 2
    Handles = {1, 2, 3}
    LostEvents = FALSE
SPECIFICATION Spec
INVARIANT OneLoopPerContainer
