SPECIFICATION SamplingSpec
CONSTANTS
    Times = {1, 2, 4}
    MaxAge = 2
    ChronoMax = 10
    MaxPushes = 3
    Scale = 6
    Follow <- MCFollow
    MemTotal = 2
    Parent <- MCParent
    Inode <- MCInode
    Mountinfo <- MCMountinfo
    Mountable <- MCMountable
    Layer <- MCLayer
    MaxEnv = 3
INVARIANTS Ordered HoldsTheWindow ReadsAreTheLatest FiguresFit UsageIsOfTheTree RowsAreOfTheirDevices
CHECK_DEADLOCK FALSE
