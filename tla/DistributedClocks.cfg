SPECIFICATION SyncSpec
CONSTANTS
    MaxSlaves = 5
    Networks <- SplitNetworks
    Delay <- MCDelay
    Starts <- AcrossZero
    Half = 4096
    MaxLoss = 1
    Followed <- OneDrive
    Calls <- SyncCalls
    Program <- Motor
    DEADLINE = 900000
    SyncDelay = 100000000
    Now = 1000000123
    Took = {10000, 2000000}
    Timeout = 2000000
    Phases <- FarAndNear
    Drifts <- UpTo50ppm
    LossStep = 50
INVARIANTS
    ParentIsReal
    DelayIsReal
    SyncStarts
PROPERTIES
    Locks
