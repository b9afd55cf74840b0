SPECIFICATION FairSpec
CONSTANTS
    v1 = v1
    v2 = v2
    Values <- Vals
    Cmd <- All
    Junk <- JunkIsUnknown
    Zero = Zero
    Wave = Wave
    Homing = Homing
    Samples = 0
    Torn = Torn
    MaxCmd = 2
    MaxTrouble = 1
INVARIANTS
    FollowsCommands
    CommandInForce
PROPERTIES
    ObeysLast
