SPECIFICATION FairStart
CONSTANTS
    Lines <- PairsAndProgrammed
    EC_MAXSM = 5
    Fits = 2
    MaxLoss = 2
    EPOS4 = 1
    Prompt = TRUE
INVARIANTS
    MapIsSlaves
    BitsHaveRoom
    NothingInvented
PROPERTIES
    StartsUp
