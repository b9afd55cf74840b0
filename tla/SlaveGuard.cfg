SPECIFICATION FairSpec
CONSTANTS
    slavecount = 3
    upstream <- Fork
    type <- Different
    PO2SOconfig = {2}
    MaxLoss = 1
    MaxOff = 3
INVARIANTS
    AddressIsOwn
PROPERTIES
    HealthyLeftAlone
    StateIsSlaves
    Restored
