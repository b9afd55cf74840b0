SPECIFICATION FairSpec
CONSTANTS
    Errors = {e1, e2}
    NoError = NoError
    MAXELIST = 3
INVARIANTS
    TypeOK
    PendingIsFlagged
PROPERTIES
    RefinesFifo
    DrainEnds
