SPECIFICATION FairSpec
CONSTANTS
    N = 3
    content <- Contents
    width <- Widths
    mailbox <- Mailboxes
    Kept <- SecondKeptOn
    Blank = 255
    Tries = 2
    Troubles = {"lost", "nack", "slow", "gone"}
    MaxTrouble = 2
    SiiStart = 6
    BufSize = 9
    Wanted <- WantedSections
    Targets <- Second
    NewWord = 99
    EC_DEFAULTMBXSM0 = 100
    MaxCalls = 1
INVARIANTS
    FoundIsOwn
    ReachesPreOp
    AnswersAreTrue
    FlagIsControl
PROPERTIES
    EveryCallReturns
CHECK_DEADLOCK FALSE
