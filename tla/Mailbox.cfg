SPECIFICATION FairSpec
CONSTANTS
    NoMail = NoMail
    Repeats = TRUE
    Timely = TRUE
    Backlog = 3
    MaxTrouble = 1
    size <- Sizes
    maxdata = 2
    more = 1
    index <- Indexes
    psize = 6
    rxdata = 2
    Incoming <- InFrames
    Unpadded <- NoName
    MaxFrames = 1
    Jobs <- AllJobs
    MaxCalls = 2
INVARIANTS
    Delivered
    FailsForAReason
    HandedWhole
PROPERTIES
    CallReturns
