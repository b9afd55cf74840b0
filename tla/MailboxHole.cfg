SPECIFICATION Spec
CONSTANTS
    NoMail = NoMail
    Repeats = FALSE
    Timely = TRUE
    Backlog = 3
    MaxTrouble = 1
    size <- Sizes
    maxdata = 2
    more = 1
    index <- Indexes
    psize = 6
    rxdata = 2
    Incoming <- InFrames
    Unpadded <- NoName
    MaxFrames = 0
    Jobs <- CoeJobs
    MaxCalls = 1
INVARIANTS
    AllDelivered
