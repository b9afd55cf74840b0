SPECIFICATION FairSpec
CONSTANTS
    Thread = {t1, t2}
    MAXBUF = 2
    MaxTry = 2
    MaxReq = 2
    Timely = FALSE
    SendFails = TRUE
    None = None
PROPERTIES
    CallReturns
    LostInWindow
