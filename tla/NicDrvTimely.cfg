SPECIFICATION Spec
CONSTANTS
    Thread = {t1, t2, t3}
    MAXBUF = 3
    MaxTry = 2
    MaxReq = 4
    Timely = TRUE
    SendFails = FALSE
    None = None
SYMMETRY Symmetry
INVARIANTS
    OneOwner
    NoIndexLost
    AnswerIsMine
