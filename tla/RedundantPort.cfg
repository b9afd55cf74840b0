SPECIFICATION Spec
CONSTANTS
    N = 4
    MaxTry = 3
    MaxChange = 1
    Timely = TRUE
INVARIANTS
    Serviced
    WkcIsHonest
