SPECIFICATION FairSpec
CONSTANTS
    Frames <- Kinds
    Num = 3
    CounterMod = 8
    TicksPerMs = 2
    Budget = 3
    Modulus = 16
    MinWait = 1
    Late = 1
    Signals = TRUE
    Garbage <- NegativeLen
INVARIANTS
    CountsAgree
    Ascending
    TotalsAgree
PROPERTY Ends
CHECK_DEADLOCK FALSE
