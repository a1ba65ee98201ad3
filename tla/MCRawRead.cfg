SPECIFICATION FairCallerSpec
CONSTANTS
    TicksPerMs = 3
    Budget = 4
    Modulus = 16
    MinWait = 1
    Late = 1
    Signals = TRUE
    Garbage <- AnyNumber
    Lengths = {2, 3}
    MaxCalls = 5
INVARIANTS
    TypeOK
    WithinBudget
    FrameLimit
    ReturnIsReal
PROPERTIES
    NeverGrows
    CallEnds
    ReadIsTimedRead
CHECK_DEADLOCK FALSE
