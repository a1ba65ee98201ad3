SPECIFICATION MCSpec
CONSTANTS
    Tokens = {"t1", "t2"}
    Eager = {2, 4}
    Faults = {"local", "slow", "crash", "bad"}
INVARIANTS
    TypeOK
    OnlyGoodAnswersPass
    DtokenEchoed
PROPERTIES
    HandoffSpec
    DataPhaseEnds
    Delivers
