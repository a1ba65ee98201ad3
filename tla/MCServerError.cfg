SPECIFICATION Spec
CONSTANTS
    Tokens = {"t1", "t2"}
    Eager = {2, 4}
    Faults = {"error"}
INVARIANT OnlyGoodAnswersPass
