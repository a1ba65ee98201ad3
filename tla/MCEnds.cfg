SPECIFICATION FairSpec
CONSTANTS
    Tokens = {"t1", "t2"}
    Eager = {2, 4, 5}
    Faults = {"address", "local", "slow", "crash", "bad", "error"}
INVARIANTS AnswersMatchPhases
PROPERTIES Ends
