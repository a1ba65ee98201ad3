SPECIFICATION FairSpec
CONSTANTS
    CommandLines <- Inputs
    Number <- Numbers
    Dashed = {"-5", "-i", "-t", "-q", "-m", "-f", "-p", "--", "--help"}
    IntMod = 4096
    LongMod = 256
INVARIANTS
    RunsAsMeant
    RefusesMalformed
PROPERTY EndsFromPositive
CHECK_DEADLOCK FALSE
