SPECIFICATION FairSpec
CONSTANTS
    Attempts = 2
    HopLimit = 3
    Timeout = 3
    HopMod = 3
    SeqMod = 4
    Modulus = 5
    MayBeLate = TRUE
    Distances = {2, 3, 4}
    Byte = 6
    NextHeader = 4
    Address <- Addresses
    icmpEchoRequ = 2
    icmpEchoRep = 4
    icmpTimeEx = 3
    icmpDestUnreach = 1
    icmpID = 5
    Foreign <- Frames
INVARIANTS
    TypeOK
    OneResultPerProbe
    StopsAtReply
    FindsDestination
    ProbesVerify
    OnlyIntactPass
PROPERTY Ends
CHECK_DEADLOCK FALSE
