SPECIFICATION FairSpec
CONSTANTS
    Attempts = 2
    HopLimit = 3
    Timeout = 2
    HopMod = 3
    SeqMod = 4
    Modulus = 5
    MayBeLate = FALSE
    Distances = {2}
    Byte = 6
    NextHeader = 4
    Address <- Addresses
    icmpEchoRequ = 2
    icmpEchoRep = 4
    icmpTimeEx = 3
    icmpDestUnreach = 1
    icmpID = 5
    Foreign <- Lengths
PROPERTY NamesRouters
CHECK_DEADLOCK FALSE
