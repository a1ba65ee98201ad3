SPECIFICATION Spec
CONSTANTS
    Ifname = 1
    Devices = {1, 2}
    Lists <- InterfaceLists
    Descriptors = 6
INVARIANTS
    OnlyOwnFiles
    LeavesThroughItsSocket
    ReadsItsDevice
    AddressesMatch
    OthersKeepTheirFiles
CHECK_DEADLOCK FALSE
