SPECIFICATION FairSpec
CONSTANTS
    Bytes <- AllBytes
    Streams <- AllStreams
    BufSize = 34
    MayClose = TRUE
    Fds = {"sdC", "sdD"}
INVARIANTS
    DeliversUnlessPatched
    WholeReadsSucceed
    NoOverrun
    SendsNetstrings
PROPERTIES
    ReadsWholeNetstrings
    Returns
