SPECIFICATION Spec
CONSTANTS
    Bytes <- AllBytes
    Streams <- WellFormed
    BufSize = 34
    MayClose = FALSE
    Fds = {"sdC"}
INVARIANT DeliversPayloads
