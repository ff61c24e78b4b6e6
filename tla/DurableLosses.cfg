SPECIFICATION DurableSpec
CONSTANTS
    BufSize = 1
    MaxChunk = 1
    MaxOutput = 2
    CwndSize = 2
    MaxRwnd = 2
    MaxStreams = 3
    ReadWindow = 1
    ReadSize = 1
    AckThreshold = 1
    Ends = {}
    MaxDrops = 1
    MaxCrashes = 1
    Reordering = FALSE
    SlowAppend = FALSE
INVARIANTS
    WindowRespected
    NoSilentLoss
PROPERTY KnownReaderFrees
CHECK_DEADLOCK FALSE
