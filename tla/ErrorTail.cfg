SPECIFICATION DurableSpec
CONSTANTS
    BufSize = 2
    MaxChunk = 1
    MaxOutput = 2
    CwndSize = 2
    MaxRwnd = 2
    MaxStreams = 1
    ReadWindow = 2
    ReadSize = 1
    AckThreshold = 1
    Ends = {"error"}
    MaxDrops = 0
    MaxCrashes = 0
    Reordering = FALSE
    SlowAppend = TRUE
PROPERTY ErrorIsLast
CHECK_DEADLOCK FALSE
