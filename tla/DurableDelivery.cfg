SPECIFICATION FairDurableSpec
CONSTANTS
    BufSize = 3
    MaxChunk = 2
    MaxOutput = 4
    CwndSize = 3
    MaxRwnd = 3
    MaxStreams = 1
    ReadWindow = 3
    ReadSize = 1
    AckThreshold = 2
    Ends = {"eof", "error"}
    MaxDrops = 0
    MaxCrashes = 0
    Reordering = FALSE
    SlowAppend = TRUE
PROPERTIES
    OutputArrives
    EndArrives
CHECK_DEADLOCK FALSE
