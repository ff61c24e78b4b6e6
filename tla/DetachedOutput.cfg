SPECIFICATION FairDurableSpec
CONSTANTS
    BufSize = 2
    MaxChunk = 1
    MaxOutput = 3
    CwndSize = 1
    MaxRwnd = 1
    MaxStreams = 1
    ReadWindow = 1
    ReadSize = 1
    AckThreshold = 1
    Ends = {"eof"}
    MaxDrops = 1
    MaxCrashes = 0
    Reordering = FALSE
    SlowAppend = TRUE
PROPERTY DetachedJobRuns
CHECK_DEADLOCK FALSE
