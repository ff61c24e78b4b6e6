SPECIFICATION DurableSpec
CONSTANTS
    BufSize = 2
    MaxChunk = 1
    MaxOutput = 2
    CwndSize = 2
    MaxRwnd = 2
    MaxStreams = 2
    ReadWindow = 2
    ReadSize = 1
    AckThreshold = 1
    Ends = {"eof"}
    MaxDrops = 1
    MaxCrashes = 0
    Reordering = TRUE
    SlowAppend = TRUE
PROPERTIES
    DoneMeansComplete
    ImplementsReliableStream
CHECK_DEADLOCK FALSE
