SPECIFICATION SmSpec
CONSTANTS
    BufSize = 2
    MaxChunk = 2
    MaxOutput = 3
    CwndSize = 2
    MaxRwnd = 2
    MaxStreams = 2
INVARIANTS
    SmTypeOK
    SentStaysBuffered
    NoLostWakeup
    SenderNotStuck
    EndIsLast
PROPERTIES
    OnlyAckedBytesLeave
    SendsAreContiguous
CHECK_DEADLOCK FALSE
