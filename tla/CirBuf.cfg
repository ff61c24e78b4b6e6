SPECIFICATION Spec
CONSTANTS
    BufSize = 3
    MaxChunk = 2
    MaxOutput = 7
INVARIANTS
    TypeOK
    PeekIsStream
    WakesWriter
PROPERTY ImplementsWindow
CHECK_DEADLOCK FALSE
