SPECIFICATION Spec
CONSTANTS
    Callers = {c1, c2}
    Flushers = {flusher}
    NoEntry = NoEntry
    Kinds = {k1, k2}
    PartSize = 2
    MaxSize = 4
    MaxRegular = 4
    MaxCircular = 6
    Lengths = {3, 5}
    MaxFlushErrors = 1
    WritesAcrossStart = FALSE
SYMMETRY Symmetry
INVARIANT PinsAreCounted
PROPERTIES
    StoreImplementsFile
    UnsavedStays
