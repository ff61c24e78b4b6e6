SPECIFICATION InputSpec
CONSTANTS
    MaxSessions = 2
    MaxSeq = 3
    Capacity = 2
    Timeout = 2
    MaxTimers = 3
INVARIANTS
    SendsNeverBlock
    HeldIsAhead
    HeldIsTimed
PROPERTIES
    NothingOvertaken
    SkipOnlyAfterTimeout
    HeldIsApplied
CHECK_DEADLOCK FALSE
