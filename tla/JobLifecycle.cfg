SPECIFICATION RunningSpec
CONSTANTS
    Jobs = {j1, j2}
    NoJob = NoJob
    MaxLosses = 0
    MaxCrashes = 0
    MaxFailures = 1
    MaxDeaths = 1
    MaxEnds = 0
    MaxRestarts = 1
    MaxPasses = 2
    MaxCooldowns = 0
    Prompt = TRUE
INVARIANTS
    LcTypeOK
    OneJobPerBlock
    BlockKeepsItsJob
    DetachedIsMarked
CHECK_DEADLOCK FALSE
SYMMETRY JobSymmetry
