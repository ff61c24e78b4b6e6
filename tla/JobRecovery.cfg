SPECIFICATION RunningSpec
CONSTANTS
    Jobs = {j1}
    NoJob = NoJob
    MaxLosses = 2
    MaxCrashes = 1
    MaxFailures = 0
    MaxDeaths = 0
    MaxEnds = 2
    MaxRestarts = 0
    MaxPasses = 0
    MaxCooldowns = 0
    Prompt = TRUE
INVARIANTS
    OnlyEndedJobsKilled
    
PROPERTIES
    MarkedEnds
    
    SessionsReattach
CHECK_DEADLOCK FALSE
