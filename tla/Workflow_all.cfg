SPECIFICATION FairSpec
CONSTANTS
    Callers = {c1, c2}
    MaxJobs = 1
    MaxOps = 3
    MaxSends = 1
    MaxTrouble = 1
INVARIANTS StopDrains ResultsTrue
PROPERTY WaitsReturn
CHECK_DEADLOCK FALSE
