CONSTANTS
    Jobs = {j1, j2}
    Workers = {w1, w2}
    None = None
    Priorities = {0}
    MaxRetries = 1
    MaxLapses = 1
    MaxCrashes = 1
    CronIds = {i1}
    MaxLoops = 1
    MaxObjects = 1
    MaxJobRuns = 1
SPECIFICATION MCSpec
CHECK_DEADLOCK FALSE
INVARIANT ReturnedJobIsClaimed
