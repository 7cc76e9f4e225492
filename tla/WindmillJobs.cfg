\* A step, two workers, two cancellations; stalls, crashes, failed commits.
SPECIFICATION FairSpec
CONSTANTS
    Jobs = {j1}
    Steps = {j1}
    Workers = {w1, w2}
    Requests = {r1, r2}
    NoJob = NoJob
    RestartLimit = 3
    Stalls = TRUE
INVARIANT TypeOK
INVARIANT Accounted
INVARIANT OwedStarts
INVARIANT SharedOnlyAfterRestart
PROPERTY CancelledNotStarted
PROPERTY ServesJobs
PROPERTY EveryJobEnds
CHECK_DEADLOCK FALSE
