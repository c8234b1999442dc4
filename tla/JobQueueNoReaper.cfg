\* The program as it is deployed: nothing calls the reaper.  Two jobs, two workers,
\* one kill or signal.
CONSTANTS
    Workers = {w1, w2}
    NoWorker = NoWorker
    MaxJobs = 2
    MaxAttempts = 2
    LeaseTicks = 1
    RetryBase = 1
    RetryMax = 2
    ClaimLimit = 2
    ReapBatch = 1
    ReaperDeployed = FALSE
    MaxOverdue = 0
    MaxKills = 1
SPECIFICATION OperatedQueueSpec
PROPERTIES EveryJobEnds
