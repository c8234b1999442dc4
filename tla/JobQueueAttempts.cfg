\* Two jobs, two workers that claim batches of up to two, two attempts,
\* one kill or signal; a reaper that takes one expired row per call.
CONSTANTS
    Workers = {w1, w2}
    NoWorker = NoWorker
    MaxJobs = 2
    MaxAttempts = 2
    LeaseTicks = 1
    RetryBase = 1
    RetryMax = 2
    ClaimLimit = 2
    ReapBatch = 1
    ReaperDeployed = TRUE
    MaxOverdue = 0
    MaxKills = 1
SPECIFICATION FairQueueSpec
INVARIANTS AttemptsBounded OwnerRunsCurrentAttempt
PROPERTIES SettledByCurrentAttempt ImplementsRetryableJob ServedJobsEnd
