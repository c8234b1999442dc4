\* One call that fails between the completion of the record and its commit.
CONSTANTS
    MaxAttempts = 2
    MaxReconciles = 1
    MaxFaults = 1
    ReaperDeployed = FALSE
    FaultsAtCommit = TRUE
SPECIFICATION CreationSpec
INVARIANTS CompletedRecordIsDurable
CHECK_DEADLOCK FALSE
