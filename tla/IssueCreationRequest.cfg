\* Three attempts that may overlap, four reconciliations, two faults; no fault
\* between the completion of the record and the commit of the session.
CONSTANTS
    MaxAttempts = 3
    MaxReconciles = 4
    MaxFaults = 2
    ReaperDeployed = TRUE
    FaultsAtCommit = FALSE
SPECIFICATION FairCreationSpec
INVARIANTS OneIssuePerRequest CompletedRecordIsDurable NoLockCycle
PROPERTIES PendingIsReconciled
CHECK_DEADLOCK FALSE
