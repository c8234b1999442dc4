\* The three settings: failing transactions, expiring leases, shared threads.
CONSTANTS
    MaxRuns = 2
    MaxDrafts = 3
    MaxAttempts = 2
    Settings <- AllSettings
SPECIFICATION FairRunsSpec
INVARIANTS StatusMatchesLog AnswersAreTakenUp RetriesDecideOnce
PROPERTIES TerminalIsFinal EveryRunSettles
CHECK_DEADLOCK FALSE
