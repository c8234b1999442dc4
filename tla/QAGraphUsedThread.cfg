\* A question on a thread that other runs have used.
CONSTANTS
    MaxChunks = 3
    MaxEvidence = 1
    MaxExecutions = 1
    MaxChanges = 1
    Catalogs <- TheCatalogs
    Inherited <- TheCounters
SPECIFICATION QASpec
INVARIANTS RoundLimitIsPerRun
CHECK_DEADLOCK FALSE
