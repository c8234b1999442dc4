\* A question whose job may be executed twice.
CONSTANTS
    MaxChunks = 3
    MaxEvidence = 1
    MaxExecutions = 2
    MaxChanges = 1
    Catalogs <- TheCatalogs
    Inherited <- TheCounters
SPECIFICATION QASpec
INVARIANTS ExhaustedRunsEnd
CHECK_DEADLOCK FALSE
