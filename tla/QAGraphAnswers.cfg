\* Three chunks of which one fits; the job is executed twice; one change.
CONSTANTS
    MaxChunks = 3
    MaxEvidence = 1
    MaxExecutions = 2
    MaxChanges = 1
    Catalogs <- TheCatalogs
    Inherited <- TheCounters
SPECIFICATION FairQASpec
INVARIANTS AnswerMatchesOutcome CitesGovernedEvidence ContradictionsAreShown
PROPERTIES EveryQuestionIsSettled
CHECK_DEADLOCK FALSE
