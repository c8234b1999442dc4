\* A question and a lookup on one thread; nothing fails.
SPECIFICATION ThreadSpec
CONSTANTS
    MaxRuns = 2
    MaxAttempts = 2
    MaxFaults = 0
    PoolLimit = 4
    CandidateLimit = 1
    Modes = {"qa", "issue_lookup"}
    Project = p1
    Today = 2
    e1 = e1
    w1 = w1
    w2 = w2
    Texts <- MCTexts
    Versions <- MCVersions
    OldIssues <- MCOldIssues
INVARIANT LookupResultIsItsOwn
CHECK_DEADLOCK FALSE
