\* Two runs on one thread, in any of the three modes, each executed up to twice;
\* one failing commit; a pool that holds every issue and one candidate shown.
SPECIFICATION ThreadSpec
CONSTANTS
    MaxRuns = 2
    MaxAttempts = 2
    MaxFaults = 1
    PoolLimit = 4
    CandidateLimit = 1
    Modes = {"qa", "issue_lookup", "issue_create"}
    Project = p1
    Today = 2
    e1 = e1
    w1 = w1
    w2 = w2
    Texts <- MCTexts
    Versions <- MCVersions
    OldIssues <- MCOldIssues
INVARIANTS IssuesAreTheConfirmedDrafts ShownDraftsAreStored ShownDraftsRestOnOwnEvidence EarlierDuplicatesAreShown
CHECK_DEADLOCK FALSE
