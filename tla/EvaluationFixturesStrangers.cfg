\* One project, one dataset of ours and one that somebody else may make; nothing fails.
SPECIFICATION FairFixtureSpec
CONSTANTS
    NProjects = 1
    Spaces = {s1, s4}
    Stranger = {s4}
    MaxFaults = 0
    NoId = NoId
PROPERTIES CleanupDeletesOnlyOwned
