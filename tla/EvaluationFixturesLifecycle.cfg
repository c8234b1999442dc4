\* Two projects, two datasets the commands may create and one that somebody else may
\* make; three failing calls.
SPECIFICATION FairFixtureSpec
CONSTANTS
    NProjects = 2
    Spaces = {s1, s2, s4}
    Stranger = {s4}
    MaxFaults = 3
    NoId = NoId
INVARIANTS AdoptsOnlyWhatWasNamed
PROPERTIES PrepareKeepsWhatVerifies RowsOutliveTheirSpaces EveryCommandEnds
