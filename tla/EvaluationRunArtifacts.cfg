\* Two cases, each of any protocol.
CONSTANTS
    N = 2
    Kinds <- MCKinds
    None = None
SPECIFICATION FairSpec
INVARIANTS ScoredTrialsAreComplete TracesNameTheirCase EachRequestIsMadeOnce ReportsAreComplete
PROPERTIES EveryCaseIsRecorded
CHECK_DEADLOCK FALSE
