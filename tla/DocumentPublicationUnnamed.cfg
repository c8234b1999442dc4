\* Two versions of which the second need not name the first, a request for each.
CONSTANTS
    MaxVersions = 2
    Calls = {c1, c2}
    MaxIndexed = 2
    MaxFaults = 1
    MaxIncidents = 3
SPECIFICATION PublicationSpec
INVARIANTS OneCurrentVersion
SYMMETRY CallSymmetry
CHECK_DEADLOCK FALSE
