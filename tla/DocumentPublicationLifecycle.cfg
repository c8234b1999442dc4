\* Three versions, each naming an earlier one that it replaces or none, so that two
\* may name the same one; three requests, or two and a fault; a provider document for each.
CONSTANTS
    MaxVersions = 3
    Calls = {c1, c2, c3}
    MaxIndexed = 3
    MaxFaults = 1
    MaxIncidents = 3
SPECIFICATION PublicationSpec
INVARIANTS OneCurrentPerLine PublishedIsIndexed
PROPERTIES AuthorityIsHandedOver
SYMMETRY CallSymmetry
CHECK_DEADLOCK FALSE
