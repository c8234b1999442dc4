\* Three uploads to two projects, one document that exists and one that an upload
\* may create, two object ids (so that an id repeats), two faults.
CONSTANTS
    Uploads = {u1, u2, u3}
    Projects = {p1, p2}
    Documents = {d1, d2}
    d1 = d1
    p1 = p1
    Home <- MCHome
    ObjectIds = {o1, o2}
    MaxFaults = 2
    None = None
SPECIFICATION UploadSpec
INVARIANTS VersionsKeepTheirBytes VersionNumbersAreDense VersionsStayInTheirProject
SYMMETRY Symmetry
CHECK_DEADLOCK FALSE
