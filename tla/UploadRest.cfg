\* REST before STOR.
SPECIFICATION Spec
CONSTANTS
    s1 = s1
    s2 = s2
    p1 = p1
    Sessions = {s1, s2}
    Paths = {p1}
    Seeded = {p1}
    NoFile = NoFile
    Payloads = {1}
    MaxFileSize = 0
    MaxConcurrentTransfers = 2
    AllowUpload = TRUE
    AllowDownload = FALSE
    AllowDelete = FALSE
    AllowRename = FALSE
    Overwrite = TRUE
    HasPosixRename = TRUE
    RestBeforeStor = TRUE
    Faults = {}
SYMMETRY SessionSymmetry
INVARIANTS
    FinalWhole
\* Clients may all have gone.
CHECK_DEADLOCK FALSE
