\* Remove-then-rename when nothing fails but the transfers themselves.
SPECIFICATION Spec
CONSTANTS
    s1 = s1
    s2 = s2
    s3 = s3
    p1 = p1
    p2 = p2
    Sessions = {s1, s2, s3}
    Paths = {p1, p2}
    Seeded = {p1}
    NoFile = NoFile
    Payloads = {1, 2}
    MaxFileSize = 1
    MaxConcurrentTransfers = 2
    AllowUpload = TRUE
    AllowDownload = TRUE
    AllowDelete = FALSE
    AllowRename = FALSE
    Overwrite = TRUE
    HasPosixRename = FALSE
    RestBeforeStor = FALSE
    Faults = {}
SYMMETRY SessionSymmetry
INVARIANTS
    AccountingExact
    FinalWhole
    NeverBothLost
\* Clients may all have gone.
CHECK_DEADLOCK FALSE
