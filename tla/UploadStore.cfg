\* A server without posix-rename, a user who may not overwrite: STOR, RNTO, DELE.
SPECIFICATION Spec
CONSTANTS
    s1 = s1
    s2 = s2
    p1 = p1
    p2 = p2
    Sessions = {s1, s2}
    Paths = {p1, p2}
    Seeded = {p1}
    NoFile = NoFile
    Payloads = {1}
    MaxFileSize = 0
    MaxConcurrentTransfers = 2
    AllowUpload = TRUE
    AllowDownload = FALSE
    AllowDelete = TRUE
    AllowRename = TRUE
    Overwrite = FALSE
    HasPosixRename = FALSE
    RestBeforeStor = FALSE
    Faults = {"loss"}
SYMMETRY SessionSymmetry
INVARIANTS
    TypeOK
    FinalWhole
PROPERTIES
    NoReplace
    StoreIsAtomic
\* Clients may all have gone.
CHECK_DEADLOCK FALSE
