\* A server without posix-rename, a user who may overwrite: remove, then rename.
SPECIFICATION FairSpec
CONSTANTS
    s1 = s1
    s2 = s2
    p1 = p1
    Sessions = {s1, s2}
    Paths = {p1}
    Seeded = {p1}
    NoFile = NoFile
    Payloads = {1, 2}
    MaxFileSize = 1
    MaxConcurrentTransfers = 2
    AllowUpload = TRUE
    AllowDownload = TRUE
    AllowDelete = FALSE
    AllowRename = FALSE
    Overwrite = TRUE
    HasPosixRename = FALSE
    RestBeforeStor = TRUE
    Faults = {"disconnect", "refuse", "loss"}
INVARIANTS
    AccountingExact
    PendingCoversTemps
PROPERTIES
    FailureTruthful
    DisconnectEndsCommand
\* Clients may all have gone.
CHECK_DEADLOCK FALSE
