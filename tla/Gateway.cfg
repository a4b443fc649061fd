\* Two connections for one place; one of them runs commands beside its control loop.
SPECIFICATION FairSpec
CONSTANTS
    c1 = c1
    c2 = c2
    Conns = {c1, c2}
    MaxConnections = 1
    MaxLogins = 1
    Background = {c1}
    Losses = TRUE
INVARIANTS
    TypeOK
    AdmissionExact
    SessionsBalanced
    GoneHoldsNoClient
    GaugeDrift
    DrainComplete
PROPERTIES
    ShutdownTerminates
    DisconnectCompletes
\* The process has exited.
CHECK_DEADLOCK FALSE
