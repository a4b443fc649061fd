SPECIFICATION FairSpec
CONSTANTS
    Handlers = {h1}
    Commands = {k1}
    Files <- MCFiles
    ReadinessTimeout = 2
    DialTimeout = 1
    ShutdownGrace = 2
INVARIANTS
    TypeOK
    AcceptedIsUsable
    NoProbeLeak
    ReadyTruthful
    ReadyzDialBounded
    ConnectivityTruthful
PROPERTIES
    ProcessExits
    FailureNoticed
