SPECIFICATION Spec
CONSTANTS
    Handlers = {h1}
    Commands = {k1}
    Files <- MCFiles
    ReadinessTimeout = 5
    DialTimeout = 3
    ShutdownGrace = 5
INVARIANT
    ReadyzInTime
