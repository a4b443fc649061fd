\* A command over a dead connection.
SPECIFICATION Spec
CONSTANTS
    c1 = c1
    Conns = {c1}
    MaxConnections = 1
    MaxLogins = 1
    Background = {c1}
    Losses = TRUE
INVARIANTS
    NoFailedClientKept
\* The process has exited.
CHECK_DEADLOCK FALSE
