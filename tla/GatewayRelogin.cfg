\* Two logins on one connection.
SPECIFICATION Spec
CONSTANTS
    c1 = c1
    Conns = {c1}
    MaxConnections = 1
    MaxLogins = 2
    Background = {c1}
    Losses = TRUE
INVARIANTS
    SessionsBalanced
\* The process has exited.
CHECK_DEADLOCK FALSE
