\* Two logins at a time, with a memory of the failures.
SPECIFICATION HSpec
CONSTANTS
    i1 = i1
    u1 = u1
    a1 = a1
    a2 = a2
    IPs = {i1}
    Users = {u1}
    Known = {u1}
    Attempts = {a1, a2}
    MaxFailures = 3
    Window = 1
    Lockout = 1
    Cap = 2
    SweepEvery = 2
    None = None
INVARIANTS
    TypeOK
    SweepInvisible
    GuessesBounded
PROPERTIES
    LockExpires
    LockJustified
    NewcomersCannotUnlock
