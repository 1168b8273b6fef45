SPECIFICATION Spec
CONSTANTS
    p1 = p1
    p2 = p2
    Owner <- MCOwner
    Canvas = {c1}
    Key = {k1}
    NoLease = NoLease
    Free = Free
    Task = {1}
    Ttl = 2
    MaxClock = 3
    MaxTokens = 2
SYMMETRY EitherProcess
PROPERTIES ActsAsLeaseService LivePresenceKept
CHECK_DEADLOCK FALSE
