SPECIFICATION Spec
CONSTANTS
    Ports = {p1, p2}
    DeadPorts = {p2}
    Fds = {f1}
    None = None
    VerifyDual = 1
    Verify = 1
    Grace = 1
    Retry = 1
    BadN = 1
    Keep = {TRUE, FALSE}
    Probe = {TRUE, FALSE}
    SoftOn = FALSE
    PendMax = 1
INVARIANTS
    TypeOK
    MoveConsistent
    DueNeverLost
    NothingLeftOpen
PROPERTIES
    OldSocketNotLeaked
    OldHeldWhilePending
