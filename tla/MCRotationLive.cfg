SPECIFICATION FairSpec
CONSTANTS
    Ports = {p1, p2}
    DeadPorts = {p1, p2}
    Fds = {f1}
    None = None
    VerifyDual = 2
    Verify = 1
    Grace = 1
    Retry = 1
    BadN = 1
    Keep = {TRUE}
    Probe = {FALSE}
    SoftOn = TRUE
    PendMax = 2
PROPERTIES
    BackAfterVerify
    MoveResolves
    OldReleased
    ShutdownCompletes
