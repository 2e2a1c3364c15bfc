SPECIFICATION FairSpec
CONSTANTS
    Fds = {f1, f2}
    None = None
    ClientPorts = {c1, c2}
    AutoSrc = TRUE
    Dns = TRUE
    Mmsg = TRUE
INVARIANTS
    SocketsAccounted
PROPERTIES
    ShutdownCompletes
    RequestServed
