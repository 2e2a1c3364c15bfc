SPECIFICATION Spec
CONSTANTS
    p = p
    q = q
    p1 = p1
    p2 = p2
    q1 = q1
    a = a
    c = c
    d = d
    None = None
    Size = 2
    Ways = 2
    Handshakes = {a, c, d}
    Started = {d}
    PeerOf <- MCPeerOf
    AddrOf <- MCAddrOf
    Listed = {p, q}
    Home <- MCHome
    ServerHome <- MCServerHome
    Leap = 1
    MaxCtr = 2
INVARIANTS
    OneClientPerEntry
    RepliesReachTheirClient
    PeerStaysInReach
PROPERTIES
    OnlyNewerMoves
