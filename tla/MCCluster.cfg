CONSTANTS
    Authority = A
    Member = {m1}
    LeaseDevice = {e1}
    LeasePeer = {w1}
    LeaseIp = {2}
    Duration = 2
    SessionId = {s1}
    RequestId = {i1, i2}
    PassId = {k1}
    Null = Null
    PeerAddr = {a1}
    InfoId = {o1, o2}
    NetworkCode = {n1}
    ClientIp = {c1}
    Admin = {q1, q2}
    MaxRoutes = 1
    NoPeer = NoPeer
    Relay = {b1, b2, b3}
    LinkId = {l1, l2, l3}
    HopLimit = 2
SPECIFICATION ServersSpec
SYMMETRY Symmetry
INVARIANTS
    ServersTypeOK
    ClusterExclusive
    LeaseOutlivesSession
    NoOrphanTask
    UsedRoutesAreCurrent
    WireGuardSourcesAreCurrent
    RelayedOncePerLink
    FloodReachesAll
PROPERTIES
    ImplementsClusterOwnership
CHECK_DEADLOCK FALSE
