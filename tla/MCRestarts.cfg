CONSTANTS
    Device = {d1, d2}
    Peer = {p1}
    RandomId = {r1, r2}
    Request = {q1, q2}
    NoId = NoId
    None = None
    NoRow = NoRow
    LastHost = 3
    MaxActivePeers = 1
    CommandCapacity = 2
    ReadsMayFail = TRUE
    RequestsDroppable = FALSE
SPECIFICATION HalfSpec
SYMMETRY Symmetry
INVARIANTS
    TypeOK
    DatabaseExclusive
    EndpointMapsAgree
    OnlineLeaseHasSession
    ConfirmedEndpointIsRegistered
    ReservationsMatchDatabase
    TunnelsAreAuthorised
