CONSTANTS
    Device = {}
    Peer = {p1, p2}
    RandomId = {}
    Request = {q1, q2}
    NoId = NoId
    None = None
    NoRow = NoRow
    LastHost = 2
    MaxActivePeers = 1
    CommandCapacity = 2
    ReadsMayFail = FALSE
    RequestsDroppable = FALSE
SPECIFICATION WireGuardSpec
SYMMETRY Symmetry
INVARIANTS
    MoveHoldsBothAddresses
    ReservationsMatchDatabase
    TunnelsAreAuthorised
PROPERTIES
    NoHandover
