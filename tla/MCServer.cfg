CONSTANTS
    Device = {d1}
    Peer = {p1}
    RandomId = {r1}
    Request = {q1}
    NoId = NoId
    None = None
    NoRow = NoRow
    LastHost = 2
    MaxActivePeers = 1
    CommandCapacity = 1
    ReadsMayFail = FALSE
    RequestsDroppable = TRUE
SPECIFICATION PartSpec
INVARIANTS
    AddressExclusive
    DatabaseExclusive
    MoveHoldsBothAddresses
    PeerEndpointHasTunnel
