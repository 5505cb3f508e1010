CONSTANTS
    Device = {}
    Peer = {p1}
    RandomId = {}
    Request = {q1}
    NoId = NoId
    None = None
    NoRow = NoRow
    LastHost = 2
    MaxActivePeers = 1
    CommandCapacity = 1
    ReadsMayFail = FALSE
    RequestsDroppable = TRUE
SPECIFICATION Spec
SYMMETRY Symmetry
INVARIANTS
    ListingShowsOneAddress
