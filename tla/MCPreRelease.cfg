CONSTANTS
    Device = {d1, d2}
    Peer = {}
    RandomId = {r1, r2}
    Request = {}
    NoId = NoId
    None = None
    NoRow = NoRow
    LastHost = 2
    MaxActivePeers = 1
    CommandCapacity = 1
    ReadsMayFail = FALSE
    RequestsDroppable = FALSE
SPECIFICATION Spec
SYMMETRY Symmetry
PROPERTIES
    PreReleaseSparesOthers
