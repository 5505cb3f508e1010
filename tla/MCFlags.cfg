CONSTANTS
    Device = {d1, d2}
    Peer = {p1, p2}
    RandomId = {r1, r2}
    NoId = NoId
    None = None
    NoRow = NoRow
    LastHost = 3
    ListedIp = {v1}
    Kind = {"local", "remote"}
    ChannelCapacity = 1
    MaxVersion = 3
    MaxPackets = 4
    Size = {1, 2}
    BatchSize = 2
    ChannelSize = 1
    FlagsCancel <- FlagsCancelUpToThree
    Client = {c1, c2}
    StateId = {t1, t2}
    Edit = {e1}
    NoState = NoState
SPECIFICATION PartsSpec
INVARIANTS
    RecoveredAsSent
CHECK_DEADLOCK FALSE
