CONSTANTS
    Authority = A
    Member = {m1}
    LeaseDevice = {e1}
    LeasePeer = {}
    LeaseIp = {2}
    Duration = 1
    SessionId = {s1}
    RequestId = {i1, i2}
    PassId = {k1}
    Null = Null
    ListedIp = {v1}
    Kind = {"local", "remote"}
    ChannelCapacity = 1
    MaxVersion = 2
    Asker = {t1, t2}
    QueueSize = 2
SPECIFICATION LivePartsSpec
INVARIANT LoopTypeOK
PROPERTIES
    ExpiredSessionStops
    ListConverges
    LoopProgress
CHECK_DEADLOCK FALSE
