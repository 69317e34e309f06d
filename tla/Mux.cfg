SPECIFICATION MuxSpec
CONSTANTS
    None = None
    c1 = c1
    c2 = c2
    p1 = p1
    p2 = p2
    d1 = d1
    d2 = d2
    v1 = v1
    s1 = s1
    s2 = s2
    Callers = {c1, c2}
    Pools = {p1, p2}
    Workers = {w1, w2}
    Keys = {k1}
    PoolOf <- Apart
    Packet <- NoPackets
    Concurrency = 1
    XUDPConcurrency = 1
    HardMult = 1
    MaxConnections <- OneEach
    MaxUses = 1
    MaxDials = 0
    Window = 1
    EagerNew = FALSE
INVARIANTS PermitsExact CarrierLimit NoCarrierAfterClose PoolLimits CarrierAccounted
SYMMETRY Symmetry
CHECK_DEADLOCK FALSE
