SPECIFICATION TimedSpec
CONSTANTS
    c1 = c1
    c2 = c2
    p1 = p1
    None = None
    Callers = {c1}
    Pools = {p1}
    Workers = {w1}
    Keys = {k1}
    PoolOf <- Together
    Packet <- NoPackets
    Concurrency = 1
    XUDPConcurrency = 1
    HardMult = 1
    MaxConnections <- OneEach
    MaxUses = 1
    MaxDials = 0
    Window = 1
    EagerNew = FALSE
PROPERTY PoolCloseReturns
CHECK_DEADLOCK FALSE
