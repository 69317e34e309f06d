SPECIFICATION RelaySpec
CONSTANTS
    None = None
    Packets = {p1, p2}
    Senders = {a, b}
    IngressCap = 1
    SenderCap = 1
    Session = Session
    c1 = c1
    c2 = c2
    pool1 = pool1
    worker1 = worker1
    key1 = key1
INVARIANTS OwnEntry DroppedOnce ExpiryCovers NewFirst NoTruncation
PROPERTIES SenderDone SessionEnds DialReturns CloseReturnsOrStuck
CHECK_DEADLOCK FALSE
