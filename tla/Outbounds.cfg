SPECIFICATION OutSpec
CONSTANTS
    None = None
    Items <- OneWay
    SendBuf = 1
    RecvWindow = 2
    MaxInFlight <- ServerTwo
    MaxSessions = 1
    c1 = c1
    c2 = c2
    h1 = h1
    h2 = h2
    h3 = h3
INVARIANTS FreshList PickHonoured AckedIsReceived CleanEof ControlReliable
    ResetIsAcked LookupTakenBack
PROPERTIES DialNotCut
CHECK_DEADLOCK FALSE
