SPECIFICATION Spec
CONSTANTS
    MaxClients = 1
    MaxConns = 2
    Streams = {1, 2}
    MaxOpenStreams = 3
PROPERTY StreamNotCut
CHECK_DEADLOCK FALSE
