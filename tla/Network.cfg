SPECIFICATION NetSpec
CONSTANTS
    Limit = 4
    MaxChunk = 3
    MaxRead = 4
    MaxByte = 7
    None = None
INVARIANT NoLostWakeup
PROPERTIES RefinesFifo PipeReturns WrittenArrives RekeyCompletes
CHECK_DEADLOCK FALSE
