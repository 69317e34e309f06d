SPECIFICATION Spec
CONSTANTS
    None = None
    Hosts = {h1, h2}
    Ranges <- OneRange
    Persistent = TRUE
    Size = 2
    MaxFlush = 1
    MaxRestart = 0
INVARIANT LookBackRight
CHECK_DEADLOCK FALSE
