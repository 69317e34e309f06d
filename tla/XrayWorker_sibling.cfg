SPECIFICATION Spec
CONSTANTS
    None = None
    Sessions = {s1, s2}
    Packets = {}
    MaxUses = 3
    EagerModes = {FALSE}
    Reliable = TRUE
    PipeLimit = 1
    MaxWrites = 1
    MaxFrames = 1
INVARIANTS SiblingsSurvive
CHECK_DEADLOCK FALSE
