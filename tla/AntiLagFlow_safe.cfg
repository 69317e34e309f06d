SPECIFICATION Spec
CONSTANTS
    None = None
    Env = {"control", "read"}
    Nodes = {a, b, c}
    Paths = {p1, p2, p3}
SYMMETRY Symmetry
ACTION_CONSTRAINT OneThingAtATime
INVARIANTS NoPathLeak PathsInOrder ReaderTold
CHECK_DEADLOCK FALSE
