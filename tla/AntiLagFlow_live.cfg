SPECIFICATION Spec
CONSTANTS
    None = None
    Env = {"write"}
    Nodes = {a, b}
    Paths = {p1, p2}
PROPERTIES BrokenReplaced
CHECK_DEADLOCK FALSE
