SPECIFICATION Spec
CONSTANTS
    Address = {a1, a2}
    NoAddress = NoAddress
    Parsed <- MCParsed
    MaxShown = 2
SYMMETRY Symmetry
INVARIANTS
    OpenConnectionsAreCompleted
CHECK_DEADLOCK FALSE
