SPECIFICATION Spec
CONSTANTS
    Address = {a1, a2, a3}
    NoAddress = NoAddress
    Parsed <- MCParsed
    EventsLimit = 2
    MaxEventCount = 4
SYMMETRY Symmetry
INVARIANTS
    TypeOK
    BoxesNameKnownDevices
PROPERTIES
    FilterFollowsUser
    ClosingApplies
    ImplementsEventStore
CHECK_DEADLOCK FALSE
