SPECIFICATION Spec
CONSTANTS
    Address = {a1, a2}
    NoAddress = NoAddress
    Parsed <- MCParsed
    Message <- EveryMessage
    EventsLimit = 1
    MaxEventCount = 1
    MaxArrivals = 1
INVARIANTS
    CreateConnectionIsConnection
CHECK_DEADLOCK FALSE
