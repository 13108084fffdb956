SPECIFICATION StoreSpec
CONSTANTS
    Address = {a1, a2, a3}
    NoAddress = NoAddress
    Parsed <- MCParsed
    EventsLimit = 3
    MaxEventCount = 5
SYMMETRY Symmetry
INVARIANTS
    StoreTypeOK
    StoreWindow
    DiagramIsCurrent
    EveryShownEventHasItsTimeline
PROPERTIES
    TrafficKeepsFilter
    ImplementsEventLog
CHECK_DEADLOCK FALSE
