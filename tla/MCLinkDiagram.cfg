SPECIFICATION Spec
CONSTANTS
    Address = {a1, a2}
    NoAddress = NoAddress
    Parsed <- MCParsed
    MaxShown = 4
INVARIANTS
    TypeOK
    PairsJoinOneDevice
    ConnectionsArePairedOff
    CompletionHasColumn
    EveryEventHasItsArrow
PROPERTIES
    RedrawEnds
    ImplementsSequenceDiagram
CHECK_DEADLOCK FALSE
