SPECIFICATION Spec
CONSTANTS
    Device = a1
    Address <- MCAddress
    NoAddress = NoAddress
    Parsed <- MCParsed
    EventsLimit = 2
    MaxEventCount = 4
    Item = {i1, i2, i3}
    NoItem = NoItem
    NoEvent = NoEvent
SYMMETRY Symmetry
INVARIANT
    BoxHasItsTypesColour
CHECK_DEADLOCK FALSE
