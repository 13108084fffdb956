SPECIFICATION ProgramSpec
CONSTANTS
    Address = {a1, a2}
    NoAddress = NoAddress
    Parsed <- MCParsed
    Message <- MCMessage
    EventsLimit = 2
    MaxEventCount = 3
    MaxArrivals = 3
INVARIANTS
    ProgramTypeOK
    ChannelOrder
    ScreenIsComplete
    
PROPERTIES
    ImplementsDialog
    MessagesReachTheScreen
CHECK_DEADLOCK FALSE
