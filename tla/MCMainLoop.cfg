SPECIFICATION Spec
CONSTANT
    MaxInput = 2
INVARIANTS
    TypeOK
    DrawsOnLiveCanvas
    ClosingIsClean
PROPERTIES
    UserIsServed
    QuitEnds
CHECK_DEADLOCK FALSE
