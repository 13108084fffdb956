SPECIFICATION Spec
CONSTANT
    MaxLength = 1028
INVARIANTS
    LinesShowTheirBytes
    EveryByteIsDumped
    DumpFits
CHECK_DEADLOCK FALSE
