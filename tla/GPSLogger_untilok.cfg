\* Every stream of four bytes in reads of up to three.
CONSTANTS
    SizeMod = 65536
    MaxBytes = 4
    MaxChunk = 3
SPECIFICATION Spec
INVARIANT ReadUntilOK
CHECK_DEADLOCK FALSE
