SPECIFICATION Spec
CONSTANTS
    Cap = 4
    ErrorCap = 3
    MaxLen = 6
INVARIANTS
    TypeOK
    WholeDocumentsOnly
    VerdictIgnoresChunks
CHECK_DEADLOCK FALSE
