SPECIFICATION Spec
CONSTANTS
    Null = Null
    BlockScanLimit = 5
    Functions <- MCFunctions
CHECK_DEADLOCK FALSE
INVARIANT NothingAsserted
