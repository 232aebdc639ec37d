SPECIFICATION Spec
CONSTANTS
    Null = Null
    BlockScanLimit = 5
    Functions <- MCShared
CHECK_DEADLOCK FALSE
PROPERTY AnswersRight
