SPECIFICATION Spec
CONSTANTS
    Null = Null
    BlockScanLimit = 5
    Functions <- MCFunctions
CHECK_DEADLOCK FALSE
INVARIANTS
    TypeOK
    LocalMirror
    NonLocalMirror
    PointerMirror
    RemovedIsGone
    CacheSearchable
    ReachedFresh
PROPERTIES
    AnswersRight
    QueriesEnd
