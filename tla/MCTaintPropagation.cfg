SPECIFICATION FairSpec
CONSTANTS
    NoNode = NoNode
    AllocaMax = 10
    Nodes <- AllNodes
    Programs <- MCPrograms
CHECK_DEADLOCK FALSE
INVARIANTS
    TypeOK
    NothingLost
    FlaggedHaveTaint
    StoresTaint
    ReportJustified
PROPERTIES
    TaintFrozen
    Termination
    ImplementsClosure
