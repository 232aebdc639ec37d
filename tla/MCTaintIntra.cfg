SPECIFICATION FairSpec
CONSTANTS
    NoNode = NoNode
    AllocaMax = 10
    Nodes <- AllNodes
    Programs <- MCModulePrograms
CHECK_DEADLOCK FALSE
INVARIANT
    IntraProcedural
