SPECIFICATION FairSpec
CONSTANTS
    NoData = NoData
    NoInst = NoInst
    Insts <- MCInsts
    MaxLocNum = 3
    Passes = 2
    Programs <- MCPrograms
CHECK_DEADLOCK FALSE
INVARIANTS
    TypeOK
    CandidateIsNearest
    OneSourcePerLoad
PROPERTIES
    RerunAddsNothing
    Termination
