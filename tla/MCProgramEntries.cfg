SPECIFICATION Spec
CONSTANTS
    NoData = NoData
    NoWrapper = NoWrapper
    Garbage = Garbage
    Modules <- MCModules
CHECK_DEADLOCK FALSE
INVARIANT
    CallsReachEntries
