SPECIFICATION Spec
CONSTANTS
    NoData = NoData
    NoBlock = NoBlock
    NoTreeNode = NoTreeNode
    Root = Root
    FlowGraphs <- MCFlowGraphs
CHECK_DEADLOCK FALSE
INVARIANTS
    TypeOK
    MatchesDefinition
    EntryControlsUnavoidable
    NoOrphans
PROPERTIES
    Termination
