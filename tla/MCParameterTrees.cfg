SPECIFICATION Spec
CONSTANTS
    HeadNode = HeadNode
    FeetNode = FeetNode
    NoNode = NoNode
    NoData = NoData
    TypeTable <- MCTypes
    Programs <- MCPrograms
    MaxNodes = 90
    MaxBuilds = 2
CHECK_DEADLOCK FALSE
INVARIANTS
    TypeOK
    TreesConsistent
    FormalTreesUnfoldTypes
    FieldsMeetFields
    PassedFieldsReturn
PROPERTY
    BuildingEnds
