SPECIFICATION Spec
CONSTANTS
    NoData = NoData
    Data = {"d1", "d2", "d3"}
    Types = {"CONTROL", "DATA_RAW"}
    MaxLinks = 3
CONSTRAINT Bounded
INVARIANTS
    TypeOK
    NoDoubles
PROPERTIES
    ControlTypeStable
    RefinesRelation
