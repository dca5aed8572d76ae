SPECIFICATION Spec
CONSTANTS
    KeyOrder <- PlainNames
    ReadDirOrder <- PlainNames
    Unreadable = {"d"}
    Rules = {1, 2}
    Times = {1, 2, 3}
    MaxWrites = 4
    Undescribed = {2}
    Reasons = {1}
    Class <- MCClass
    Egress = {1}
    MaxSamples = 2
    DefaultLimit = 1
    MaxLimit = 2
    Requests <- MCRequests
    None = None
INVARIANTS
    TypeOK
    DriftBounded
    NoDropsTruthful
PROPERTIES
    CursorAdvances
CHECK_DEADLOCK FALSE
