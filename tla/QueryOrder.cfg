SPECIFICATION Spec
CONSTANTS
    KeyOrder <- Names
    ReadDirOrder <- FileNames
    Unreadable = {}
    Rules = {1, 2}
    Times = {1, 2, 3}
    MaxWrites = 4
    Undescribed = {2}
    Reasons = {1}
    Class <- MCClass
    Egress = {1}
    MaxSamples = 2
    DefaultLimit = 2
    MaxLimit = 2
    Requests <- MCRequests
    None = None
INVARIANTS
    DriftBounded
CHECK_DEADLOCK FALSE
