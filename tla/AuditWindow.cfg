SPECIFICATION FairSpec
CONSTANTS
    Endpoints = {e1, e2}
    Ids = {i1, i2}
    NoId = NoId
INVARIANTS
    TypeOK
    RevertedOrNamed
    ForeignUntouched
    SnapshotAfterDrain
PROPERTIES
    ResultsFinal
    WindowCloses
CHECK_DEADLOCK FALSE
