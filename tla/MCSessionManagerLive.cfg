SPECIFICATION FairSpec
CONSTANTS
    Sessions = {s1}
    Stoppers = {c1, c2}
    NoSession = NoSession
PROPERTIES
    StopReturns
    ShutdownReturns
    CancelledSessionDrains
CHECK_DEADLOCK FALSE
