SPECIFICATION Spec
CONSTANTS
    Sessions = {s1, s2}
    Stoppers = {c1, c2}
    NoSession = NoSession
SYMMETRY Symmetry
INVARIANTS
    TypeOK
    PortForwardOwned
    LiveSessionReachable
    DirectoryOwned
    DeadSessionNotCapturing
    OneFirstStop
    SummarySettled
PROPERTIES
    SlotSpec
CHECK_DEADLOCK FALSE
