SPECIFICATION Spec
CONSTANTS
    Workloads = {w1, w2}
    FlowCap = 1
    EventCap = 1
    HealthCap = 1
    LostCap = 1
    MaxFlows = 3
    MaxLost = 1
    FailOnInfraDrops = TRUE
SYMMETRY Symmetry
INVARIANTS
    TypeOK
    FlowsConserved
    NoSendOnClosed
    WritersAgree
    HealthAccounted
    CleanRunComplete
    FailureSurfaced
CHECK_DEADLOCK FALSE
