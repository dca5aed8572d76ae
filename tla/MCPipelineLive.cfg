SPECIFICATION FairSpec
CONSTANTS
    Workloads = {w1}
    FlowCap = 1
    EventCap = 1
    HealthCap = 1
    LostCap = 1
    MaxFlows = 2
    MaxLost = 1
    FailOnInfraDrops = TRUE
PROPERTIES
    PipelineReturns
CHECK_DEADLOCK FALSE
