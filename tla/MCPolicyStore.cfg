SPECIFICATION Spec
CONSTANTS
    Class <- MCClass
    Decode <- MCDecode
    DNSLabels <- MCDNSLabels
    Flows <- MCFlows
    Options <- MCOptions
    Clusters <- MCClusters
    MaxTemplateSegments = 2
    NoIP = NoIP
    NoNamespace = NoNamespace
    MaxFlows = 3
    MaxRuns = 2
INVARIANTS
    TypeOK
    HandledFlowsCovered
    NothingUnjustified
    NoShadowedLiteral
    CompanionPresent
PROPERTIES
    GrantsOnlyGrow
CHECK_DEADLOCK FALSE
