SPECIFICATION Spec
CONSTANTS
    Class <- MCClass
    Decode <- MCDecode
    DNSLabels <- MCDNSLabels
    Flows <- MCFlows
    Options <- MCOptions
    Clusters <- MCClusters
    MaxTemplateSegments = 2
    NoIP = NoIP
    NoNamespace = NoNamespace
    MaxFlows = 3
    MaxRuns = 2
INVARIANT NoForeignPaths
CHECK_DEADLOCK FALSE
