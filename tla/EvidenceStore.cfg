SPECIFICATION Spec
CONSTANTS
    Runs = {1, 2, 3}
    Keys = {k1}
    MaxTime = 2
    MaxSamples = 2
    MaxSessions = 2
    MaxFlows = 3
    MaxBatch = 3
INVARIANTS
    TypeOK
    TotalsExact
    SamplesNewest
    SessionLedger
    Readable
CHECK_DEADLOCK FALSE
