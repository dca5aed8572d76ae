SPECIFICATION Spec
CONSTANTS
    Sessions = {s1, s2}
    Stoppers = {c1}
    NoSession = NoSession
INVARIANTS
    StoppedSessionRetained
CHECK_DEADLOCK FALSE
