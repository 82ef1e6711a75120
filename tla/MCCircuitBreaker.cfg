SPECIFICATION CBFairSpec
CONSTANTS
    c1 = c1
    c2 = c2
    c3 = c3
    Callers <- MCCallers
    FailureThreshold = 2
    OpenMs = 2
    HalfOpenMaxProbes = 2
    CountCap = 3
INVARIANTS
    ProbesAccounted
    ProbeLimit
PROPERTIES
    FullOpenWindow
    Recovers
