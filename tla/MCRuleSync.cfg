SPECIFICATION FairSpec
CONSTANTS
    r1 = r1
    h1 = h1
    h2 = h2
    a = a
    b = b
    Replicas <- MCReplicas
    Handlers <- MCHandlers
    Patterns <- MCPatterns
    Ttls = {1, 2}
    MaxWrites = 2
    MaxRestarts = 1
    None = None
CONSTRAINT FirstRule
INVARIANTS
    NoSilentStaleness
    OnlyPersistedRules
    MirrorHolds
PROPERTIES
    ProxiesConverge
