SPECIFICATION FairSpec
CONSTANTS
    DefaultTtl = 2
    MaxAddrs = 2
    Cap = 3
    Path <- MCPath
    Responses <- MCResponses
    RuleSets <- MCRuleSets
INVARIANTS
    CachedIsSound
    DecisionFollowsRules
    NoDescriptorLeak
PROPERTY
    FetchEnds
