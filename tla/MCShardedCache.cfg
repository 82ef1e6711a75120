SPECIFICATION Spec
CONSTANTS
    Requests <- MCRequests
    Params <- MCParams
    Host <- MCHost
    Sizes = {1, 2, 4}
    MaxBytes = 6
    NumShards = 2
    ShardOf <- MCShardOf
    Patterns <- MCPatterns
INVARIANTS
    ShardConsistent
    WithinLimit
    KeysMeanRequests
PROPERTIES
    EvictsLeastRecent
    PurgeLeavesNothing
    ImplementsBoundedCache
