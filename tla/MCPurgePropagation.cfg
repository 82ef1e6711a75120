SPECIFICATION PurgeSpec
CONSTANTS
    r1 = r1
    r2 = r2
    f1 = f1
    f2 = f2
    f3 = f3
    q1 = q1
    q2 = q2
    Replicas <- MCReplicas
    Fillers <- MCFillers
    ReplicaOf <- MCReplicaOf
    Requests <- MCRequests
    MaxVersion = 1
    MaxPurges = 2
SYMMETRY Interchangeable
INVARIANTS
    SettledPurgeHolds
