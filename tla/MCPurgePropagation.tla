-------------------------- MODULE MCPurgePropagation --------------------------
(* Two replicas, the first with a leader and a waiter, and two purge         *)
(* requests at once.                                                         *)
EXTENDS PurgePropagation, TLC
CONSTANTS r1, r2, f1, f2, f3, q1, q2
MCReplicas == {r1, r2}
MCFillers == {f1, f2, f3}
MCRequests == {q1, q2}
MCReplicaOf == [f \in Fillers |-> IF f = f3 THEN r2 ELSE r1]
Interchangeable == Permutations({f1, f2}) \cup Permutations(MCRequests)
=============================================================================
