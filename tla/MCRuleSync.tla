------------------------------ MODULE MCRuleSync ------------------------------
(* One proxy (they do not interact) and two request handlers.               *)
EXTENDS RuleSync
CONSTANTS r1, h1, h2, a, b
MCReplicas == {r1}
MCHandlers == {h1, h2}
MCPatterns == {a, b}

\* Patterns and ttls are interchangeable: it is enough to look at the behaviours in
\* which the first rule is this one.  (A SYMMETRY set would be unsound for liveness.)
FirstRule == writes = 1 => db[1] \in {NoRow, [pattern |-> a, ttl |-> 1]}
=============================================================================
