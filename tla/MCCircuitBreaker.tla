--------------------------- MODULE MCCircuitBreaker ---------------------------
(* Three callers: two probes and a fetch admitted before the outage.        *)
EXTENDS CircuitBreaker
CONSTANTS c1, c2, c3
MCCallers == {c1, c2, c3}
=============================================================================
