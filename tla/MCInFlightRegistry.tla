-------------------------- MODULE MCInFlightRegistry --------------------------
(* Three actors and two keys: a key's second leader can start while a waiter *)
(* of the first still holds its slot, and freed slots change keys.           *)
EXTENDS InFlightRegistry
CONSTANTS a1, a2, a3, k1, k2, s1, s2, s3, r1, r2
MCActors == {a1, a2, a3}
MCKeys == {k1, k2}
MCSlots == {s1, s2, s3}
MCResponses == {r1, r2}
=============================================================================
