---------------------------- MODULE MCRollupBuffer ----------------------------
(* Two keys and a pool of two clients, so that flushes can wait for each     *)
(* other's rows and for a client; two signals.  An event of each key for two *)
(* flushes, or one event for each of four.                                   *)
EXTENDS RollupBuffer
CONSTANTS a, b, t1, t2, t3, s1, s2
MCKeys == {a, b}
MCKeyOf == [e \in Events |-> IF e \in {1, 4} THEN a ELSE b]
MCTicks == {t1, t2, t3}
MCSignals == {s1, s2}
=============================================================================
