--------------------------- MODULE MCRequestHandler ---------------------------
(* One key, the two workers and the background thread that compete for it.  *)
EXTENDS RequestHandler, TLC
CONSTANTS w1, w2, t1, k1
MCWorkers == {w1, w2}
MCTasks == {t1}
MCKeys == {k1}
MCSlots == 1..3
WorkerSymmetry == Permutations(MCWorkers)
=============================================================================
