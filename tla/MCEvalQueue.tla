---------------------------- MODULE MCEvalQueue ----------------------------
(* Small instances of EvalQueue for TLC. *)
EXTENDS EvalQueue, TLC

CONSTANTS x, y, w1, w2, a1, a2

MCTargets == {x, y}
MCGoroutines == {w1, w2}
OneAdmin == {a1}
MCAdmins == {a1, a2}
MCEnqueuers == {a1}
OneBatch == {<<y, x>>}
MCBatches == {<<x>>, <<y, x>>}

\* Sound for the run of safety properties: nothing tells goroutines apart.
Symmetry == Permutations(MCGoroutines)
=============================================================================
