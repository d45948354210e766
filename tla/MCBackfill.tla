----------------------------- MODULE MCBackfill -----------------------------
(* Values for model-checking Backfill: one API process, and the two that   *)
(* overlap while a new version is rolled out.                              *)
EXTENDS Backfill, TLC

CONSTANTS d1, d2

Steady == {d1}
Rollout == {d1, d2}
Symmetry == Permutations(Rollout)
=============================================================================
