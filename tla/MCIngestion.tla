---------------------------- MODULE MCIngestion ----------------------------
(* Values for model-checking Ingestion.                                    *)
EXTENDS Ingestion, TLC

CONSTANTS r1, r2, p1, p2

TwoRuns == {r1, r2}
TwoPartitions == {p1, p2}
Symmetry == Permutations(TwoRuns) \cup Permutations(TwoPartitions)
=============================================================================
