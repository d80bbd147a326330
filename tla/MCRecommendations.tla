-------------------------- MODULE MCRecommendations --------------------------
(* A small instance of Recommendations for TLC.                            *)
EXTENDS Recommendations, TLC

CONSTANTS r1, r2, q1, q2

Symmetry == Permutations(Runs) \cup Permutations(Requests)
=============================================================================
