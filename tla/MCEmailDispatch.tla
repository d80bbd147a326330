--------------------------- MODULE MCEmailDispatch ---------------------------
(* Small instances of EmailDispatch for TLC.                               *)
EXTENDS EmailDispatch, TLC

CONSTANTS r1, r2

Symmetry == Permutations(Runs)
=============================================================================
