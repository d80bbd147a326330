---------------------------- MODULE MCZaloDispatch ----------------------------
(* Small instances of ZaloDispatch for TLC.                                *)
EXTENDS ZaloDispatch, TLC

CONSTANTS r1, r2

Symmetry == Permutations(Runs)
=============================================================================
