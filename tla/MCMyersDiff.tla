----------------------------- MODULE MCMyersDiff ------------------------------
(* Model values and symmetry for the TLC runs of MyersDiff. *)
EXTENDS MyersDiff, TLC

CONSTANTS a, b

TwoVals == {a, b}

ValSymmetry == Permutations(Vals)
===============================================================================
