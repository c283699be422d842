---------------------------- MODULE MCDiffMessage -----------------------------
(* Model values for the TLC runs of DiffMessage. *)
EXTENDS DiffMessage

CONSTANT a

OneText == {a}
===============================================================================
