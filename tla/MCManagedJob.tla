----------------------------- MODULE MCManagedJob -----------------------------
(* Model values for the TLC runs of ManagedJob. *)
EXTENDS ManagedJob

CONSTANTS h1, h2, s1, s2, s3, c1, c2

TwoHandles == {h1, h2}
TwoStates == {s1, s2}
ThreeStates == {s1, s2, s3}
TwoCallers == {c1, c2}
===============================================================================
