---------------------------- MODULE MCJobSequence -----------------------------
(* Model values for the TLC runs of JobSequence. *)
EXTENDS JobSequence

CONSTANTS j1, j2, j3, main, killer, helper

TwoJobs == {j1, j2}
ThreeJobs == {j1, j2, j3}
OwnerOnly == {main}
OwnerAndHelper == {main, helper}
Killer == {killer}
===============================================================================
