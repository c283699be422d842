------------------------------ MODULE MCEndToEnd ------------------------------
(* Model values for the TLC run of EndToEnd. *)
EXTENDS EndToEnd

CONSTANTS c1, s1, s2, p1

OneCall == {c1}
JustTheCall == <<c1>>
TwoPollers == {s1, s2}
OnePoller == {p1}
===============================================================================
