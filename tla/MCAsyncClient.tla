---------------------------- MODULE MCAsyncClient -----------------------------
(* Model values for the TLC runs of AsyncClient. *)
EXTENDS AsyncClient

CONSTANTS c1, c2, p1, p2

TwoCalls == {c1, c2}
FrontToBack == <<c1, c2>>
TwoPollers == {p1, p2}
===============================================================================
