----------------------- MODULE MCAsyncServerStreamCall ------------------------
(* Model values for the TLC runs of AsyncServerStreamCall. *)
EXTENDS AsyncServerStreamCall

CONSTANTS p1, p2

TwoPollers == {p1, p2}
===============================================================================
