------------------------- MODULE MCAsyncClientStream --------------------------
(* Model values for the TLC runs of AsyncClientStream. *)
EXTENDS AsyncClientStream

CONSTANTS c1, c2, p1, p2

TwoCalls == {c1, c2}
TwoPollers == {p1, p2}
===============================================================================
