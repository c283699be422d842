----------------------------- MODULE AtLeastOnce ------------------------------
(***************************************************************************)
(* What a unary call promises end to end when the egrpc client retries it    *)
(* (egrpc/client_async.hpp:40-50) and the egrpc server serves it: success    *)
(* means that the server has carried it out at least once and the callback   *)
(* has run once. An error says nothing about the server, which may have      *)
(* carried the call out, may do so again for every attempt, and may do so    *)
(* after the caller was told of the error. EndToEnd implements this.         *)
(***************************************************************************)
EXTENDS Naturals

CONSTANTS
  Calls,
  Most     \* how often one call may be carried out

VARIABLES
  carriedOut,  \* how often the server has carried each call out with success
  answers,     \* how often the callback of each call has run
  result       \* of each call: "open", "ok" or "error"

vars == <<carriedOut, answers, result>>

Init ==
  /\ carriedOut = [c \in Calls |-> 0]
  /\ answers = [c \in Calls |-> 0]
  /\ result = [c \in Calls |-> "open"]

CarryOut(c) ==
  /\ carriedOut[c] < Most
  /\ carriedOut' = [carriedOut EXCEPT ![c] = @ + 1]
  /\ UNCHANGED <<answers, result>>

Answer(c) ==
  /\ result[c] = "open"
  /\ answers[c] = 0
  /\ carriedOut[c] > 0
  /\ answers' = [answers EXCEPT ![c] = 1]
  /\ UNCHANGED <<carriedOut, result>>

End(c) ==
  /\ result[c] = "open"
  /\ result' = [result EXCEPT ![c] = IF answers[c] = 1 THEN "ok" ELSE "error"]
  /\ UNCHANGED <<carriedOut, answers>>

Next == \E c \in Calls : CarryOut(c) \/ Answer(c) \/ End(c)

Spec == Init /\ [][Next]_vars
===============================================================================
