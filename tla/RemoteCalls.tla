----------------------------- MODULE RemoteCalls ------------------------------
(***************************************************************************)
(* What the egrpc client handlers promise to the code that makes a call and  *)
(* waits for its promise (egrpc/iclient_async.hpp:26-49): the callback sees  *)
(* answers only while the call is open, and the call ends once, with success *)
(* or with an error, after which nothing more happens to it. Attempts,       *)
(* operations and the completion queue belong to AsyncClient, which          *)
(* implements this.                                                         *)
(***************************************************************************)
EXTENDS Naturals

CONSTANT Calls

VARIABLES
  answers,  \* how many answers of each call the callback was given
  result    \* of each call: "open", "ok" or "error"

vars == <<answers, result>>

Init ==
  /\ answers = [c \in Calls |-> 0]
  /\ result = [c \in Calls |-> "open"]

Answer(c) ==
  /\ result[c] = "open"
  /\ answers' = [answers EXCEPT ![c] = @ + 1]
  /\ UNCHANGED result

End(c, r) ==
  /\ result[c] = "open"
  /\ result' = [result EXCEPT ![c] = r]
  /\ UNCHANGED answers

Next == \E c \in Calls : Answer(c) \/ \E r \in {"ok", "error"} : End(c, r)

Spec == Init /\ [][Next]_vars
===============================================================================
