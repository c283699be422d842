------------------------------- MODULE EndToEnd -------------------------------
(***************************************************************************)
(* The unary client and the unary server of egrpc together: the attempts of   *)
(* AsyncClient are the requests that AsyncServerCall serves. Between them is  *)
(* grpc, which is not part of the repository: a request may come late or     *)
(* never, an answer is lost if the attempt is over by then, and an attempt    *)
(* that is not answered before its deadline (iclient.hpp:43-50), or whose     *)
(* server is gone, completes with an error. grpc itself never repeats a       *)
(* request; the repetitions are the client's own attempts.                   *)
(***************************************************************************)
EXTENDS AsyncServerCall, FiniteSets, Sequences

CONSTANTS
  Calls, Retries, WaitList,  \* as in AsyncClient
  ClientPollers              \* the threads that poll the client's queue

\* As in AsyncClient, and None is none of its attempts.
ASSUME ClientParameters ==
  /\ Retries \in Nat
  /\ WaitList \in Seq(Calls)
  /\ None \notin Calls \X (0 .. Retries)

VARIABLES
  clStarted, clEvents, made, clAlive, holds, promise, setTwice, replies, threw,
  clPc, clAt, toWait, reported,  \* the variables of AsyncClient
  carries,           \* the attempt whose request each server handler got
  said               \* "ok" or "error": the status its write_call_ returned

client == INSTANCE AsyncClient WITH
  Pollers <- ClientPollers, started <- clStarted, events <- clEvents, alive <- clAlive,
  pc <- clPc, at <- clAt

clientVars == <<clStarted, clEvents, made, clAlive, holds, promise, setTwice, replies, threw,
                clPc, clAt, toWait, reported>>
wireVars == <<carries, said>>

allVars == <<vars, clientVars, wireVars>>

-------------------------------------------------------------------------------

\* grpc: the request of attempt op reaches handler h, be its deadline past or not.
Arrive(op, h) ==
  /\ op[2] \in made[op[1]]
  /\ \A g \in Handlers : carries[g] # op
  /\ ClientCalls(h)
  /\ carries' = [carries EXCEPT ![h] = op]
  /\ UNCHANGED <<clientVars, said>>

\* grpc: what handler h has finished with reaches the attempt, if that still waits.
Answered(h) ==
  /\ answers[h] > 0
  /\ client!Respond(carries[h], said[h] = "ok")
  /\ UNCHANGED <<vars, wireVars>>

\* grpc: the deadline has passed, or the connection is gone.
Unanswered(op) ==
  /\ client!Respond(op, FALSE)
  /\ UNCHANGED <<vars, wireVars>>

Write(p, good) ==
  /\ ServeWrite(p, good)
  /\ said' = [said EXCEPT ![at[p]] = IF good THEN "ok" ELSE "error"]
  /\ UNCHANGED <<clientVars, carries>>

ServerThread(p) ==
  \/ \E good \in BOOLEAN : Write(p, good)
  \/ /\ ServeReplace(p) \/ Created(p) \/ ServeFinish(p) \/ Shutdown(p)
     /\ UNCHANGED <<clientVars, wireVars>>

ServerPoll(p, e) == Poll(p, e) /\ UNCHANGED <<clientVars, wireVars>>

ServerAnswerSent(h) ==
  /\ \E ok \in BOOLEAN : AnswerSent(h, ok)
  /\ UNCHANGED <<clientVars, wireVars>>

ServerStops == ServerShutdown /\ UNCHANGED <<clientVars, wireVars>>

ClientBegin(c) == client!Begin(c) /\ UNCHANGED <<vars, wireVars>>

ClientPoll(p, e) == client!Poll(p, e) /\ UNCHANGED <<vars, wireVars>>

ClientThread(p) == client!Handle(p) /\ UNCHANGED <<vars, wireVars>>

ClientWait == client!WaitFront /\ UNCHANGED <<vars, wireVars>>

-------------------------------------------------------------------------------

EndToEndInit ==
  /\ Init
  /\ client!Init
  /\ carries = [h \in Handlers |-> None]
  /\ said = [h \in Handlers |-> "none"]

EndToEndNext ==
  \/ ServerStops
  \/ ClientWait
  \/ \E c \in Calls : ClientBegin(c)
  \/ \E op \in Calls \X client!Attempts :
       Unanswered(op) \/ \E h \in Handlers : Arrive(op, h)
  \/ \E h \in Handlers : Answered(h) \/ ServerAnswerSent(h)
  \/ \E p \in Pollers : ServerThread(p) \/ \E e \in events : ServerPoll(p, e)
  \/ \E p \in ClientPollers : ClientThread(p) \/ \E e \in clEvents : ClientPoll(p, e)

EndToEndSpec == EndToEndInit /\ [][EndToEndNext]_allVars

\* As in the two components: deadlines pass, threads poll and carry on. Nothing says
\* that a request arrives, that an answer does, or that the server keeps running.
EndToEndFairness ==
  /\ WF_allVars(\E op \in Calls \X client!Attempts : Unanswered(op))
  /\ WF_allVars(\E p \in ClientPollers, e \in clEvents : ClientPoll(p, e))
  /\ \A p \in ClientPollers : WF_allVars(ClientThread(p))
  /\ WF_allVars(ClientWait)
  /\ \A h \in Handlers : WF_allVars(ServerAnswerSent(h))
  /\ WF_allVars(\E p \in Pollers, e \in events : ServerPoll(p, e))
  /\ \A p \in Pollers : WF_allVars(ServerThread(p))

FairEndToEnd == EndToEndSpec /\ EndToEndFairness

-------------------------------------------------------------------------------

\* The calls of c that the server has carried out with success.
CarriedOut(c) == {h \in Handlers : carries[h] # None /\ carries[h][1] = c /\ said[h] = "ok"}

once == INSTANCE AtLeastOnce WITH
  Most <- Retries + 1,
  carriedOut <- [c \in Calls |-> Cardinality(CarriedOut(c))],
  answers <- replies,
  result <- [c \in Calls |-> IF promise[c] = "empty" THEN "open" ELSE promise[c]]

\* The client's retries and the server's threads, deadlines that race with late
\* answers and a server that stops in the middle make at-least-once calls: a success
\* was carried out and is not repeated by the callback, an error leaves it open
\* (client_async.hpp:32-59 against server_async.hpp:53-76).
ImplementsAtLeastOnce == once!Spec

\* A server that is shut down and drained leaves no handler behind, those that a late
\* serve() constructs included; and every call that was begun ends and leaves none on
\* its side, whether the server is there or not, unless its callback throws.
AllIsFreed ==
  /\ ~up ~> alive = {}
  /\ \A c \in Calls :
       made[c] # {} ~> \/ c \in threw
                       \/ promise[c] # "empty" /\ \A op \in clAlive : op[1] # c
===============================================================================
