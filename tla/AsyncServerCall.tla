--------------------------- MODULE AsyncServerCall ----------------------------
(***************************************************************************)
(* egrpc::AsyncServerCall (server_async.hpp): unary calls on the server. A   *)
(* handler asks grpc for the next request with itself as tag, replaces       *)
(* itself by a new handler when the request comes, writes the answer, and is *)
(* deleted when the answer's completion comes back. Threads poll the queue   *)
(* and call serve() on a completion that is ok and shutdown() on one that is *)
(* not, which is how egrpc/test/main.cpp:508-541 uses the handlers.          *)
(*                                                                         *)
(* Handlers are numbered as they are constructed. An operation is            *)
(* <<handler, kind>>, kind being "request" or "finish".                      *)
(*                                                                         *)
(* Not part of the contract: a write_call_ that throws, and a completion     *)
(* queue that is shut down before the server's operations are drained.       *)
(***************************************************************************)
EXTENDS CompletionQueue, Naturals

CONSTANTS
  MaxRpcs,  \* how many calls clients make
  Pollers,  \* the threads that poll the completion queue
  None

ASSUME MaxRpcsIsNatural == MaxRpcs \in Nat

\* One handler for each call and the one that waits for the next.
Handlers == 1 .. MaxRpcs + 1

ASSUME NoneIsNoHandler == None \notin Handlers

VARIABLES
  up,        \* the server is not shut down
  born,      \* how many handlers were constructed
  alive,     \* the handlers that are not deleted
  done,      \* the handlers with done_ set
  accepted,  \* the handlers whose request a client has made
  answers,   \* how often each handler has finished its call
  pc,        \* where each polling thread is
  at,        \* the handler it is in
  flag,      \* the ok it was given
  builds     \* the handler whose constructor it is in

vars == <<started, events, up, born, alive, done, accepted, answers, pc, at, flag, builds>>

pollerVars == <<pc, at, flag, builds>>

-------------------------------------------------------------------------------

\* grpc: a client makes the call that handler h asked for.
ClientCalls(h) ==
  /\ up
  /\ born <= MaxRpcs
  /\ CompleteOp(<<h, "request">>, TRUE)
  /\ accepted' = accepted \cup {h}
  /\ UNCHANGED <<up, born, alive, done, answers, pollerVars>>

\* server->Shutdown(): the requests that nobody made come back not ok.
ServerShutdown ==
  /\ up
  /\ up' = FALSE
  /\ LET requests == {op \in started : op[2] = "request"} IN
       /\ started' = started \ requests
       /\ events' = events \cup {[op |-> op, ok |-> FALSE] : op \in requests}
  /\ UNCHANGED <<born, alive, done, accepted, answers, pollerVars>>

\* grpc has sent the answer, or found the client gone.
AnswerSent(h, ok) ==
  /\ CompleteOp(<<h, "finish">>, ok)
  /\ UNCHANGED <<up, born, alive, done, accepted, answers, pollerVars>>

Poll(p, e) ==
  /\ pc[p] = "next"
  /\ TakeEvent(e)
  /\ pc' = [pc EXCEPT ![p] = "dispatch"]
  /\ at' = [at EXCEPT ![p] = e.op[1]]
  /\ flag' = [flag EXCEPT ![p] = e.ok]
  /\ UNCHANGED <<started, up, born, alive, done, accepted, answers, builds>>

IsDone(h) == h \in done

\* A bug: no handler is constructed for the next request.
MutReplace == UNCHANGED <<started, events, born, alive>>

\* The constructor asks for a request; a server that is down answers at once.
Replace ==
  LET request == <<born + 1, "request">> IN
    /\ born' = born + 1
    /\ alive' = alive \cup {born + 1}
    /\ IF up
         THEN StartOp(request) /\ UNCHANGED events
         ELSE events' = events \cup {[op |-> request, ok |-> FALSE]} /\ UNCHANGED started

\* serve() on a handler whose request has come: first its replacement.
ServeReplace(p) ==
  /\ pc[p] = "dispatch"
  /\ flag[p]
  /\ ~IsDone(at[p])
  /\ Replace
  /\ pc' = [pc EXCEPT ![p] = "created"]
  /\ builds' = [builds EXCEPT ![p] = born + 1]
  /\ UNCHANGED <<up, done, accepted, answers, at, flag>>

\* The constructor's last statement logs through the new handler's logger_, although
\* the handler's request was started before and may have been served meanwhile.
Created(p) ==
  /\ pc[p] = "created"
  /\ pc' = [pc EXCEPT ![p] = "write"]
  /\ builds' = [builds EXCEPT ![p] = None]
  /\ UNCHANGED <<cqVars, up, born, alive, done, accepted, answers, at, flag>>

\* A bug: done_ is set on the way to finish, not to finish_with_error.
MutMarked(h, good) == IF good THEN done \cup {h} ELSE done

\* done_ = true comes before write_call_, whatever status that returns.
Marked(h, good) == done \cup {h}

ServeWrite(p, good) ==
  /\ pc[p] = "write"
  /\ done' = Marked(at[p], good)
  /\ pc' = [pc EXCEPT ![p] = "finish"]
  /\ UNCHANGED <<cqVars, up, born, alive, accepted, answers, at, flag, builds>>

\* A bug: the handler is still in use when the answer may have been sent.
MutAfterFinish == "dispatch"

\* Nothing in serve() follows finish.
AfterFinish == "next"

\* finish or finish_with_error
ServeFinish(p) ==
  /\ pc[p] = "finish"
  /\ StartOp(<<at[p], "finish">>)
  /\ answers' = [answers EXCEPT ![at[p]] = @ + 1]
  /\ pc' = [pc EXCEPT ![p] = AfterFinish]
  /\ UNCHANGED <<events, up, born, alive, done, accepted, at, flag, builds>>

\* A bug: a handler whose request never came is not deleted.
MutDeletes(p) == flag[p]

Deletes(p) == TRUE

\* shutdown(), from serve() on a handler that is done or from the polling thread
\* on a completion that is not ok: delete this.
Shutdown(p) ==
  /\ pc[p] = "dispatch"
  /\ flag[p] => IsDone(at[p])
  /\ alive' = IF Deletes(p) THEN alive \ {at[p]} ELSE alive
  /\ pc' = [pc EXCEPT ![p] = "next"]
  /\ UNCHANGED <<cqVars, up, born, done, accepted, answers, at, flag, builds>>

-------------------------------------------------------------------------------

\* The program has constructed the first handler.
Init ==
  /\ started = {<<1, "request">>}
  /\ events = {}
  /\ up = TRUE
  /\ born = 1
  /\ alive = {1}
  /\ done = {}
  /\ accepted = {}
  /\ answers = [h \in Handlers |-> 0]
  /\ pc = [p \in Pollers |-> "next"]
  /\ at = [p \in Pollers |-> None]
  /\ flag = [p \in Pollers |-> FALSE]
  /\ builds = [p \in Pollers |-> None]

Serve(p) ==
  \/ ServeReplace(p)
  \/ Created(p)
  \/ \E good \in BOOLEAN : ServeWrite(p, good)
  \/ ServeFinish(p)
  \/ Shutdown(p)

Next ==
  \/ ServerShutdown
  \/ \E h \in Handlers : ClientCalls(h) \/ \E ok \in BOOLEAN : AnswerSent(h, ok)
  \/ \E p \in Pollers : Serve(p) \/ \E e \in events : Poll(p, e)

Spec == Init /\ [][Next]_vars

\* grpc completes what was started, and the threads keep polling and serving.
\* Nobody has to call, and nobody has to shut the server down.
Fairness ==
  /\ \A h \in Handlers : WF_vars(\E ok \in BOOLEAN : AnswerSent(h, ok))
  /\ WF_vars(\E p \in Pollers, e \in events : Poll(p, e))
  /\ \A p \in Pollers : WF_vars(Serve(p))

FairSpec == Spec /\ Fairness

-------------------------------------------------------------------------------

Ops == Handlers \X {"request", "finish"}

\* Type invariant.
TypeOK ==
  /\ started \subseteq Ops
  /\ events \subseteq [op : Ops, ok : BOOLEAN]
  /\ up \in BOOLEAN
  /\ born \in Handlers
  /\ alive \subseteq 1 .. born
  /\ done \subseteq 1 .. born
  /\ accepted \subseteq 1 .. born
  /\ answers \in [Handlers -> {0, 1}]
  /\ pc \in [Pollers -> {"next", "dispatch", "created", "write", "finish"}]
  /\ at \in [Pollers -> Handlers \cup {None}]
  /\ flag \in [Pollers -> BOOLEAN]
  /\ builds \in [Pollers -> Handlers \cup {None}]

InHandler(p, h) == pc[p] # "next" /\ at[p] = h

\* However many threads poll, a living handler is in the hands of exactly one of
\* them or has exactly one operation outstanding, and a deleted one has neither. A
\* thread that is still in the constructor comes on top (server_async.hpp:49-50): a
\* handler dies under it only when its call was served whole, or none can come.
HandlerHasOneHolder ==
  \A h \in Handlers :
    LET ops == {op \in Outstanding : op[1] = h}
        threads == {p \in Pollers : InHandler(p, h)}
    IN  IF h \in alive
          THEN \/ threads = {} /\ \E op \in ops : ops = {op}
               \/ ops = {} /\ \E p \in threads : threads = {p}
          ELSE /\ ops = {} /\ threads = {}
               /\ \A p \in Pollers : builds[p] = h => answers[h] = 1 \/ ~up

\* While the server is up exactly one handler listens: it waits for a request, or
\* has just got one and is about to construct its replacement. So no request is
\* left without a handler, and no handler is left over.
OneListener ==
  LET listening == {h \in alive :
        \/ <<h, "request">> \in Outstanding
        \/ \E p \in Pollers : at[p] = h /\ pc[p] = "dispatch" /\ h \notin done}
  IN  up => \E h \in listening : listening = {h}

\* Whichever threads poll and whenever the server shuts down, no two threads or tags
\* meet in a handler, none is forgotten, and one waits for the next request (server_async.hpp:53-84).
HandlersAreInPlace == HandlerHasOneHolder /\ OneListener

\* A handler goes away only after it has answered the call it accepted, once; a
\* server that is shut down does not drop a call that had come in before.
AnsweredOnce ==
  \A h \in Handlers :
    /\ answers[h] <= 1
    /\ h \in accepted /\ h \notin alive => answers[h] = 1
===============================================================================
