------------------------ MODULE AsyncServerStreamCall -------------------------
(***************************************************************************)
(* egrpc::AsyncServerStreamCall (server_async_stream.hpp): calls that the    *)
(* server answers with a stream. A handler asks grpc for the next request,   *)
(* replaces itself when it comes, fills its range with init_call_ and then    *)
(* writes one item per completion until the range is used up. Threads poll    *)
(* the queue and call serve() on a completion that is ok and shutdown() on    *)
(* one that is not, as in egrpc/test/main.cpp:742-797.                       *)
(*                                                                         *)
(* Handlers are numbered as they are constructed. An operation is            *)
(* <<handler, kind>>, kind being "request", "write" or "finish".             *)
(*                                                                         *)
(* A stream may be cut short: its client goes away, so that an operation      *)
(* comes back not ok, or the program calls shutdown() on a handler between    *)
(* two of its writes, as egrpc/test/main.cpp:1039-1040 does. A tag that comes *)
(* back after its handler was deleted is not dispatched here: what the       *)
(* program does with it is undefined.                                       *)
(*                                                                         *)
(* Not part of the contract: callbacks that throw, and a write_call_ that     *)
(* moves the iterator it is given.                                          *)
(***************************************************************************)
EXTENDS CompletionQueue, Naturals, Sequences, FiniteSetsExt

CONSTANTS
  MaxRpcs,  \* how many calls clients make
  Items,    \* how many items init_call_ puts into the range
  Pollers,  \* the threads that poll the completion queue
  None

ASSUME BoundsAreNatural == MaxRpcs \in Nat /\ Items \in Nat

\* One handler for each call and the one that waits for the next.
Handlers == 1 .. MaxRpcs + 1

ASSUME NoneIsNoHandler == None \notin Handlers

VARIABLES
  up,        \* the server is not shut down
  born,      \* how many handlers were constructed
  alive,     \* the handlers that are not deleted
  status,    \* status_ of each handler
  wanted,    \* the items of each handler's range that write_call_ will write
  it,        \* how many items of its range each handler has passed
  written,   \* the items each handler has written, in order
  verdict,   \* of each call: "none", or what finish told the client
  cut,       \* history: the handlers whose streams were cut short
  pc,        \* where each polling thread is
  at,        \* the handler it is in
  flag,      \* the ok it was given
  next,      \* the operation it is about to start
  builds     \* the handler whose constructor it is in

vars == <<started, events, up, born, alive, status, wanted, it, written, verdict, cut, pc,
          at, flag, next, builds>>

handlerVars == <<status, wanted, it, written, verdict>>
pollerVars == <<pc, at, flag, next, builds>>

-------------------------------------------------------------------------------

\* grpc: a client makes the call that handler h asked for.
ClientCalls(h) ==
  /\ up
  /\ born <= MaxRpcs
  /\ CompleteOp(<<h, "request">>, TRUE)
  /\ UNCHANGED <<up, born, alive, handlerVars, cut, pollerVars>>

\* server->Shutdown(): the requests that nobody made come back not ok.
ServerShutdown ==
  /\ up
  /\ up' = FALSE
  /\ LET requests == {op \in started : op[2] = "request"} IN
       /\ started' = started \ requests
       /\ events' = events \cup {[op |-> op, ok |-> FALSE] : op \in requests}
  /\ UNCHANGED <<born, alive, handlerVars, cut, pollerVars>>

\* grpc has sent a message or the status, or found the client gone.
Sent(h, ok) ==
  /\ \/ CompleteOp(<<h, "write">>, ok)
     \/ CompleteOp(<<h, "finish">>, ok)
  /\ cut' = IF ok THEN cut ELSE cut \cup {h}
  /\ UNCHANGED <<up, born, alive, handlerVars, pollerVars>>

Poll(p, e) ==
  /\ pc[p] = "next"
  /\ e.op[1] \in alive
  /\ TakeEvent(e)
  /\ pc' = [pc EXCEPT ![p] = "dispatch"]
  /\ at' = [at EXCEPT ![p] = e.op[1]]
  /\ flag' = [flag EXCEPT ![p] = e.ok]
  /\ UNCHANGED <<started, up, born, alive, handlerVars, cut, next, builds>>

\* A bug: no handler is constructed for the next request.
MutReplace == UNCHANGED <<started, events, born, alive>>

\* The constructor asks for a request; a server that is down answers at once.
Replace ==
  LET request == <<born + 1, "request">> IN
    /\ born' = born + 1
    /\ alive' = alive \cup {born + 1}
    /\ IF up
         THEN StartOp(request) /\ UNCHANGED events
         ELSE events' = events \cup {[op |-> request, ok |-> FALSE]} /\ UNCHANGED started

Starting(h) == status[h] = "STARTUP"

\* case STARTUP begins with the replacement.
ServeReplace(p) ==
  /\ pc[p] = "dispatch"
  /\ flag[p]
  /\ Starting(at[p])
  /\ Replace
  /\ pc' = [pc EXCEPT ![p] = "created"]
  /\ builds' = [builds EXCEPT ![p] = born + 1]
  /\ UNCHANGED <<up, handlerVars, cut, at, flag, next>>

\* The constructor's last statement logs through the new handler's logger_, although
\* the handler's request was started before and may have been served meanwhile.
Created(p) ==
  /\ pc[p] = "created"
  /\ pc' = [pc EXCEPT ![p] = "init"]
  /\ builds' = [builds EXCEPT ![p] = None]
  /\ UNCHANGED <<cqVars, up, born, alive, handlerVars, cut, at, flag, next>>

\* A bug: serve() starts a write or finishes and does not return.
MutAfterOp == "dispatch"

\* serve() returns once it has started an operation.
AfterOp == "next"

\* Poller p will start the operation of the given kind as the last thing in serve().
WillStart(p, kind) ==
  /\ next' = [next EXCEPT ![p] = kind]
  /\ pc' = [pc EXCEPT ![p] = "op"]

Finish(p, outcome) ==
  /\ status' = [status EXCEPT ![at[p]] = "FINISH"]
  /\ verdict' = [verdict EXCEPT ![at[p]] = outcome]
  /\ WillStart(p, "finish")

\* init_call_ fails: its status goes to the client.
ServeInitFails(p) ==
  /\ pc[p] = "init"
  /\ Finish(p, "error")
  /\ UNCHANGED <<cqVars, up, born, alive, wanted, it, written, cut, at, flag, builds>>

\* init_call_ fills the range, and it_ is at its begin.
ServeInit(p, items) ==
  /\ pc[p] = "init"
  /\ wanted' = [wanted EXCEPT ![at[p]] = items]
  /\ pc' = [pc EXCEPT ![p] = "process"]
  /\ UNCHANGED <<cqVars, up, born, alive, status, it, written, verdict, cut, at, flag, next, builds>>

\* A bug: it_ stays on the item that was written.
MutRest(h) == {i \in wanted[h] : i >= it[h]}

\* The items that are still to be written.
Rest(h) == {i \in wanted[h] : i > it[h]}

\* case PROCESS, after a write or straight from STARTUP: items are passed over
\* until write_call_ writes one or the range ends.
ServeProcess(p) ==
  /\ \/ pc[p] = "process"
     \/ pc[p] = "dispatch" /\ flag[p] /\ status[at[p]] = "PROCESS"
  /\ LET h == at[p] IN
       IF Rest(h) # {}
         THEN /\ status' = [status EXCEPT ![h] = "PROCESS"]
              /\ it' = [it EXCEPT ![h] = Min(Rest(h))]
              /\ written' = [written EXCEPT ![h] = Append(@, Min(Rest(h)))]
              /\ WillStart(p, "write")
              /\ UNCHANGED verdict
         ELSE /\ it' = [it EXCEPT ![h] = Items]
              /\ Finish(p, "ok")
              /\ UNCHANGED written
  /\ UNCHANGED <<cqVars, up, born, alive, wanted, cut, at, flag, builds>>

Start(p) ==
  /\ pc[p] = "op"
  /\ StartOp(<<at[p], next[p]>>)
  /\ pc' = [pc EXCEPT ![p] = AfterOp]
  /\ UNCHANGED <<events, up, born, alive, handlerVars, cut, at, flag, next, builds>>

\* A bug: a handler that has finished is kept.
MutDeletesOpen(h) == status[h] # "FINISH"

Deletes(h) == TRUE

\* shutdown(): a handler that is streaming finishes with CANCELLED, and it is
\* deleted at once, although the operation has just been started with its address.
ShutdownBody(h) ==
  /\ IF status[h] = "PROCESS"
       THEN /\ StartOp(<<h, "finish">>)
            /\ verdict' = [verdict EXCEPT ![h] = "cancelled"]
       ELSE UNCHANGED <<started, verdict>>
  /\ alive' = IF Deletes(h) THEN alive \ {h} ELSE alive

\* From serve() in case FINISH, or from the thread that polls.
Shutdown(p) ==
  /\ pc[p] = "dispatch"
  /\ flag[p] => status[at[p]] = "FINISH"
  /\ ShutdownBody(at[p])
  /\ pc' = [pc EXCEPT ![p] = "next"]
  /\ UNCHANGED <<events, up, born, status, wanted, it, written, cut, at, flag, next, builds>>

\* The program calls shutdown() on a handler that no thread is in.
EarlyShutdown(h) ==
  /\ h \in alive
  /\ status[h] = "PROCESS"
  /\ \A p \in Pollers : pc[p] = "next" \/ at[p] # h
  /\ ShutdownBody(h)
  /\ cut' = cut \cup {h}
  /\ UNCHANGED <<events, up, born, status, wanted, it, written, pollerVars>>

-------------------------------------------------------------------------------

\* The program has constructed the first handler.
Init ==
  /\ started = {<<1, "request">>}
  /\ events = {}
  /\ up = TRUE
  /\ born = 1
  /\ alive = {1}
  /\ status = [h \in Handlers |-> "STARTUP"]
  /\ wanted = [h \in Handlers |-> {}]
  /\ it = [h \in Handlers |-> 0]
  /\ written = [h \in Handlers |-> <<>>]
  /\ verdict = [h \in Handlers |-> "none"]
  /\ cut = {}
  /\ pc = [p \in Pollers |-> "next"]
  /\ at = [p \in Pollers |-> None]
  /\ flag = [p \in Pollers |-> FALSE]
  /\ next = [p \in Pollers |-> "write"]
  /\ builds = [p \in Pollers |-> None]

Serve(p) ==
  \/ ServeReplace(p)
  \/ Created(p)
  \/ ServeInitFails(p)
  \/ \E items \in SUBSET (1 .. Items) : ServeInit(p, items)
  \/ ServeProcess(p)
  \/ Start(p)
  \/ Shutdown(p)

Next ==
  \/ ServerShutdown
  \/ \E h \in Handlers :
       ClientCalls(h) \/ EarlyShutdown(h) \/ \E ok \in BOOLEAN : Sent(h, ok)
  \/ \E p \in Pollers : Serve(p) \/ \E e \in events : Poll(p, e)

Spec == Init /\ [][Next]_vars

\* grpc completes what was started, and the threads keep polling and serving.
\* Nobody has to call, and nobody has to shut anything down.
Fairness ==
  /\ \A h \in Handlers : WF_vars(\E ok \in BOOLEAN : Sent(h, ok))
  /\ WF_vars(\E p \in Pollers, e \in events : Poll(p, e))
  /\ \A p \in Pollers : WF_vars(Serve(p))

FairSpec == Spec /\ Fairness

-------------------------------------------------------------------------------

InHandler(p, h) == pc[p] # "next" /\ at[p] = h

\* However many threads poll, a living handler is in the hands of exactly one of
\* them or has exactly one operation outstanding, and a deleted one has neither,
\* unless its stream was cut short: then its tag may come back after it. A thread that
\* is still in the constructor comes on top (server_async_stream.hpp:54-55): a handler
\* dies under it only when its stream was finished, or none can come.
HandlerHasOneHolder ==
  \A h \in Handlers \ cut :
    LET ops == {op \in Outstanding : op[1] = h}
        threads == {p \in Pollers : InHandler(p, h)}
    IN  IF h \in alive
          THEN \/ threads = {} /\ \E op \in ops : ops = {op}
               \/ ops = {} /\ \E p \in threads : threads = {p}
          ELSE /\ ops = {} /\ threads = {}
               /\ \A p \in Pollers : builds[p] = h => verdict[h] # "none" \/ ~up

\* While the server is up exactly one handler listens, even if streams are cut
\* short: it waits for a request, or has just got one and is about to construct
\* its replacement.
OneListener ==
  LET listening == {h \in alive :
        \/ <<h, "request">> \in Outstanding
        \/ \E p \in Pollers : at[p] = h /\ pc[p] = "dispatch" /\ status[h] = "STARTUP"}
  IN  up => \E h \in listening : listening = {h}

\* Whichever threads poll and whenever the server shuts down, no two threads or tags
\* meet in a handler, none is forgotten, and one waits for the next request (server_async_stream.hpp:57-127).
HandlersAreInPlace == HandlerHasOneHolder /\ OneListener

\* The client gets the items in the order of the range and none twice, whichever
\* threads write them, and if the server ends the stream with OK it got them all.
ItemsInOrder ==
  \A h \in Handlers :
    /\ \A i, k \in DOMAIN written[h] : i < k => written[h][i] < written[h][k]
    /\ verdict[h] = "ok" => wanted[h] = {written[h][i] : i \in DOMAIN written[h]}

\* Every call that comes in, which shows by its handler's replacement, gets its
\* status, and its handler goes away.
CallFinished ==
  \A h \in Handlers : (h < born) ~> (verdict[h] # "none" /\ h \notin alive)
===============================================================================
