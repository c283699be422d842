----------------------------- MODULE AsyncClient ------------------------------
(***************************************************************************)
(* egrpc::AsyncClientHandler (client_async.hpp) with its base iClientHandler *)
(* and wait_for (iclient_async.hpp, src/iclient_async.cpp): unary calls that *)
(* are retried. A handler serves one attempt: the constructor starts the     *)
(* operation, a polling thread takes its completion and calls handle(),      *)
(* which deletes the handler. The promise of the call is handed from attempt *)
(* to attempt, and the destructor of the handler that still holds it sets    *)
(* it. One thread waits for the promises of all calls, one after the other.  *)
(*                                                                         *)
(* Attempt a of a call is the handler with nretries_ = Retries - a.          *)
(*                                                                         *)
(* A callback that throws takes the thread out of handle(); the loop around    *)
(* it belongs to the program, which is taken to go on polling.               *)
(*                                                                         *)
(* Not part of the contract: an init function that throws, and waiting twice *)
(* for one promise.                                                         *)
(***************************************************************************)
EXTENDS CompletionQueue, Naturals, Sequences

CONSTANTS
  Calls,    \* the calls that are made
  Retries,  \* nretries_ of the first handler of a call
  Pollers,  \* the threads that poll the completion queue
  WaitList, \* the calls in the order of the list given to wait_for
  None

ASSUME RetriesIsNatural == Retries \in Nat

ASSUME WaitListIsOfCalls == WaitList \in Seq(Calls)

Attempts == 0 .. Retries

VARIABLES
  made,      \* the attempts of each call whose handler was constructed
  alive,     \* the handlers, as <<call, attempt>>, not yet deleted
  holds,     \* the attempts of each call whose complete_promise_ is not null
  promise,   \* of each call: "empty", "ok" (set to nullptr) or "error"
  setTwice,  \* a set_value threw in a destructor
  replies,   \* how often the callback of each call has run
  threw,     \* the calls whose callback has thrown
  pc,        \* where each polling thread is
  at,        \* the handler it is in
  toWait,    \* promises: what wait_for has not waited for yet
  reported   \* the calls whose error went to err_handle

vars == <<started, events, made, alive, holds, promise, setTwice, replies, threw, pc,
          at, toWait, reported>>

waiterVars == <<toWait, reported>>

-------------------------------------------------------------------------------

\* A bug: the promise is reset before it is handed on, so a retry gets none.
MutConstruct(c, a) ==
  /\ made' = [made EXCEPT ![c] = @ \cup {a}]
  /\ alive' = alive \cup {<<c, a>>}
  /\ holds' = IF a = 0 THEN [holds EXCEPT ![c] = {0}] ELSE holds
  /\ StartOp(<<c, a>>)

\* The constructor of attempt a of call c; init_ starts the operation.
Construct(c, a) ==
  /\ made' = [made EXCEPT ![c] = @ \cup {a}]
  /\ alive' = alive \cup {<<c, a>>}
  /\ holds' = [holds EXCEPT ![c] = @ \cup {a}]
  /\ StartOp(<<c, a>>)

Begin(c) ==
  /\ made[c] = {}
  /\ Construct(c, 0)
  /\ UNCHANGED <<events, promise, setTwice, replies, threw, pc, at, waiterVars>>

\* grpc completes an attempt; the flag stands for status_.ok(), which handle()
\* looks at instead of the completion's own flag.
Respond(op, ok) ==
  /\ CompleteOp(op, ok)
  /\ UNCHANGED <<made, alive, holds, promise, setTwice, replies, threw, pc, at, waiterVars>>

\* nretries_ > 0
MayRetry(a) == a < Retries

\* A thread takes a completion and enters handle().
Poll(p, e) ==
  /\ pc[p] = "next"
  /\ TakeEvent(e)
  /\ at' = [at EXCEPT ![p] = e.op]
  /\ pc' = [pc EXCEPT ![p] = IF e.ok THEN "callback"
                             ELSE IF MayRetry(e.op[2]) THEN "retry" ELSE "fail"]
  /\ UNCHANGED <<started, made, alive, holds, promise, setTwice, replies, threw, waiterVars>>

Callback(p) ==
  /\ pc[p] = "callback"
  /\ replies' = [replies EXCEPT ![at[p][1]] = @ + 1]
  /\ pc' = [pc EXCEPT ![p] = "delete"]
  /\ UNCHANGED <<cqVars, made, alive, holds, promise, setTwice, threw, at, waiterVars>>

\* The exception skips delete this: the handler keeps the promise and is lost.
CallbackThrows(p) ==
  /\ pc[p] = "callback"
  /\ replies' = [replies EXCEPT ![at[p][1]] = @ + 1]
  /\ threw' = threw \cup {at[p][1]}
  /\ pc' = [pc EXCEPT ![p] = "next"]
  /\ at' = [at EXCEPT ![p] = None]
  /\ UNCHANGED <<cqVars, made, alive, holds, promise, setTwice, waiterVars>>

\* The next attempt is constructed while this one still holds the promise.
Retry(p) ==
  /\ pc[p] = "retry"
  /\ Construct(at[p][1], at[p][2] + 1)
  /\ pc' = [pc EXCEPT ![p] = "release"]
  /\ UNCHANGED <<events, promise, setTwice, replies, threw, at, waiterVars>>

\* A bug: complete_promise_ is not reset after the hand-over.
MutReleased(c, a) == holds[c]

\* The holders of the promise of c without attempt a.
Released(c, a) == holds[c] \ {a}

\* complete_promise_ = nullptr
Release(p) ==
  /\ pc[p] = "release"
  /\ holds' = [holds EXCEPT ![at[p][1]] = Released(at[p][1], at[p][2])]
  /\ pc' = [pc EXCEPT ![p] = "delete"]
  /\ UNCHANGED <<cqVars, made, alive, promise, setTwice, replies, threw, at, waiterVars>>

\* A bug: error_ is left null after the last attempt.
MutOutcome(p) == "ok"

\* error_ is set in the branch that gives up and nowhere else.
Outcome(p) == IF pc[p] = "fail" THEN "error" ELSE "ok"

\* delete this: a handler that still has the promise sets it to error_.
Delete(p) ==
  /\ pc[p] \in {"delete", "fail"}
  /\ LET c == at[p][1]
         a == at[p][2]
     IN /\ alive' = alive \ {<<c, a>>}
        /\ holds' = [holds EXCEPT ![c] = @ \ {a}]
        /\ IF a \notin holds[c]
             THEN UNCHANGED <<promise, setTwice>>
             ELSE IF promise[c] = "empty"
               THEN promise' = [promise EXCEPT ![c] = Outcome(p)] /\ UNCHANGED setTwice
               ELSE setTwice' = TRUE /\ UNCHANGED promise
  /\ pc' = [pc EXCEPT ![p] = "next"]
  /\ at' = [at EXCEPT ![p] = None]
  /\ UNCHANGED <<cqVars, made, replies, threw, waiterVars>>

\* A bug: wait_for goes on although the future timed out.
MutReady(c) == TRUE

Ready(c) == promise[c] # "empty"

\* wait_for(promises, err_handle) once every call is begun: the front of the list
\* is waited for, its error reported, and it is taken off.
WaitFront ==
  /\ \A c \in Calls : made[c] # {}
  /\ toWait # <<>>
  /\ Ready(Head(toWait))
  /\ toWait' = Tail(toWait)
  /\ reported' = IF promise[Head(toWait)] = "error"
                   THEN reported \cup {Head(toWait)}
                   ELSE reported
  /\ UNCHANGED <<cqVars, made, alive, holds, promise, setTwice, replies, threw, pc, at>>

-------------------------------------------------------------------------------

Init ==
  /\ CQInit
  /\ made = [c \in Calls |-> {}]
  /\ alive = {}
  /\ holds = [c \in Calls |-> {}]
  /\ promise = [c \in Calls |-> "empty"]
  /\ setTwice = FALSE
  /\ replies = [c \in Calls |-> 0]
  /\ threw = {}
  /\ pc = [p \in Pollers |-> "next"]
  /\ at = [p \in Pollers |-> None]
  /\ toWait = WaitList
  /\ reported = {}

Handle(p) == Callback(p) \/ CallbackThrows(p) \/ Retry(p) \/ Release(p) \/ Delete(p)

Next ==
  \/ \E c \in Calls : Begin(c)
  \/ \E op \in started, ok \in BOOLEAN : Respond(op, ok)
  \/ \E p \in Pollers : Handle(p) \/ \E e \in events : Poll(p, e)
  \/ WaitFront

Spec == Init /\ [][Next]_vars

\* Every attempt completes (it has a deadline, iclient.hpp:43-50), the threads keep
\* polling and carry handle() through, and the waiting thread goes on.
Fairness ==
  /\ WF_vars(\E op \in started, ok \in BOOLEAN : Respond(op, ok))
  /\ WF_vars(\E p \in Pollers, e \in events : Poll(p, e))
  /\ \A p \in Pollers : WF_vars(Handle(p))
  /\ WF_vars(WaitFront)

FairSpec == Spec /\ Fairness

-------------------------------------------------------------------------------

\* Type invariant.
TypeOK ==
  /\ started \subseteq Calls \X Attempts
  /\ events \subseteq [op : Calls \X Attempts, ok : BOOLEAN]
  /\ made \in [Calls -> SUBSET Attempts]
  /\ alive \subseteq Calls \X Attempts
  /\ holds \in [Calls -> SUBSET Attempts]
  /\ promise \in [Calls -> {"empty", "ok", "error"}]
  /\ setTwice \in BOOLEAN
  /\ replies \in [Calls -> 0 .. Retries + 1]
  /\ threw \subseteq Calls
  /\ pc \in [Pollers -> {"next", "callback", "retry", "release", "delete", "fail"}]
  /\ at \in [Pollers -> (Calls \X Attempts) \cup {None}]
  /\ toWait \in Seq(Calls)
  /\ reported \subseteq Calls

\* The handler that is to set the promise: no call is ever without one, so none is
\* forgotten, and only the two sides of a hand-over overlap.
PromiseIsInGoodHands ==
  \A c \in Calls :
    LET releasing == {a \in holds[c] : \E p \in Pollers : at[p] = <<c, a>> /\ pc[p] = "release"}
    IN  (made[c] # {} /\ promise[c] = "empty") =>
          \E a \in holds[c] : /\ <<c, a>> \in alive
                              /\ holds[c] \ {a} \subseteq releasing \ {a}
                              /\ a \notin releasing

\* Two handlers of a call hold its promise while it is handed over, and either may be
\* deleted first, yet the promise is set once (client_async.hpp:47-49 against
\* iclient_async.hpp:31-37). Then the call is over: no attempt is under way, no
\* callback is to come, and the result is the truth about the attempts: success if
\* the callback ran, an error if every attempt failed.
SetPromiseIsFinal ==
  /\ ~setTwice
  /\ \A c \in Calls : promise[c] # "empty" =>
       /\ \A op \in Outstanding : op[1] # c
       /\ \A p \in Pollers : at[p] # None /\ at[p][1] = c => pc[p] \notin {"callback", "retry"}
       /\ promise[c] = "ok" => replies[c] = 1
       /\ promise[c] = "error" => replies[c] = 0 /\ made[c] = Attempts

\* wait_for returns once every call is begun, however many attempts fail, and by
\* then it has reported the errors, all of them and nothing else. It hangs only at a
\* call whose callback has thrown (src/iclient_async.cpp:8-32, client_async.hpp:37).
WaitReturns ==
  (\A c \in Calls : made[c] # {})
    ~> \/ toWait = <<>> /\ reported = {c \in Calls : promise[c] = "error"}
       \/ toWait # <<>> /\ Head(toWait) \in threw

RC == INSTANCE RemoteCalls WITH
        answers <- replies,
        result <- [c \in Calls |-> IF promise[c] = "empty" THEN "open" ELSE promise[c]]

\* The retries are invisible to the caller.
ImplementsRemoteCalls == RC!Spec
===============================================================================
