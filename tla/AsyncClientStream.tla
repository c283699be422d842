-------------------------- MODULE AsyncClientStream ---------------------------
(***************************************************************************)
(* egrpc::AsyncClientStreamHandler (client_async_stream.hpp): one handler    *)
(* reads the answers of a server stream. Whoever makes the call constructs   *)
(* it, sets reader_ and starts the call with the handler as tag; after that  *)
(* each completion is taken by one of several polling threads, whose         *)
(* handle() ends by starting the next operation or by deleting the handler.  *)
(*                                                                         *)
(* An operation is <<call, kind>>, kind being "start", "read" or "finish".   *)
(*                                                                         *)
(* Not part of the contract: a handler function that throws.               *)
(***************************************************************************)
EXTENDS CompletionQueue, Naturals

CONSTANTS
  Calls,       \* the calls that are made
  Pollers,     \* the threads that poll the completion queue
  MaxAnswers,  \* the most answers a server sends in one call
  None

ASSUME MaxAnswersIsNatural == MaxAnswers \in Nat

VARIABLES
  begun,        \* the calls that were started
  alive,        \* the calls whose handler is not deleted
  call_status,  \* call_status_ of each handler
  sent,         \* how many answers of each call grpc put into reply_
  failed,       \* the calls whose status_ is not ok
  replies,      \* how many answers went to the handler function
  promise,      \* of each call: "empty", "ok" or "error"
  pc,           \* where each polling thread is
  at,           \* the handler it is in
  flag,         \* the event_status it was given
  next          \* the kind of operation it is about to start

vars == <<started, events, begun, alive, call_status, sent, failed, replies, promise,
          pc, at, flag, next>>

serverVars == <<sent, failed>>
pollerVars == <<pc, at, flag, next>>

-------------------------------------------------------------------------------

Begin(c) ==
  /\ c \notin begun
  /\ begun' = begun \cup {c}
  /\ alive' = alive \cup {c}
  /\ StartOp(<<c, "start">>)
  /\ UNCHANGED <<events, call_status, serverVars, replies, promise, pollerVars>>

\* grpc: the call may not come up, a read brings an answer or the end of the
\* stream, and the last operation always succeeds and fills status_.
RespondStart(c, ok) ==
  /\ CompleteOp(<<c, "start">>, ok)
  /\ UNCHANGED <<begun, alive, call_status, serverVars, replies, promise, pollerVars>>

RespondRead(c, ok) ==
  /\ CompleteOp(<<c, "read">>, ok)
  /\ ok => sent[c] < MaxAnswers
  /\ sent' = [sent EXCEPT ![c] = IF ok THEN @ + 1 ELSE @]
  /\ UNCHANGED <<begun, alive, call_status, failed, replies, promise, pollerVars>>

RespondFinish(c, good) ==
  /\ CompleteOp(<<c, "finish">>, TRUE)
  /\ failed' = IF good THEN failed ELSE failed \cup {c}
  /\ UNCHANGED <<begun, alive, call_status, sent, replies, promise, pollerVars>>

\* A thread takes a completion and enters handle().
Poll(p, e) ==
  /\ pc[p] = "next"
  /\ TakeEvent(e)
  /\ pc' = [pc EXCEPT ![p] = "handle"]
  /\ at' = [at EXCEPT ![p] = e.op[1]]
  /\ flag' = [flag EXCEPT ![p] = e.ok]
  /\ UNCHANGED <<started, begun, alive, call_status, serverVars, replies, promise, next>>

\* Poller p leaves its handler in the given status and will start the operation.
Proceed(p, status, kind) ==
  /\ call_status' = [call_status EXCEPT ![at[p]] = status]
  /\ next' = [next EXCEPT ![p] = kind]
  /\ pc' = [pc EXCEPT ![p] = "op"]

HandleStartup(p) ==
  /\ pc[p] = "handle"
  /\ call_status[at[p]] = "STARTUP"
  /\ IF flag[p] THEN Proceed(p, "PROCESS", "read") ELSE Proceed(p, "FINISH", "finish")
  /\ UNCHANGED <<cqVars, begun, alive, serverVars, replies, promise, at, flag>>

\* A bug: the answer is dropped when the next read is started.
MutDelivered(p) == IF flag[p] /\ replies[at[p]] = 0 THEN [replies EXCEPT ![at[p]] = 1] ELSE replies

\* handler_(reply_), if the read brought an answer.
Delivered(p) == IF flag[p] THEN [replies EXCEPT ![at[p]] = @ + 1] ELSE replies

HandleProcess(p) ==
  /\ pc[p] = "handle"
  /\ call_status[at[p]] = "PROCESS"
  /\ replies' = Delivered(p)
  /\ IF flag[p] THEN Proceed(p, "PROCESS", "read") ELSE Proceed(p, "FINISH", "finish")
  /\ UNCHANGED <<cqVars, begun, alive, serverVars, promise, at, flag>>

\* A bug: the handler stays in use after the operation was started.
MutAfterStart == "handle"

\* A bug: the stream is read to its end but not finished.
MutStartNext(p) ==
  IF next[p] = "read" THEN StartOp(<<at[p], "read">>) ELSE UNCHANGED started

\* reader_->Read or reader_->Finish
StartNext(p) == StartOp(<<at[p], next[p]>>)

\* Starting the operation is the last thing handle() does.
AfterStart == "next"

Start(p) ==
  /\ pc[p] = "op"
  /\ StartNext(p)
  /\ pc' = [pc EXCEPT ![p] = AfterStart]
  /\ UNCHANGED <<events, begun, alive, call_status, serverVars, replies, promise, at, flag,
                 next>>

\* error_ is set if status_ is not ok; the destructor hands it to the promise.
Outcome(c) == IF c \in failed THEN "error" ELSE "ok"

HandleFinish(p) ==
  /\ pc[p] = "handle"
  /\ call_status[at[p]] = "FINISH"
  /\ promise' = [promise EXCEPT ![at[p]] = Outcome(at[p])]
  /\ alive' = alive \ {at[p]}
  /\ pc' = [pc EXCEPT ![p] = "next"]
  /\ UNCHANGED <<cqVars, begun, call_status, serverVars, replies, at, flag, next>>

-------------------------------------------------------------------------------

Init ==
  /\ CQInit
  /\ begun = {}
  /\ alive = {}
  /\ call_status = [c \in Calls |-> "STARTUP"]
  /\ sent = [c \in Calls |-> 0]
  /\ failed = {}
  /\ replies = [c \in Calls |-> 0]
  /\ promise = [c \in Calls |-> "empty"]
  /\ pc = [p \in Pollers |-> "next"]
  /\ at = [p \in Pollers |-> None]
  /\ flag = [p \in Pollers |-> FALSE]
  /\ next = [p \in Pollers |-> "read"]

Respond(c) ==
  \E ok \in BOOLEAN : RespondStart(c, ok) \/ RespondRead(c, ok) \/ RespondFinish(c, ok)

Handle(p) == HandleStartup(p) \/ HandleProcess(p) \/ Start(p) \/ HandleFinish(p)

Next ==
  \/ \E c \in Calls : Begin(c) \/ Respond(c)
  \/ \E p \in Pollers : Handle(p) \/ \E e \in events : Poll(p, e)

Spec == Init /\ [][Next]_vars

\* Every operation completes (the call has a deadline, iclient.hpp:43-50), and the
\* threads keep polling and carry handle() through.
Fairness ==
  /\ \A c \in Calls : WF_vars(Respond(c))
  /\ WF_vars(\E p \in Pollers, e \in events : Poll(p, e))
  /\ \A p \in Pollers : WF_vars(Handle(p))

FairSpec == Spec /\ Fairness

-------------------------------------------------------------------------------

InHandler(p, c) == pc[p] # "next" /\ at[p] = c

\* However many threads poll, a living handler is in the hands of exactly one of
\* them or has exactly one operation outstanding, and a deleted one has neither:
\* no two threads meet in handle() and none enters a deleted handler.
HandlerHasOneHolder ==
  \A c \in Calls :
    LET ops == {op \in Outstanding : op[1] = c}
        threads == {p \in Pollers : InHandler(p, c)}
    IN  IF c \in alive
          THEN \/ threads = {} /\ \E op \in ops : ops = {op}
               \/ ops = {} /\ \E p \in threads : threads = {p}
          ELSE ops = {} /\ threads = {}

\* When the promise is set every answer that grpc delivered has gone to the handler
\* function, and the promise tells how the call ended.
AnswersComeBeforePromise ==
  \A c \in Calls : promise[c] # "empty" =>
    /\ replies[c] = sent[c]
    /\ promise[c] = "error" <=> c \in failed

\* Every call that is begun ends, whether it comes up or not.
CallEnds == \A c \in Calls : (c \in begun) ~> (promise[c] # "empty" /\ c \notin alive)
===============================================================================
