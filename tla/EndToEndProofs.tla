---------------------------- MODULE EndToEndProofs ----------------------------
(***************************************************************************)
(* Theorems about AsyncServerCall, by itself and in EndToEnd, for any number *)
(* of calls and retries and any sets of polling threads.                     *)
(*                                                                         *)
(* The server by itself: a handler is in one place at a time (with grpc, in   *)
(* the queue, or with one thread), each place goes with a stage of the        *)
(* handler's call, and only the newest handler listens, which is why a        *)
(* replacement's number and address are always free. IInv says so; one lemma  *)
(* per conjunct shows that every action keeps it.                            *)
(*                                                                         *)
(* Client and server together: every step is one of the server, of the client *)
(* or of both, so each keeps its invariant, the client the one of             *)
(* AsyncClientProofs. WireInv ties them: an attempt reaches one handler, a     *)
(* handler says how its call went once, and the callback runs for a success   *)
(* that some handler said. So a call is carried out at most once per attempt,  *)
(* and at least once where it succeeds: AtLeastOnce.                         *)
(***************************************************************************)
EXTENDS EndToEnd, CompletionQueueProofs, FiniteSetTheorems

\* The places a handler can be in exclude each other.
PlacesApart ==
  /\ \A o1, o2 \in Outstanding : o1[1] = o2[1] => o1 = o2
  /\ \A p, q \in Pollers : pc[p] # "next" /\ InHandler(q, at[p]) => p = q
  /\ \A p \in Pollers : pc[p] # "next" => \A o \in Outstanding : o[1] # at[p]

\* What is somewhere lives, and what lives is somewhere.
AliveInPlaces ==
  /\ \A o \in Outstanding : o[1] \in alive
  /\ \A p \in Pollers : pc[p] # "next" => at[p] \in alive
  /\ \A h \in alive : (\E o \in Outstanding : o[1] = h) \/ \E p \in Pollers : InHandler(p, h)

\* How far the call of a handler is, by the place the handler is in.
HandlersProgress ==
  \A h \in Handlers :
    /\ <<h, "request">> \in Outstanding => h \notin done /\ answers[h] = 0
    /\ <<h, "finish">> \in Outstanding => h \in done /\ answers[h] = 1
    /\ <<h, "request">> \in started => h \notin accepted /\ up
    /\ h \notin 1 .. born => answers[h] = 0
    /\ h \in 1 .. born /\ h \notin alive => answers[h] = 1 \/ (h \notin accepted /\ ~up)

\* A request's completion is ok exactly if a client made the call.
EventsProgress ==
  \A e \in events :
    /\ e.op[2] = "request" /\ e.ok = TRUE => e.op[1] \in accepted
    /\ e.op[2] = "request" /\ e.ok = FALSE => e.op[1] \notin accepted /\ ~up

\* The same for the handler a thread is in, until the call is marked done.
ThreadsProgress ==
  \A p \in Pollers :
    /\ pc[p] = "dispatch" => (at[p] \in done <=> answers[at[p]] = 1)
    /\ pc[p] = "dispatch" /\ at[p] \notin done =>
         /\ flag[p] = TRUE => at[p] \in accepted
         /\ flag[p] = FALSE => at[p] \notin accepted /\ ~up
    /\ pc[p] \in {"created", "write"} => at[p] \notin done /\ answers[at[p]] = 0
    /\ pc[p] = "finish" => at[p] \in done /\ answers[at[p]] = 0
    /\ builds[p] # None => builds[p] \in 1 .. born

\* Handler h waits for a request, or has just got one.
Listening(h) ==
  \/ <<h, "request">> \in Outstanding
  \/ \E p \in Pollers : at[p] = h /\ pc[p] = "dispatch" /\ h \notin done

\* Only the newest handler listens.
ListenerIsNewest ==
  /\ \A h \in Handlers : Listening(h) => h = born
  /\ born \in accepted /\ Listening(born) => born <= MaxRpcs
  /\ up => Listening(born)

\* The inductive invariant.
IInv ==
  /\ TypeOK
  /\ QueueOK(Ops)
  /\ PlacesApart
  /\ AliveInPlaces
  /\ HandlersProgress
  /\ EventsProgress
  /\ ThreadsProgress
  /\ ListenerIsNewest

-------------------------------------------------------------------------------

\* What the invariant says of numbers.
LEMMA Numbers ==
  ASSUME IInv
  PROVE  /\ born \in Nat
         /\ 1 .. born \subseteq Handlers
         /\ alive \subseteq Handlers
         /\ Outstanding \subseteq Ops
         /\ \A p \in Pollers : pc[p] # "next" => at[p] \in 1 .. born /\ at[p] \in Handlers
         /\ \A o \in Outstanding : o[1] \in 1 .. born /\ o[1] \in Handlers
<1>1. TypeOK /\ AliveInPlaces /\ QueueOK(Ops)
  BY DEF IInv
<1>2. born \in Nat /\ 1 .. born \subseteq Handlers /\ alive \subseteq 1 .. born
  BY <1>1, MaxRpcsIsNatural DEF TypeOK, Handlers
<1>3. QED
  BY <1>1, <1>2, OutstandingOps DEF AliveInPlaces

\* A shutdown fails the requests that grpc has and keeps the rest.
LEMMA ShutdownQueue ==
  ASSUME IInv, ServerShutdown
  PROVE  /\ QueueOK(Ops)'
         /\ Outstanding' = Outstanding
         /\ started' \subseteq started
         /\ \A op \in started' : op[2] # "request"
         /\ \A e \in events' : e \in events \/ (e.op \in started /\ e.ok = FALSE)
<1> DEFINE requests == {op \in started : op[2] = "request"}
<1>1. /\ started' = started \ requests
      /\ events' = events \cup {[op |-> op, ok |-> FALSE] : op \in requests}
  BY DEF ServerShutdown
<1>2. QueueOK(Ops) /\ requests \in SUBSET started
  BY DEF IInv
<1>3. \A op \in started \ requests : op[2] # "request"
  OBVIOUS
<1> HIDE DEF requests
<1>4. /\ QueueOK(Ops)' /\ Outstanding' = Outstanding
      /\ \A e \in events' : e \in events \/ (e.op \in requests /\ e.ok = FALSE)
  BY <1>1, <1>2, Failing
<1>5. QED
  BY <1>1, <1>2, <1>3, <1>4

\* The replacement is made only while its number is free.
LEMMA ReplaceQueue ==
  ASSUME IInv, NEW p \in Pollers, ServeReplace(p)
  PROVE  /\ QueueOK(Ops)'
         /\ Outstanding' = Outstanding \cup {<<born + 1, "request">>}
         /\ up => started' = started \cup {<<born + 1, "request">>} /\ events' = events
         /\ ~up => started' = started
         /\ ~up => \A e \in events' : e \in events \/ (e.op = <<born + 1, "request">> /\ e.ok = FALSE)
         /\ born + 1 \in Handlers
         /\ at[p] = born
<1> USE Numbers
<1>1. pc[p] = "dispatch" /\ flag[p] = TRUE /\ at[p] \notin done
  BY DEF ServeReplace, IsDone, IInv, TypeOK
<1>2. Listening(at[p]) /\ at[p] \in Handlers
  BY <1>1 DEF Listening
<1>3. at[p] \in accepted /\ at[p] = born
  BY <1>1, <1>2 DEF IInv, ThreadsProgress, ListenerIsNewest
<1>4. born + 1 \in Handlers
  BY <1>2, <1>3, MaxRpcsIsNatural DEF IInv, ListenerIsNewest, Handlers
<1> DEFINE op == <<born + 1, "request">>
<1>5. op \in Ops /\ op \notin Outstanding
  BY <1>4 DEF Ops
<1>6. QueueOK(Ops)
  BY DEF IInv
<1>7. CASE up
  <2>1. StartOp(op) /\ UNCHANGED events
    BY <1>7 DEF ServeReplace, Replace
  <2> HIDE DEF op
  <2>2. QueueOK(Ops)' /\ Outstanding' = Outstanding \cup {op}
    BY <1>5, <1>6, <2>1, StartingOp
  <2>3. QED
    BY <1>3, <1>4, <1>7, <2>1, <2>2 DEF StartOp, op
<1>8. CASE ~up
  <2>1. events' = events \cup {[op |-> op, ok |-> FALSE]} /\ started' = started
    BY <1>8 DEF ServeReplace, Replace
  <2> HIDE DEF op
  <2>2. /\ QueueOK(Ops)' /\ Outstanding' = Outstanding \cup {op}
        /\ \A e \in events' : e \in events \/ (e.op = op /\ e.ok = FALSE)
    BY <1>5, <1>6, <2>1, Answering
  <2>3. QED
    BY <1>3, <1>4, <1>8, <2>1, <2>2 DEF op
<1>9. QED
  BY <1>7, <1>8

\* A handler finishes once, with no other operation under way.
LEMMA FinishQueue ==
  ASSUME IInv, NEW p \in Pollers, ServeFinish(p)
  PROVE  /\ QueueOK(Ops)'
         /\ Outstanding' = Outstanding \cup {<<at[p], "finish">>}
         /\ started' = started \cup {<<at[p], "finish">>}
         /\ events' = events
         /\ answers[at[p]] = 0 /\ at[p] \in done
<1> DEFINE op == <<at[p], "finish">>
<1>1. pc[p] = "finish" /\ StartOp(op) /\ UNCHANGED events
  BY DEF ServeFinish
<1>2. op \in Ops /\ op \notin Outstanding
  BY <1>1, Numbers DEF Ops, IInv, PlacesApart
<1>3. QueueOK(Ops) /\ answers[at[p]] = 0 /\ at[p] \in done
  BY <1>1 DEF IInv, ThreadsProgress
<1> HIDE DEF op
<1>4. QueueOK(Ops)' /\ Outstanding' = Outstanding \cup {op}
  BY <1>1, <1>2, <1>3, StartingOp
<1>5. QED
  BY <1>1, <1>3, <1>4 DEF StartOp, op

\* grpc completes an operation: it stays outstanding.
LEMMA CompleteQueue ==
  ASSUME IInv, NEW h \in Handlers, NEW kind, NEW ok \in BOOLEAN, CompleteOp(<<h, kind>>, ok)
  PROVE  /\ QueueOK(Ops)'
         /\ Outstanding' = Outstanding
         /\ started' \subseteq started
         /\ <<h, kind>> \in Outstanding /\ h \in 1 .. born
         /\ <<h, kind>> \in started /\ <<h, kind>> \notin started'
         /\ \A e \in events' : e \in events \/ (e.op = <<h, kind>> /\ e.ok = ok)
<1> DEFINE op == <<h, kind>>
<1>1. QueueOK(Ops) /\ CompleteOp(op, ok)
  BY DEF IInv
<1> HIDE DEF op
<1>2. /\ QueueOK(Ops)' /\ op \in started /\ Outstanding' = Outstanding
      /\ \A e \in events' : e \in events \/ (e.op = op /\ e.ok = ok)
  BY <1>1, Completing
<1>3. op \in Outstanding /\ started' \subseteq started /\ op \notin started'
  BY <1>1, <1>2 DEF CompleteOp, Outstanding
<1>4. op[1] = h
  BY DEF op
<1>5. QED
  BY <1>2, <1>3, <1>4, Numbers DEF op

\* The thread that takes a completion is alone with the handler.
LEMMA PollQueue ==
  ASSUME IInv, NEW p \in Pollers, NEW e \in events, Poll(p, e)
  PROVE  /\ QueueOK(Ops)'
         /\ e.op \in Outstanding
         /\ e.op \in Ops /\ e.op = <<e.op[1], e.op[2]>>
         /\ e.op[1] \in Handlers /\ e.op[1] \in alive
         /\ e.op[2] \in {"request", "finish"}
         /\ e.ok \in BOOLEAN
         /\ Outstanding' = Outstanding \ {e.op}
         /\ events' \subseteq events
<1>1. TakeEvent(e) /\ UNCHANGED started /\ QueueOK(Ops) /\ AliveInPlaces
  BY DEF Poll, IInv
<1>2. /\ QueueOK(Ops)' /\ e \in [op : Ops, ok : BOOLEAN] /\ e.op \in Outstanding
      /\ Outstanding' = Outstanding \ {e.op}
  BY <1>1, Taking
<1>3. QED
  BY <1>1, <1>2 DEF TakeEvent, AliveInPlaces, Ops

-------------------------------------------------------------------------------

\* The queue is used as CompletionQueueProofs asks for.
LEMMA QueueStep ==
  ASSUME IInv, [Next]_vars
  PROVE  QueueOK(Ops)'
<1>1. CASE ServerShutdown
  BY <1>1, ShutdownQueue
<1>2. ASSUME NEW h \in Handlers, ClientCalls(h)
      PROVE  QueueOK(Ops)'
  BY <1>2, CompleteQueue DEF ClientCalls
<1>3. ASSUME NEW h \in Handlers, NEW ok \in BOOLEAN, AnswerSent(h, ok)
      PROVE  QueueOK(Ops)'
  BY <1>3, CompleteQueue DEF AnswerSent
<1>4. ASSUME NEW p \in Pollers, NEW e \in events, Poll(p, e)
      PROVE  QueueOK(Ops)'
  BY <1>4, PollQueue
<1>5. ASSUME NEW p \in Pollers, ServeReplace(p)
      PROVE  QueueOK(Ops)'
  BY <1>5, ReplaceQueue
<1>6. ASSUME NEW p \in Pollers, ServeFinish(p)
      PROVE  QueueOK(Ops)'
  BY <1>6, FinishQueue
<1>7. CASE UNCHANGED cqVars
  BY <1>7, Resting DEF IInv
<1>8. QED
  BY <1>1, <1>2, <1>3, <1>4, <1>5, <1>6, <1>7
     DEF Next, Serve, Created, ServeWrite, Shutdown, vars, cqVars

\* Every step keeps the types.
LEMMA TypeStep ==
  ASSUME IInv, [Next]_vars
  PROVE  TypeOK'
<1>0. QueueOK(Ops)'
  BY QueueStep
<1>1. started' \subseteq Ops /\ events' \subseteq [op : Ops, ok : BOOLEAN]
  BY <1>0 DEF QueueOK
<1> USE <1>1, Numbers DEF IInv, TypeOK, pollerVars, cqVars
<1>2. CASE ServerShutdown
  BY <1>2 DEF ServerShutdown
<1>3. ASSUME NEW h \in Handlers, ClientCalls(h)
      PROVE  TypeOK'
  <2>1. h \in 1 .. born
    BY <1>3, CompleteQueue DEF ClientCalls
  <2>2. QED
    BY <1>3, <2>1 DEF ClientCalls
<1>4. ASSUME NEW h \in Handlers, NEW ok \in BOOLEAN, AnswerSent(h, ok)
      PROVE  TypeOK'
  BY <1>4 DEF AnswerSent
<1>5. ASSUME NEW p \in Pollers, NEW e \in events, Poll(p, e)
      PROVE  TypeOK'
  BY <1>5, PollQueue DEF Poll
<1>6. ASSUME NEW p \in Pollers, ServeReplace(p)
      PROVE  TypeOK'
  <2>1. born' = born + 1 /\ born + 1 \in Handlers /\ alive' = alive \cup {born + 1}
    BY <1>6, ReplaceQueue DEF ServeReplace, Replace
  <2>2. 1 .. born' = (1 .. born) \cup {born + 1}
    BY <2>1, Numbers
  <2>3. QED
    BY <1>6, <2>1, <2>2 DEF ServeReplace
<1>7. ASSUME NEW p \in Pollers, Created(p)
      PROVE  TypeOK'
  BY <1>7 DEF Created
<1>8. ASSUME NEW p \in Pollers, NEW good \in BOOLEAN, ServeWrite(p, good)
      PROVE  TypeOK'
  BY <1>8 DEF ServeWrite, Marked
<1>9. ASSUME NEW p \in Pollers, ServeFinish(p)
      PROVE  TypeOK'
  <2>1. answers[at[p]] = 0 /\ at[p] \in Handlers
    BY <1>9, FinishQueue DEF ServeFinish
  <2>2. answers' \in [Handlers -> {0, 1}]
    BY <1>9, <2>1 DEF ServeFinish
  <2>3. QED
    BY <1>9, <2>2 DEF ServeFinish, AfterFinish
<1>10. ASSUME NEW p \in Pollers, Shutdown(p)
       PROVE  TypeOK'
  BY <1>10 DEF Shutdown, Deletes
<1>11. CASE UNCHANGED vars
  BY <1>11 DEF vars
<1>12. QED
  BY <1>2, <1>3, <1>4, <1>5, <1>6, <1>7, <1>8, <1>9, <1>10, <1>11 DEF Next, Serve

\* No two operations or threads meet in a handler.
LEMMA PlacesStep ==
  ASSUME IInv, [Next]_vars
  PROVE  PlacesApart'
<1> USE Numbers DEF PlacesApart, InHandler
<1>0. /\ PlacesApart
      /\ pc \in [Pollers -> {"next", "dispatch", "created", "write", "finish"}]
      /\ at \in [Pollers -> Handlers \cup {None}]
  BY DEF IInv, TypeOK
<1>1. CASE UNCHANGED <<Outstanding, pc, at>>
  BY <1>0, <1>1
<1>2. CASE ServerShutdown
  BY <1>1, <1>2, ShutdownQueue DEF ServerShutdown, pollerVars
<1>3. ASSUME NEW h \in Handlers, ClientCalls(h)
      PROVE  PlacesApart'
  BY <1>1, <1>3, CompleteQueue DEF ClientCalls, pollerVars
<1>4. ASSUME NEW h \in Handlers, NEW ok \in BOOLEAN, AnswerSent(h, ok)
      PROVE  PlacesApart'
  BY <1>1, <1>4, CompleteQueue DEF AnswerSent, pollerVars
<1>5. ASSUME NEW p \in Pollers, NEW e \in events, Poll(p, e)
      PROVE  PlacesApart'
  <2>1. /\ pc' = [pc EXCEPT ![p] = "dispatch"]
        /\ at' = [at EXCEPT ![p] = e.op[1]]
        /\ pc[p] = "next"
        /\ e.op \in Outstanding /\ Outstanding' = Outstanding \ {e.op}
    BY <1>5, PollQueue DEF Poll
  <2>2. QED
    BY <1>0, <2>1
<1>6. ASSUME NEW p \in Pollers, ServeReplace(p)
      PROVE  PlacesApart'
  <2> DEFINE op == <<born + 1, "request">>
  <2>1. /\ Outstanding' = Outstanding \cup {op}
        /\ pc' = [pc EXCEPT ![p] = "created"] /\ at' = at
        /\ pc[p] = "dispatch"
    BY <1>6, ReplaceQueue DEF ServeReplace
  <2>2. op[1] = born + 1
    OBVIOUS
  <2> HIDE DEF op
  <2>3. QED
    BY <1>0, <2>1, <2>2
<1>7. ASSUME NEW p \in Pollers, pc[p] # "next", UNCHANGED <<cqVars, at>>,
             NEW next, pc' = [pc EXCEPT ![p] = next]
      PROVE  PlacesApart'
  <2>1. Outstanding' = Outstanding
    BY <1>7 DEF Outstanding, cqVars
  <2>2. QED
    BY <1>0, <1>7, <2>1
<1>8. ASSUME NEW p \in Pollers, Created(p)
      PROVE  PlacesApart'
  BY <1>7, <1>8 DEF Created
<1>9. ASSUME NEW p \in Pollers, NEW good \in BOOLEAN, ServeWrite(p, good)
      PROVE  PlacesApart'
  BY <1>7, <1>9 DEF ServeWrite
<1>10. ASSUME NEW p \in Pollers, ServeFinish(p)
       PROVE  PlacesApart'
  <2> DEFINE op == <<at[p], "finish">>
  <2>1. /\ Outstanding' = Outstanding \cup {op}
        /\ pc' = [pc EXCEPT ![p] = "next"] /\ at' = at
        /\ pc[p] = "finish"
    BY <1>10, FinishQueue DEF ServeFinish, AfterFinish
  <2>2. op[1] = at[p]
    OBVIOUS
  <2> HIDE DEF op
  <2>3. QED
    BY <1>0, <2>1, <2>2
<1>11. ASSUME NEW p \in Pollers, Shutdown(p)
       PROVE  PlacesApart'
  BY <1>7, <1>11 DEF Shutdown
<1>12. CASE UNCHANGED vars
  BY <1>1, <1>12 DEF vars, Outstanding
<1>13. QED
  BY <1>2, <1>3, <1>4, <1>5, <1>6, <1>8, <1>9, <1>10, <1>11, <1>12 DEF Next, Serve

\* A handler is constructed into a place, and deleted by the thread that has it.
LEMMA AliveStep ==
  ASSUME IInv, [Next]_vars
  PROVE  AliveInPlaces'
<1> USE Numbers DEF AliveInPlaces, InHandler
<1>0. /\ AliveInPlaces
      /\ pc \in [Pollers -> {"next", "dispatch", "created", "write", "finish"}]
      /\ at \in [Pollers -> Handlers \cup {None}]
  BY DEF IInv, TypeOK
<1>1. CASE UNCHANGED <<Outstanding, alive, pc, at>>
  BY <1>0, <1>1
<1>2. CASE ServerShutdown
  BY <1>1, <1>2, ShutdownQueue DEF ServerShutdown, pollerVars
<1>3. ASSUME NEW h \in Handlers, ClientCalls(h)
      PROVE  AliveInPlaces'
  BY <1>1, <1>3, CompleteQueue DEF ClientCalls, pollerVars
<1>4. ASSUME NEW h \in Handlers, NEW ok \in BOOLEAN, AnswerSent(h, ok)
      PROVE  AliveInPlaces'
  BY <1>1, <1>4, CompleteQueue DEF AnswerSent, pollerVars
<1>5. ASSUME NEW p \in Pollers, NEW e \in events, Poll(p, e)
      PROVE  AliveInPlaces'
  <2>1. /\ pc' = [pc EXCEPT ![p] = "dispatch"]
        /\ at' = [at EXCEPT ![p] = e.op[1]]
        /\ pc[p] = "next" /\ alive' = alive
        /\ e.op \in Outstanding /\ Outstanding' = Outstanding \ {e.op}
    BY <1>5, PollQueue DEF Poll
  <2>2. QED
    BY <1>0, <2>1
<1>6. ASSUME NEW p \in Pollers, ServeReplace(p)
      PROVE  AliveInPlaces'
  <2> DEFINE op == <<born + 1, "request">>
  <2>1. /\ Outstanding' = Outstanding \cup {op}
        /\ alive' = alive \cup {born + 1}
        /\ pc' = [pc EXCEPT ![p] = "created"] /\ at' = at
        /\ pc[p] = "dispatch"
    BY <1>6, ReplaceQueue DEF ServeReplace, Replace
  <2>2. op[1] = born + 1
    OBVIOUS
  <2> HIDE DEF op
  <2>3. QED
    BY <1>0, <2>1, <2>2
<1>7. ASSUME NEW p \in Pollers, pc[p] # "next", UNCHANGED <<cqVars, alive, at>>,
             NEW next, next # "next", pc' = [pc EXCEPT ![p] = next]
      PROVE  AliveInPlaces'
  <2>1. Outstanding' = Outstanding
    BY <1>7 DEF Outstanding, cqVars
  <2>2. QED
    BY <1>0, <1>7, <2>1
<1>8. ASSUME NEW p \in Pollers, Created(p)
      PROVE  AliveInPlaces'
  BY <1>7, <1>8 DEF Created
<1>9. ASSUME NEW p \in Pollers, NEW good \in BOOLEAN, ServeWrite(p, good)
      PROVE  AliveInPlaces'
  BY <1>7, <1>9 DEF ServeWrite
<1>10. ASSUME NEW p \in Pollers, ServeFinish(p)
       PROVE  AliveInPlaces'
  <2> DEFINE op == <<at[p], "finish">>
  <2>1. /\ Outstanding' = Outstanding \cup {op}
        /\ pc' = [pc EXCEPT ![p] = "next"] /\ at' = at
        /\ pc[p] = "finish" /\ alive' = alive
    BY <1>10, FinishQueue DEF ServeFinish, AfterFinish
  <2>2. op[1] = at[p]
    OBVIOUS
  <2> HIDE DEF op
  <2>3. QED
    BY <1>0, <2>1, <2>2
<1>11. ASSUME NEW p \in Pollers, Shutdown(p)
       PROVE  AliveInPlaces'
  <2>1. /\ pc' = [pc EXCEPT ![p] = "next"] /\ at' = at
        /\ pc[p] = "dispatch" /\ alive' = alive \ {at[p]}
        /\ Outstanding' = Outstanding
    BY <1>11 DEF Shutdown, Deletes, cqVars, Outstanding
  <2>2. PlacesApart
    BY DEF IInv
  <2>3. QED
    BY <1>0, <2>1, <2>2 DEF PlacesApart
<1>12. CASE UNCHANGED vars
  BY <1>1, <1>12 DEF vars, Outstanding
<1>13. QED
  BY <1>2, <1>3, <1>4, <1>5, <1>6, <1>8, <1>9, <1>10, <1>11, <1>12 DEF Next, Serve

\* A handler's done_ and answers go with its place.
LEMMA HandlersStep ==
  ASSUME IInv, [Next]_vars
  PROVE  HandlersProgress'
<1> USE Numbers DEF HandlersProgress
<1>0. /\ HandlersProgress /\ ThreadsProgress /\ PlacesApart
      /\ alive \subseteq 1 .. born /\ done \subseteq 1 .. born /\ accepted \subseteq 1 .. born
      /\ answers \in [Handlers -> {0, 1}]
  BY DEF IInv, TypeOK
<1>1. CASE UNCHANGED <<cqVars, up, born, alive, done, accepted, answers>>
  BY <1>0, <1>1 DEF Outstanding, cqVars
<1>2. CASE ServerShutdown
  BY <1>0, <1>2, ShutdownQueue DEF ServerShutdown, pollerVars
<1>3. ASSUME NEW h \in Handlers, ClientCalls(h)
      PROVE  HandlersProgress'
  BY <1>0, <1>3, CompleteQueue DEF ClientCalls, pollerVars
<1>4. ASSUME NEW h \in Handlers, NEW ok \in BOOLEAN, AnswerSent(h, ok)
      PROVE  HandlersProgress'
  BY <1>0, <1>4, CompleteQueue DEF AnswerSent, pollerVars
<1>5. ASSUME NEW p \in Pollers, NEW e \in events, Poll(p, e)
      PROVE  HandlersProgress'
  BY <1>0, <1>5, PollQueue DEF Poll
<1>6. ASSUME NEW p \in Pollers, ServeReplace(p)
      PROVE  HandlersProgress'
  <2>1. /\ Outstanding' = Outstanding \cup {<<born + 1, "request">>}
        /\ \/ started' = started
           \/ up /\ started' = started \cup {<<born + 1, "request">>}
        /\ born' = born + 1 /\ alive' = alive \cup {born + 1}
        /\ UNCHANGED <<up, done, accepted, answers>>
    BY <1>6, ReplaceQueue DEF ServeReplace, Replace
  <2>2. 1 .. born' = (1 .. born) \cup {born + 1} /\ born + 1 \notin 1 .. born
    BY <2>1, Numbers
  <2> SUFFICES ASSUME NEW h \in Handlers
               PROVE  HandlersProgress!(h)'
    BY DEF HandlersProgress
  <2>3. CASE h = born + 1
    BY <1>0, <2>1, <2>2, <2>3
  <2>4. CASE h # born + 1
    BY <1>0, <2>1, <2>2, <2>4
  <2>5. QED
    BY <2>3, <2>4
<1>7. ASSUME NEW p \in Pollers, Created(p)
      PROVE  HandlersProgress'
  BY <1>1, <1>7 DEF Created
<1>8. ASSUME NEW p \in Pollers, NEW good \in BOOLEAN, ServeWrite(p, good)
      PROVE  HandlersProgress'
  BY <1>0, <1>8 DEF ServeWrite, Marked, PlacesApart, Outstanding, cqVars
<1>9. ASSUME NEW p \in Pollers, ServeFinish(p)
      PROVE  HandlersProgress'
  <2>1. /\ Outstanding' = Outstanding \cup {<<at[p], "finish">>}
        /\ started' = started \cup {<<at[p], "finish">>}
        /\ at[p] \in done /\ at[p] \in alive /\ at[p] \in 1 .. born
        /\ answers'[at[p]] = 1
        /\ \A h \in Handlers : h # at[p] => answers'[h] = answers[h]
        /\ UNCHANGED <<up, born, alive, done, accepted>>
        /\ \A o \in Outstanding : o[1] # at[p]
    <3>1. pc[p] = "finish" /\ answers[at[p]] = 0 /\ answers' = [answers EXCEPT ![at[p]] = @ + 1]
      BY <1>9, FinishQueue DEF ServeFinish
    <3>2. answers'[at[p]] = 1 /\ \A h \in Handlers : h # at[p] => answers'[h] = answers[h]
      BY <1>0, <3>1
    <3>3. at[p] \in alive /\ \A o \in Outstanding : o[1] # at[p]
      BY <1>0, <3>1 DEF PlacesApart, AliveInPlaces, IInv
    <3>4. QED
      BY <1>9, <3>1, <3>2, <3>3, FinishQueue DEF ServeFinish
  <2> SUFFICES ASSUME NEW h \in Handlers
               PROVE  HandlersProgress!(h)'
    BY DEF HandlersProgress
  <2>2. CASE h = at[p]
    BY <1>0, <2>1, <2>2
  <2>3. CASE h # at[p]
    BY <1>0, <2>1, <2>3
  <2>4. QED
    BY <2>2, <2>3
<1>10. ASSUME NEW p \in Pollers, Shutdown(p)
       PROVE  HandlersProgress'
  <2>1. /\ UNCHANGED <<started, up, born, done, accepted, answers>>
        /\ Outstanding' = Outstanding
        /\ alive' = alive \ {at[p]} /\ at[p] \in Handlers
        /\ pc[p] = "dispatch"
        /\ flag[p] = TRUE => at[p] \in done
    BY <1>10 DEF Shutdown, Deletes, Outstanding, cqVars, IsDone
  <2>2. answers[at[p]] = 1 \/ (at[p] \notin accepted /\ ~up)
    BY <1>0, <2>1 DEF ThreadsProgress, IInv, TypeOK
  <2>3. QED
    BY <1>0, <2>1, <2>2
<1>11. CASE UNCHANGED vars
  BY <1>1, <1>11 DEF vars, cqVars
<1>12. QED
  BY <1>2, <1>3, <1>4, <1>5, <1>6, <1>7, <1>8, <1>9, <1>10, <1>11 DEF Next, Serve

\* A request's completion tells whether the handler's call was accepted.
LEMMA EventsStep ==
  ASSUME IInv, [Next]_vars
  PROVE  EventsProgress'
<1> USE Numbers DEF EventsProgress
<1>0. EventsProgress /\ HandlersProgress /\ PlacesApart /\ accepted \subseteq 1 .. born
  BY DEF IInv, TypeOK
<1>1. CASE UNCHANGED <<events, up, accepted>>
  BY <1>0, <1>1
<1>2. CASE ServerShutdown
  <2>1. /\ \A e \in events' : e \in events \/ (e.op \in started /\ e.ok = FALSE)
        /\ up' = FALSE /\ accepted' = accepted
    BY <1>2, ShutdownQueue DEF ServerShutdown
  <2>2. \A op \in started : op[2] = "request" => op[1] \notin accepted
    <3>1. \A op \in started : op \in Ops
      BY DEF IInv, TypeOK
    <3>2. \A op \in Ops : op = <<op[1], op[2]>> /\ op[1] \in Handlers
      BY DEF Ops
    <3>3. QED
      BY <1>0, <3>1, <3>2 DEF HandlersProgress
  <2>3. QED
    BY <1>0, <2>1, <2>2
<1>3. ASSUME NEW h \in Handlers, ClientCalls(h)
      PROVE  EventsProgress'
  <2>1. /\ \A e \in events' : e \in events \/ (e.op = <<h, "request">> /\ e.ok = TRUE)
        /\ <<h, "request">> \in started
        /\ accepted' = accepted \cup {h} /\ up' = up
    BY <1>3, CompleteQueue DEF ClientCalls
  <2>2. \A e \in events : e.op # <<h, "request">> /\ e.op \in Ops
    BY <2>1 DEF IInv, QueueOK
  <2>3. \A e \in events : e.op[2] = "request" => e.op[1] # h
    BY <2>2 DEF Ops
  <2>4. QED
    BY <1>0, <2>1, <2>3
<1>4. ASSUME NEW h \in Handlers, NEW ok \in BOOLEAN, AnswerSent(h, ok)
      PROVE  EventsProgress'
  BY <1>0, <1>4, CompleteQueue DEF AnswerSent
<1>5. ASSUME NEW p \in Pollers, NEW e \in events, Poll(p, e)
      PROVE  EventsProgress'
  BY <1>0, <1>5, PollQueue DEF Poll
<1>6. ASSUME NEW p \in Pollers, ServeReplace(p)
      PROVE  EventsProgress'
  <2>1. /\ up' = up /\ accepted' = accepted
        /\ \A e \in events' : e \in events \/ (e.op = <<born + 1, "request">> /\ e.ok = FALSE /\ ~up)
    BY <1>6, ReplaceQueue DEF ServeReplace
  <2>2. born + 1 \notin accepted
    BY <1>0
  <2>3. QED
    BY <1>0, <2>1, <2>2
<1>7. ASSUME NEW p \in Pollers, Created(p)
      PROVE  EventsProgress'
  BY <1>1, <1>7 DEF Created, cqVars
<1>8. ASSUME NEW p \in Pollers, NEW good \in BOOLEAN, ServeWrite(p, good)
      PROVE  EventsProgress'
  BY <1>1, <1>8 DEF ServeWrite, cqVars
<1>9. ASSUME NEW p \in Pollers, ServeFinish(p)
      PROVE  EventsProgress'
  BY <1>1, <1>9 DEF ServeFinish
<1>10. ASSUME NEW p \in Pollers, Shutdown(p)
       PROVE  EventsProgress'
  BY <1>1, <1>10 DEF Shutdown, cqVars
<1>11. CASE UNCHANGED vars
  BY <1>1, <1>11 DEF vars
<1>12. QED
  BY <1>2, <1>3, <1>4, <1>5, <1>6, <1>7, <1>8, <1>9, <1>10, <1>11 DEF Next, Serve

\* So does what a thread that serves the handler goes by.
LEMMA ThreadsStep ==
  ASSUME IInv, [Next]_vars
  PROVE  ThreadsProgress'
<1> USE Numbers DEF ThreadsProgress
<1>0. /\ ThreadsProgress /\ EventsProgress /\ HandlersProgress /\ PlacesApart
      /\ alive \subseteq 1 .. born /\ done \subseteq 1 .. born /\ accepted \subseteq 1 .. born
      /\ answers \in [Handlers -> {0, 1}]
      /\ pc \in [Pollers -> {"next", "dispatch", "created", "write", "finish"}]
      /\ at \in [Pollers -> Handlers \cup {None}]
      /\ flag \in [Pollers -> BOOLEAN]
      /\ builds \in [Pollers -> Handlers \cup {None}]
  BY DEF IInv, TypeOK
<1>1. CASE UNCHANGED <<up, born, done, accepted, answers, pc, at, flag, builds>>
  BY <1>0, <1>1
<1>2. CASE ServerShutdown
  BY <1>0, <1>2 DEF ServerShutdown, pollerVars
<1>3. ASSUME NEW h \in Handlers, ClientCalls(h)
      PROVE  ThreadsProgress'
  BY <1>0, <1>3, CompleteQueue DEF ClientCalls, pollerVars, PlacesApart
<1>4. ASSUME NEW h \in Handlers, NEW ok \in BOOLEAN, AnswerSent(h, ok)
      PROVE  ThreadsProgress'
  BY <1>1, <1>4 DEF AnswerSent, pollerVars
<1>5. ASSUME NEW p \in Pollers, NEW e \in events, Poll(p, e)
      PROVE  ThreadsProgress'
  <2>1. /\ pc' = [pc EXCEPT ![p] = "dispatch"]
        /\ at' = [at EXCEPT ![p] = e.op[1]]
        /\ flag' = [flag EXCEPT ![p] = e.ok]
        /\ UNCHANGED <<up, born, done, accepted, answers, builds>>
    BY <1>5 DEF Poll
  <2>2. /\ e.op[1] \in done <=> answers[e.op[1]] = 1
        /\ e.op[1] \notin done => e.op[2] = "request"
    <3>1. /\ e.op = <<e.op[1], e.op[2]>> /\ e.op \in Outstanding
          /\ e.op[1] \in Handlers
          /\ e.op[2] = "request" \/ e.op[2] = "finish"
      BY <1>5, PollQueue
    <3>2. PICK h \in Handlers : h = e.op[1]
      BY <3>1
    <3>3. \/ e.op[2] = "request" /\ <<h, "request">> \in Outstanding
          \/ e.op[2] = "finish" /\ <<h, "finish">> \in Outstanding
      BY <3>1, <3>2, Zenon
    <3>4. /\ h \in done <=> answers[h] = 1
          /\ h \notin done => e.op[2] = "request"
      BY <1>0, <3>3 DEF HandlersProgress
    <3>5. QED
      BY <3>2, <3>4
  <2>3. e.op[1] \notin done =>
          /\ e.ok = TRUE => e.op[1] \in accepted
          /\ e.ok = FALSE => e.op[1] \notin accepted /\ ~up
    BY <1>0, <2>2 DEF EventsProgress
  <2>4. QED
    BY <1>0, <2>1, <2>2, <2>3
<1>6. ASSUME NEW p \in Pollers, ServeReplace(p)
      PROVE  ThreadsProgress'
  BY <1>0, <1>6, ReplaceQueue DEF ServeReplace, Replace, IsDone
<1>7. ASSUME NEW p \in Pollers, Created(p)
      PROVE  ThreadsProgress'
  BY <1>0, <1>7 DEF Created
<1>8. ASSUME NEW p \in Pollers, NEW good \in BOOLEAN, ServeWrite(p, good)
      PROVE  ThreadsProgress'
  BY <1>0, <1>8 DEF ServeWrite, Marked, PlacesApart, InHandler
<1>9. ASSUME NEW p \in Pollers, ServeFinish(p)
      PROVE  ThreadsProgress'
  BY <1>0, <1>9 DEF ServeFinish, AfterFinish, PlacesApart, InHandler
<1>10. ASSUME NEW p \in Pollers, Shutdown(p)
       PROVE  ThreadsProgress'
  BY <1>0, <1>10 DEF Shutdown
<1>11. CASE UNCHANGED vars
  BY <1>1, <1>11 DEF vars
<1>12. QED
  BY <1>2, <1>3, <1>4, <1>5, <1>6, <1>7, <1>8, <1>9, <1>10, <1>11 DEF Next, Serve

\* The listener is always the newest handler: its replacement is constructed in the
\* step that ends its listening.
LEMMA ListenerStep ==
  ASSUME IInv, [Next]_vars
  PROVE  ListenerIsNewest'
<1> USE Numbers DEF ListenerIsNewest, Listening, PlacesApart, InHandler
<1>0. /\ ListenerIsNewest /\ ThreadsProgress /\ PlacesApart
      /\ alive \subseteq 1 .. born /\ accepted \subseteq 1 .. born
      /\ pc \in [Pollers -> {"next", "dispatch", "created", "write", "finish"}]
      /\ at \in [Pollers -> Handlers \cup {None}]
  BY DEF IInv, TypeOK
<1>1. CASE UNCHANGED <<Outstanding, up, born, done, accepted, pc, at>>
  BY <1>0, <1>1
<1>2. CASE ServerShutdown
  BY <1>0, <1>2, ShutdownQueue DEF ServerShutdown, pollerVars
<1>3. ASSUME NEW h \in Handlers, ClientCalls(h)
      PROVE  ListenerIsNewest'
  BY <1>0, <1>3, CompleteQueue DEF ClientCalls, pollerVars
<1>4. ASSUME NEW h \in Handlers, NEW ok \in BOOLEAN, AnswerSent(h, ok)
      PROVE  ListenerIsNewest'
  BY <1>1, <1>4, CompleteQueue DEF AnswerSent, pollerVars
<1>5. ASSUME NEW p \in Pollers, NEW e \in events, Poll(p, e)
      PROVE  ListenerIsNewest'
  <2>1. /\ pc' = [pc EXCEPT ![p] = "dispatch"]
        /\ at' = [at EXCEPT ![p] = e.op[1]]
        /\ pc[p] = "next"
        /\ UNCHANGED <<up, born, done, accepted>>
    BY <1>5 DEF Poll
  <2>2. /\ Outstanding' = Outstanding \ {e.op}
        /\ e.op = <<e.op[1], e.op[2]>> /\ e.op \in Outstanding /\ e.op[1] \in Handlers
        /\ e.op[2] \in {"request", "finish"}
    BY <1>5, PollQueue
  <2>3. e.op[1] \notin done <=> e.op[2] = "request"
    <3>1. PICK h \in Handlers : h = e.op[1]
      BY <2>2
    <3>2. \/ e.op[2] = "request" /\ <<h, "request">> \in Outstanding
          \/ e.op[2] = "finish" /\ <<h, "finish">> \in Outstanding
      BY <2>2, <3>1, Zenon
    <3>3. h \notin done <=> e.op[2] = "request"
      BY <3>2 DEF IInv, HandlersProgress
    <3>4. QED
      BY <3>1, <3>3
  <2>4. \A h \in Handlers : Listening(h)' <=> Listening(h)
    <3> SUFFICES ASSUME NEW h \in Handlers
                 PROVE  Listening(h)' <=> Listening(h)
      OBVIOUS
    <3>1. CASE h = e.op[1]
      <4>1. Listening(h)' <=> h \notin done
        <5>1. <<h, "request">> \notin Outstanding'
          BY <1>0, <2>2, <3>1
        <5>2. \A q \in Pollers : at'[q] = h /\ pc'[q] = "dispatch" => q = p
          BY <1>0, <2>1, <2>2, <3>1
        <5>3. at'[p] = h /\ pc'[p] = "dispatch"
          BY <1>0, <2>1, <3>1
        <5>4. QED
          BY <2>1, <5>1, <5>2, <5>3
      <4>2. Listening(h) <=> h \notin done
        <5>1. <<h, "request">> \in Outstanding <=> e.op[2] = "request"
          BY <1>0, <2>2, <3>1
        <5>2. \A q \in Pollers : ~(at[q] = h /\ pc[q] = "dispatch")
          BY <1>0, <2>2, <3>1
        <5>3. QED
          BY <2>3, <3>1, <5>1, <5>2
      <4>3. QED
        BY <4>1, <4>2
    <3>2. CASE h # e.op[1]
      <4>1. <<h, "request">> \in Outstanding' <=> <<h, "request">> \in Outstanding
        BY <2>2, <3>2
      <4>2. \A q \in Pollers : at'[q] = h /\ pc'[q] = "dispatch" <=> at[q] = h /\ pc[q] = "dispatch"
        BY <1>0, <2>1, <3>2
      <4>3. QED
        BY <2>1, <4>1, <4>2
    <3>3. QED
      BY <3>1, <3>2
  <2>5. born \in Handlers
    BY DEF IInv, TypeOK
  <2> HIDE DEF Listening
  <2>6. QED
    BY <1>0, <2>1, <2>4, <2>5
<1>6. ASSUME NEW p \in Pollers, ServeReplace(p)
      PROVE  ListenerIsNewest'
  <2>1. /\ Outstanding' = Outstanding \cup {<<born + 1, "request">>}
        /\ born' = born + 1 /\ born + 1 \in Handlers
        /\ at[p] = born /\ pc[p] = "dispatch"
        /\ pc' = [pc EXCEPT ![p] = "created"]
        /\ UNCHANGED <<up, done, accepted, at>>
    BY <1>6, ReplaceQueue DEF ServeReplace, Replace
  <2>2. \A h \in Handlers : Listening(h)' => h = born + 1
    BY <1>0, <2>1 DEF PlacesApart, InHandler
  <2>3. Listening(born)' /\ born' \notin accepted'
    BY <1>0, <2>1
  <2> HIDE DEF Listening
  <2>4. QED
    BY <2>1, <2>2, <2>3
<1>7. ASSUME NEW p \in Pollers, Created(p)
      PROVE  ListenerIsNewest'
  BY <1>0, <1>7 DEF Created, Outstanding, cqVars
<1>8. ASSUME NEW p \in Pollers, NEW good \in BOOLEAN, ServeWrite(p, good)
      PROVE  ListenerIsNewest'
  BY <1>0, <1>8 DEF ServeWrite, Marked, Outstanding, cqVars, PlacesApart, InHandler
<1>9. ASSUME NEW p \in Pollers, ServeFinish(p)
      PROVE  ListenerIsNewest'
  <2>1. /\ \A h \in Handlers : <<h, "request">> \in Outstanding' <=> <<h, "request">> \in Outstanding
        /\ pc[p] = "finish" /\ pc' = [pc EXCEPT ![p] = "next"]
        /\ UNCHANGED <<up, born, done, accepted, at>>
    <3>1. \A h \in Handlers : <<h, "request">> # <<at[p], "finish">>
      OBVIOUS
    <3>2. QED
      BY <1>9, <3>1, FinishQueue DEF ServeFinish, AfterFinish
  <2>2. \A h \in Handlers : Listening(h)' <=> Listening(h)
    BY <1>0, <2>1
  <2>3. born \in Handlers
    BY DEF IInv, TypeOK
  <2> HIDE DEF Listening
  <2>4. QED
    BY <1>0, <2>1, <2>2, <2>3
<1>10. ASSUME NEW p \in Pollers, Shutdown(p)
       PROVE  ListenerIsNewest'
  BY <1>0, <1>10 DEF Shutdown, Outstanding, cqVars, ThreadsProgress, IsDone, IInv, TypeOK
<1>11. CASE UNCHANGED vars
  BY <1>1, <1>11 DEF vars, Outstanding
<1>12. QED
  BY <1>2, <1>3, <1>4, <1>5, <1>6, <1>7, <1>8, <1>9, <1>10, <1>11 DEF Next, Serve

\* The program starts with one handler, which grpc has.
LEMMA InitInv == Init => IInv
<1> SUFFICES ASSUME Init
             PROVE  IInv
  OBVIOUS
<1>1. 1 \in Handlers /\ 1 .. 1 = {1} /\ 1 <= MaxRpcs + 1
  BY MaxRpcsIsNatural DEF Handlers
<1>2. Outstanding = {<<1, "request">>}
  BY DEF Init, Outstanding
<1>3. TypeOK /\ QueueOK(Ops)
  BY <1>1 DEF Init, TypeOK, QueueOK, Ops
<1>4. PlacesApart /\ AliveInPlaces
  BY <1>2 DEF Init, PlacesApart, AliveInPlaces, InHandler
<1>5. HandlersProgress /\ EventsProgress /\ ThreadsProgress
  BY <1>1, <1>2 DEF Init, HandlersProgress, EventsProgress, ThreadsProgress
<1>6. ListenerIsNewest
  BY <1>1, <1>2 DEF Init, ListenerIsNewest, Listening
<1>7. QED
  BY <1>3, <1>4, <1>5, <1>6 DEF IInv

\* IInv holds in every state: whatever the threads, the clients and the shutdown do,
\* serve() and shutdown() leave each handler in one place (server_async.hpp:53-84).
THEOREM Invariance == Spec => []IInv
<1>1. IInv /\ [Next]_vars => IInv'
  BY TypeStep, QueueStep, PlacesStep, AliveStep, HandlersStep, EventsStep, ThreadsStep,
     ListenerStep DEF IInv
<1>2. QED
  BY <1>1, InitInv, PTL DEF Spec

\* Every variable has its type; in particular no handler has finished twice and no
\* more handlers are constructed than there are calls and one (server_async.hpp:41-51).
THEOREM TypeCorrect == Spec => []TypeOK
<1>1. IInv => TypeOK
  BY DEF IInv
<1>2. QED
  BY <1>1, Invariance, PTL

\* A handler that is gone has answered the call that it accepted.
LEMMA AnswerIsOne == IInv => AnsweredOnce
<1> SUFFICES ASSUME IInv, NEW h \in Handlers
             PROVE  answers[h] <= 1 /\ (h \in accepted /\ h \notin alive => answers[h] = 1)
  BY DEF AnsweredOnce
<1>1. answers[h] \in {0, 1} /\ accepted \subseteq 1 .. born
  BY DEF IInv, TypeOK
<1>2. h \in 1 .. born /\ h \notin alive => answers[h] = 1 \/ h \notin accepted
  BY DEF IInv, HandlersProgress
<1>3. answers[h] <= 1
  BY <1>1
<1>4. h \in accepted /\ h \notin alive => answers[h] = 1
  BY <1>1, <1>2
<1>5. QED
  BY <1>3, <1>4

\* A handler answers its call at most once, and is deleted with a call accepted only
\* after it has answered it (server_async.hpp:58-84).
THEOREM AnsweredOnceHolds == Spec => []AnsweredOnce
BY AnswerIsOne, Invariance, PTL

\* Places that exclude each other are one place.
LEMMA OneHolder == IInv => HandlerHasOneHolder
<1> SUFFICES ASSUME IInv, NEW h \in Handlers
             PROVE  HandlerHasOneHolder!(h)
  BY DEF HandlerHasOneHolder
<1> DEFINE ops == {op \in Outstanding : op[1] = h}
           threads == {p \in Pollers : InHandler(p, h)}
<1>0. PlacesApart /\ AliveInPlaces
  BY DEF IInv
<1>1. CASE h \in alive
  <2>1. CASE \E o \in Outstanding : o[1] = h
    <3>1. threads = {} /\ \E op \in ops : ops = {op}
      BY <1>0, <2>1 DEF PlacesApart, InHandler
    <3>2. QED
      BY <1>1, <3>1
  <2>2. CASE \E p \in Pollers : InHandler(p, h)
    <3>1. ops = {} /\ \E p \in threads : threads = {p}
      BY <1>0, <2>2 DEF PlacesApart, InHandler
    <3>2. QED
      BY <1>1, <3>1
  <2>3. QED
    BY <1>0, <1>1, <2>1, <2>2 DEF AliveInPlaces
<1>2. CASE h \notin alive
  <2>1. ops = {} /\ threads = {}
    BY <1>0, <1>2 DEF AliveInPlaces, InHandler
  <2>2. \A p \in Pollers : builds[p] = h => answers[h] = 1 \/ ~up
    BY <1>2, NoneIsNoHandler DEF IInv, ThreadsProgress, HandlersProgress
  <2>3. QED
    BY <1>2, <2>1, <2>2
<1>3. QED
  BY <1>1, <1>2

\* While the server is up, the newest handler listens and no other does.
LEMMA OneListens == IInv => OneListener
<1> SUFFICES ASSUME IInv, up
             PROVE  \E h \in {h \in alive : Listening(h)} : {g \in alive : Listening(g)} = {h}
  BY Zenon DEF OneListener, Listening
<1>1. Listening(born) /\ \A h \in alive : Listening(h) => h = born
  BY Numbers DEF IInv, ListenerIsNewest
<1>2. born \in alive
  <2>1. \/ <<born, "request">> \in Outstanding
        \/ \E p \in Pollers : at[p] = born /\ pc[p] # "next"
    BY <1>1 DEF Listening
  <2>2. QED
    BY <2>1 DEF IInv, AliveInPlaces
<1>3. QED
  BY <1>1, <1>2

\* No two threads or tags meet in a handler, none is forgotten, and one handler waits
\* for the next request while the server is up (server_async.hpp:53-84).
THEOREM HandlersStayInPlace == Spec => []HandlersAreInPlace
<1>1. IInv => HandlersAreInPlace
  BY OneHolder, OneListens DEF HandlersAreInPlace
<1>2. QED
  BY <1>1, Invariance, PTL

-------------------------------------------------------------------------------

\* The theorems about the client, for the client of EndToEnd.
clientProofs == INSTANCE AsyncClientProofs WITH
  Pollers <- ClientPollers, started <- clStarted, events <- clEvents, alive <- clAlive,
  pc <- clPc, at <- clAt

\* A step of one side is a step or a pause of the server by itself.
LEMMA ServerSide == EndToEndNext => [Next]_vars
<1> SUFFICES ASSUME EndToEndNext, ~UNCHANGED vars
             PROVE  Next
  OBVIOUS
<1>1. ServerStops => Next
  BY DEF ServerStops, Next
<1>2. ASSUME NEW op, NEW h \in Handlers, Arrive(op, h)
      PROVE  Next
  BY <1>2 DEF Arrive, Next
<1>3. ASSUME NEW h \in Handlers, ServerAnswerSent(h)
      PROVE  Next
  BY <1>3 DEF ServerAnswerSent, Next
<1>4. ASSUME NEW p \in Pollers, ServerThread(p)
      PROVE  Next
  BY <1>4 DEF ServerThread, Write, Next, Serve
<1>5. ASSUME NEW p \in Pollers, NEW e \in events, ServerPoll(p, e)
      PROVE  Next
  BY <1>5 DEF ServerPoll, Next
<1>6. ASSUME ClientWait \/ (\E c \in Calls : ClientBegin(c))
      PROVE  FALSE
  BY <1>6 DEF ClientWait, ClientBegin
<1>7. ASSUME \/ \E op \in Calls \X client!Attempts : Unanswered(op)
             \/ \E h \in Handlers : Answered(h)
      PROVE  FALSE
  BY <1>7 DEF Unanswered, Answered
<1>8. ASSUME \E p \in ClientPollers : ClientThread(p) \/ \E e \in clEvents : ClientPoll(p, e)
      PROVE  FALSE
  BY <1>8 DEF ClientThread, ClientPoll
<1>9. QED
  BY <1>1, <1>2, <1>3, <1>4, <1>5, <1>6, <1>7, <1>8 DEF EndToEndNext

\* A completion comes for an attempt that grpc has.
LEMMA RespondIsStep ==
  ASSUME NEW op, NEW ok \in BOOLEAN, client!Respond(op, ok)
  PROVE  op \in clStarted /\ clientProofs!Respond(op, ok)
BY DEF client!Respond, clientProofs!Respond, client!CompleteOp, clientProofs!CompleteOp,
       client!waiterVars, clientProofs!waiterVars

\* What EndToEnd calls handle() is what the theorems about the client call so.
LEMMA HandleIsStep ==
  ASSUME NEW p \in ClientPollers, client!Handle(p)
  PROVE  \/ clientProofs!Callback(p) \/ clientProofs!CallbackThrows(p)
         \/ clientProofs!Retry(p) \/ clientProofs!Release(p) \/ clientProofs!Delete(p)
BY DEF client!Handle, client!Callback, clientProofs!Callback, client!CallbackThrows,
       clientProofs!CallbackThrows, client!Retry, clientProofs!Retry, client!Construct,
       clientProofs!Construct, client!StartOp, clientProofs!StartOp, client!Release,
       clientProofs!Release, client!Released, clientProofs!Released, client!Delete,
       clientProofs!Delete, client!Outcome, clientProofs!Outcome, client!waiterVars,
       clientProofs!waiterVars, client!cqVars, clientProofs!cqVars

\* The same for the completion a thread takes.
LEMMA PollIsStep ==
  ASSUME NEW p, NEW e, client!Poll(p, e)
  PROVE  clientProofs!Poll(p, e)
BY DEF client!Poll, clientProofs!Poll, client!TakeEvent, clientProofs!TakeEvent,
       client!MayRetry, clientProofs!MayRetry, client!waiterVars, clientProofs!waiterVars

\* A step of one side is a step or a pause of the client by itself.
LEMMA ClientSide == EndToEndNext => [clientProofs!Next]_clientVars
<1> SUFFICES ASSUME EndToEndNext, ~UNCHANGED clientVars
             PROVE  clientProofs!Next
  OBVIOUS
<1>1. ASSUME NEW op, NEW ok \in BOOLEAN, client!Respond(op, ok)
      PROVE  clientProofs!Next
  BY <1>1, RespondIsStep DEF clientProofs!Next
<1>2. ASSUME NEW p \in ClientPollers, client!Handle(p)
      PROVE  clientProofs!Next
  BY <1>2, HandleIsStep DEF clientProofs!Next, clientProofs!Handle
<1>3. ASSUME NEW p \in ClientPollers, NEW e \in clEvents, client!Poll(p, e)
      PROVE  clientProofs!Next
  BY <1>3, PollIsStep DEF clientProofs!Next
<1>4. ASSUME NEW c \in Calls, client!Begin(c)
      PROVE  clientProofs!Next
  BY <1>4 DEF client!Begin, clientProofs!Begin, client!Construct, clientProofs!Construct,
              client!StartOp, clientProofs!StartOp, client!waiterVars,
              clientProofs!waiterVars, clientProofs!Next
<1>5. ASSUME client!WaitFront
      PROVE  clientProofs!Next
  BY <1>5 DEF client!WaitFront, clientProofs!WaitFront, client!Ready, clientProofs!Ready,
              client!cqVars, clientProofs!cqVars, clientProofs!Next
<1>6. \A h \in Handlers : Answered(h) => \E ok \in BOOLEAN : client!Respond(carries[h], ok)
  BY DEF Answered
<1>7. ASSUME ServerStops \/ \E p \in Pollers : ServerThread(p) \/ \E e \in events : ServerPoll(p, e)
      PROVE  FALSE
  BY <1>7 DEF ServerStops, ServerThread, Write, ServerPoll
<1>8. ASSUME \E h \in Handlers : ServerAnswerSent(h) \/ \E op \in Calls \X client!Attempts : Arrive(op, h)
      PROVE  FALSE
  BY <1>8 DEF ServerAnswerSent, Arrive
<1>9. QED
  BY <1>1, <1>2, <1>3, <1>4, <1>5, <1>6, <1>7, <1>8
     DEF EndToEndNext, ClientWait, ClientBegin, ClientThread, ClientPoll, Unanswered

\* The parameters are such as the theorems about the client ask for.
LEMMA ParametersFit == Retries \in Nat /\ WaitList \in Seq(Calls)
BY ClientParameters DEF ClientParameters

\* Each side of EndToEnd keeps the invariant that it has by itself: the network between
\* them, late or lost, takes nothing from either (client_async.hpp, server_async.hpp).
THEOREM SidesInvariance == EndToEndSpec => [](IInv /\ clientProofs!IInv)
<1>1. EndToEndInit => Init /\ clientProofs!Init
  BY DEF EndToEndInit, client!Init, clientProofs!Init, client!CQInit, clientProofs!CQInit
<1>2. [EndToEndNext]_allVars => [Next]_vars /\ [clientProofs!Next]_(clientProofs!vars)
  BY ServerSide, ClientSide DEF allVars, clientVars, clientProofs!vars
<1>3. Init /\ [][Next]_vars => []IInv
  BY Invariance DEF Spec
<1>4. clientProofs!Init /\ [][clientProofs!Next]_(clientProofs!vars) => []clientProofs!IInv
  BY ParametersFit, clientProofs!Invariance DEF clientProofs!Spec
<1>5. QED
  BY <1>1, <1>2, <1>3, <1>4, PTL DEF EndToEndSpec

\* The server is in order in the face of a client that repeats its calls, too: one holder
\* for each handler, one listener, one answer to each request (server_async.hpp:53-84).
THEOREM ServerStaysInOrder == EndToEndSpec => [](HandlersAreInPlace /\ AnsweredOnce)
<1>1. IInv => HandlersAreInPlace /\ AnsweredOnce
  BY OneHolder, OneListens, AnswerIsOne DEF HandlersAreInPlace
<1>2. QED
  BY <1>1, SidesInvariance, PTL

-------------------------------------------------------------------------------

\* What is known of the wire between the two sides: an attempt reaches one handler,
\* a status is there once the call is done, and whoever is told of a success can point
\* to the handler that carried it out.
WireInv ==
  /\ carries \in [Handlers -> (Calls \X client!Attempts) \cup {None}]
  /\ said \in [Handlers -> {"none", "ok", "error"}]
  /\ \A g, h \in Handlers : carries[g] = carries[h] /\ carries[g] # None => g = h
  /\ \A h \in Handlers : h \notin done => said[h] = "none"
  /\ \A e \in clEvents : e.ok = TRUE =>
       \E h \in Handlers : carries[h] = e.op /\ said[h] = "ok"
  /\ \A p \in ClientPollers : clPc[p] = "callback" =>
       \E h \in Handlers : carries[h] = clAt[p] /\ said[h] = "ok"

\* A request comes to a handler that has not said anything.
LEMMA ArriveEffect ==
  ASSUME IInv, WireInv, NEW op \in Calls \X client!Attempts, NEW h \in Handlers, Arrive(op, h)
  PROVE  /\ said[h] = "none" /\ done' = done
         /\ \A g \in Handlers : carries[g] # op
         /\ op # None
         /\ carries' = [carries EXCEPT ![h] = op]
         /\ UNCHANGED <<said, clientVars>>
<1>1. ClientCalls(h) /\ CompleteOp(<<h, "request">>, TRUE) /\ done' = done
  BY DEF Arrive, ClientCalls
<1>2. h \notin done
  BY <1>1 DEF CompleteOp, Outstanding, IInv, HandlersProgress
<1>3. op # None
  BY ClientParameters DEF ClientParameters, client!Attempts
<1>4. QED
  BY <1>1, <1>2, <1>3 DEF Arrive, WireInv

\* A handler says how its call went once.
LEMMA WriteEffect ==
  ASSUME IInv, WireInv, NEW p \in Pollers, NEW good \in BOOLEAN, Write(p, good)
  PROVE  \E h \in Handlers :
           /\ said[h] = "none" /\ done' = done \cup {h}
           /\ said' = [said EXCEPT ![h] = IF good THEN "ok" ELSE "error"]
           /\ UNCHANGED <<carries, clientVars>>
<1>1. pc[p] = "write" /\ done' = done \cup {at[p]}
  BY DEF Write, ServeWrite, Marked
<1>2. at[p] \in Handlers /\ at[p] \notin done
  BY <1>1, Numbers DEF IInv, ThreadsProgress
<1>3. /\ said[at[p]] = "none"
      /\ said' = [said EXCEPT ![at[p]] = IF good THEN "ok" ELSE "error"]
      /\ UNCHANGED <<carries, clientVars>>
  BY <1>2 DEF Write, WireInv
<1>4. QED
  BY <1>1, <1>2, <1>3

\* The server's other steps leave the wire alone.
LEMMA ServerRests ==
  ASSUME \/ ServerStops
         \/ \E h \in Handlers : ServerAnswerSent(h)
         \/ \E p \in Pollers, e \in events : ServerPoll(p, e)
         \/ \E p \in Pollers : /\ ServeReplace(p) \/ Created(p) \/ ServeFinish(p) \/ Shutdown(p)
                               /\ UNCHANGED <<clientVars, wireVars>>
  PROVE  done' = done /\ UNCHANGED <<clientVars, wireVars>>
BY DEF ServerStops, ServerShutdown, ServerAnswerSent, AnswerSent, ServerPoll, Poll,
       ServeReplace, Created, ServeFinish, Shutdown

\* A success that reaches an attempt was said by the handler that got its request.
LEMMA RespondEffect ==
  ASSUME WireInv, clientProofs!IInv, NEW op, NEW ok \in BOOLEAN, client!Respond(op, ok),
         ok = TRUE => \E h \in Handlers : carries[h] = op /\ said[h] = "ok",
         UNCHANGED <<vars, wireVars>>
  PROVE  WireInv' /\ UNCHANGED <<replies, promise>>
<1>1. /\ op \in clStarted
      /\ clEvents' = clEvents \cup {[op |-> op, ok |-> ok]}
      /\ UNCHANGED <<clPc, clAt, replies, promise>>
  BY DEF client!Respond, client!CompleteOp
<1>2. UNCHANGED <<carries, said, done>>
  BY DEF wireVars, vars
<1>3. QED
  BY <1>1, <1>2 DEF WireInv

\* The client's threads do not touch the wire, and enter the callback only with a success.
LEMMA ClientEffect ==
  ASSUME WireInv, clientProofs!IInv, UNCHANGED <<vars, wireVars>>,
         \/ client!WaitFront
         \/ \E c \in Calls : client!Begin(c)
         \/ \E p \in ClientPollers, e \in clEvents : client!Poll(p, e)
         \/ \E p \in ClientPollers : client!Handle(p)
  PROVE  WireInv'
<1>0. UNCHANGED <<carries, said, done>>
  BY DEF wireVars, vars
<1>t. clPc \in [ClientPollers -> {"next", "callback", "retry", "release", "delete", "fail"}]
      /\ clAt \in [ClientPollers -> (Calls \X client!Attempts) \cup {None}]
  BY DEF clientProofs!IInv, clientProofs!TypeOK, client!Attempts, clientProofs!Attempts
<1>1. ASSUME UNCHANGED <<clEvents, clPc, clAt>>
      PROVE  WireInv'
  BY <1>0, <1>1 DEF WireInv
<1>2. CASE client!WaitFront
  BY <1>1, <1>2 DEF client!WaitFront, client!cqVars
<1>3. CASE \E c \in Calls : client!Begin(c)
  BY <1>1, <1>3 DEF client!Begin
<1>4. ASSUME NEW p \in ClientPollers, NEW e \in clEvents, client!Poll(p, e)
      PROVE  WireInv'
  <2>1. /\ clEvents' \subseteq clEvents
        /\ clAt' = [clAt EXCEPT ![p] = e.op]
        /\ \/ e.ok = TRUE /\ clPc' = [clPc EXCEPT ![p] = "callback"]
           \/ clPc' = [clPc EXCEPT ![p] = "retry"]
           \/ clPc' = [clPc EXCEPT ![p] = "fail"]
    <3>1. e.ok \in BOOLEAN
      BY DEF clientProofs!IInv, clientProofs!TypeOK
    <3>2. QED
      BY <1>4, <3>1 DEF client!Poll, client!TakeEvent
  <2>2. QED
    BY <1>0, <1>t, <2>1 DEF WireInv
<1>5. ASSUME NEW p \in ClientPollers, client!Handle(p)
      PROVE  WireInv'
  <2>1. /\ clEvents' = clEvents
        /\ \A q \in ClientPollers : clPc'[q] = "callback" => clPc[q] = "callback" /\ clAt'[q] = clAt[q]
    <3>1. CASE client!Callback(p) \/ client!CallbackThrows(p)
      BY <1>t, <3>1 DEF client!Callback, client!CallbackThrows, client!cqVars
    <3>2. CASE client!Retry(p) \/ client!Release(p)
      BY <1>t, <3>2 DEF client!Retry, client!Release, client!cqVars
    <3>3. CASE client!Delete(p)
      BY <1>t, <3>3 DEF client!Delete, client!cqVars
    <3>4. QED
      BY <1>5, <3>1, <3>2, <3>3 DEF client!Handle
  <2>2. QED
    BY <1>0, <2>1 DEF WireInv
<1>6. QED
  BY <1>2, <1>3, <1>4, <1>5

\* Every step keeps the wire in order.
LEMMA WireStep ==
  ASSUME IInv, clientProofs!IInv, WireInv, [EndToEndNext]_allVars
  PROVE  WireInv'
<1>0. ASSUME done' = done, UNCHANGED <<clientVars, wireVars>>
      PROVE  WireInv'
  BY <1>0 DEF WireInv, clientVars, wireVars
<1>1. ASSUME NEW op \in Calls \X client!Attempts, NEW h \in Handlers, Arrive(op, h)
      PROVE  WireInv'
  <2>1. /\ said[h] = "none" /\ done' = done
        /\ \A g \in Handlers : carries[g] # op
        /\ op # None
        /\ carries' = [carries EXCEPT ![h] = op]
        /\ UNCHANGED <<said, clEvents, clPc, clAt>>
    BY <1>1, ArriveEffect DEF clientVars
  <2>2. \A g \in Handlers : said[g] = "ok" => carries'[g] = carries[g]
    BY <2>1 DEF WireInv
  <2>3. QED
    BY <2>1, <2>2 DEF WireInv
<1>2. ASSUME NEW p \in Pollers, NEW good \in BOOLEAN, Write(p, good)
      PROVE  WireInv'
  <2>1. PICK h \in Handlers :
          /\ said[h] = "none" /\ done' = done \cup {h}
          /\ said' = [said EXCEPT ![h] = IF good THEN "ok" ELSE "error"]
          /\ UNCHANGED <<carries, clEvents, clPc, clAt>>
    BY <1>2, WriteEffect DEF clientVars
  <2>2. \A g \in Handlers : said[g] = "ok" => said'[g] = "ok"
    BY <2>1 DEF WireInv
  <2>3. QED
    BY <2>1, <2>2 DEF WireInv
<1>3. ASSUME NEW p \in Pollers, ServerThread(p)
      PROVE  WireInv'
  BY <1>0, <1>2, <1>3, ServerRests DEF ServerThread
<1>4. ASSUME NEW h \in Handlers, Answered(h)
      PROVE  WireInv'
  <2>1. (said[h] = "ok") \in BOOLEAN /\ client!Respond(carries[h], said[h] = "ok") /\ UNCHANGED <<vars, wireVars>>
    BY <1>4 DEF Answered
  <2>2. QED
    BY <2>1, RespondEffect
<1>5. ASSUME NEW op, Unanswered(op)
      PROVE  WireInv'
  BY <1>5, RespondEffect DEF Unanswered
<1>6. CASE \/ ClientWait \/ (\E c \in Calls : ClientBegin(c))
           \/ \E p \in ClientPollers : ClientThread(p) \/ \E e \in clEvents : ClientPoll(p, e)
  BY <1>6, ClientEffect DEF ClientWait, ClientBegin, ClientThread, ClientPoll
<1>7. CASE UNCHANGED allVars
  BY <1>0, <1>7 DEF allVars, vars
<1>8. CASE \/ ServerStops
           \/ \E h \in Handlers : ServerAnswerSent(h)
           \/ \E p \in Pollers, e \in events : ServerPoll(p, e)
  BY <1>0, <1>8, ServerRests
<1>9. QED
  BY <1>1, <1>3, <1>4, <1>5, <1>6, <1>7, <1>8 DEF EndToEndNext

-------------------------------------------------------------------------------

\* No more handlers carry a call out than the client makes attempts.
FewCarryOut ==
  \A c \in Calls : IsFiniteSet(CarriedOut(c)) /\ Cardinality(CarriedOut(c)) <= Retries + 1

\* One handler for each attempt, since an attempt's request reaches one.
LEMMA OncePerAttempt == WireInv => FewCarryOut
<1> SUFFICES ASSUME WireInv, NEW c \in Calls
             PROVE  IsFiniteSet(CarriedOut(c)) /\ Cardinality(CarriedOut(c)) <= Retries + 1
  BY DEF FewCarryOut
<1> DEFINE S == CarriedOut(c)
           attempt == [h \in S |-> carries[h][2]]
<1>1. /\ Retries \in Nat /\ IsFiniteSet(0 .. Retries)
      /\ Cardinality(0 .. Retries) = Retries + 1
  BY ParametersFit, FS_Interval
<1>2. \A h \in S : h \in Handlers /\ carries[h] # None /\ carries[h][2] \in 0 .. Retries /\ carries[h] = <<c, carries[h][2]>>
  BY DEF CarriedOut, WireInv, client!Attempts
<1>3. \A g, h \in S : carries[g] = carries[h] => g = h
  BY <1>2 DEF WireInv
<1> HIDE DEF S
<1>4. attempt \in [S -> 0 .. Retries]
  BY <1>2
<1>5. \A g, h \in S : attempt[g] = attempt[h] => g = h
  BY <1>2, <1>3
<1>6. attempt \in Injection(S, 0 .. Retries)
  <2> HIDE DEF attempt
  <2>1. DOMAIN attempt = S
    BY <1>4
  <2>2. QED
    BY <1>4, <1>5, <2>1 DEF Injection, IsInjective
<1>7. IsFiniteSet(S) /\ Cardinality(S) <= Cardinality(0 .. Retries)
  BY <1>1, <1>6, FS_Injection
<1>8. QED
  BY <1>1, <1>7 DEF S

\* A step that changes neither what handlers carry and said, nor the client's replies
\* and promises, is none for the caller.
LEMMA OnceRests ==
  ASSUME \A c \in Calls : CarriedOut(c)' = CarriedOut(c), UNCHANGED <<replies, promise>>
  PROVE  UNCHANGED once!vars
BY DEF once!vars

\* A handler that succeeds carries out a call that may still be carried out.
LEMMA WriteIsOnce ==
  ASSUME IInv, WireInv, WireInv', NEW p \in Pollers, NEW good \in BOOLEAN, Write(p, good)
  PROVE  [once!Next]_(once!vars)
<1>1. PICK h \in Handlers :
        /\ said[h] = "none"
        /\ said' = [said EXCEPT ![h] = IF good THEN "ok" ELSE "error"]
        /\ UNCHANGED <<carries, clientVars>>
  BY WriteEffect
<1>2. UNCHANGED <<replies, promise>> /\ said \in [Handlers -> {"none", "ok", "error"}]
  BY <1>1 DEF clientVars, WireInv
<1>3. CASE ~good \/ carries[h] = None
  <2>1. \A c \in Calls : CarriedOut(c)' = CarriedOut(c)
    BY <1>1, <1>2, <1>3 DEF CarriedOut
  <2>2. QED
    BY <1>2, <2>1, OnceRests
<1>4. CASE good /\ carries[h] # None
  <2>1. PICK c \in Calls : carries[h][1] = c
    BY <1>4 DEF WireInv
  <2>2. CarriedOut(c)' = CarriedOut(c) \cup {h} /\ h \notin CarriedOut(c)
    BY <1>1, <1>2, <1>4, <2>1 DEF CarriedOut
  <2>3. \A d \in Calls : d # c => CarriedOut(d)' = CarriedOut(d)
    BY <1>1, <1>2, <1>4, <2>1 DEF CarriedOut
  <2>4. IsFiniteSet(CarriedOut(c)) /\ Cardinality(CarriedOut(c)) \in Nat
    BY OncePerAttempt, FS_CardinalityType DEF FewCarryOut
  <2>5. Cardinality(CarriedOut(c)') = Cardinality(CarriedOut(c)) + 1
    BY <2>2, <2>4, FS_AddElement
  <2>6. Cardinality(CarriedOut(c)') <= Retries + 1
    <3>1. (WireInv => FewCarryOut)'
      BY OncePerAttempt, PTL
    <3>2. QED
      BY <3>1 DEF FewCarryOut
  <2>7. once!CarryOut(c)
    <3> DEFINE out == [d \in Calls |-> Cardinality(CarriedOut(d))]
    <3>1. out' = [d \in Calls |-> Cardinality(CarriedOut(d)')]
      OBVIOUS
    <3>2. out' = [out EXCEPT ![c] = @ + 1]
      BY <2>3, <2>5, <3>1
    <3>3. out[c] < Retries + 1
      BY <2>4, <2>5, <2>6, ParametersFit
    <3>4. QED
      BY <1>2, <3>2, <3>3 DEF once!CarryOut
  <2>8. QED
    BY <2>7 DEF once!Next
<1>5. QED
  BY <1>3, <1>4

\* The callback runs while the call is open and carried out; the promise that the last
\* handler sets ends it.
LEMMA HandleIsOnce ==
  ASSUME clientProofs!IInv, WireInv, NEW p \in ClientPollers, ClientThread(p)
  PROVE  [once!Next]_(once!vars)
<1> USE ParametersFit
<1>1. /\ \A c \in Calls : CarriedOut(c)' = CarriedOut(c)
      /\ client!Handle(p)
  BY DEF ClientThread, wireVars, CarriedOut
<1>2. /\ promise \in [Calls -> {"empty", "ok", "error"}]
      /\ replies \in [Calls -> 0 .. Retries + 1]
  BY DEF clientProofs!IInv, clientProofs!TypeOK
<1>3. CASE clientProofs!Callback(p) \/ clientProofs!CallbackThrows(p)
  <2>1. PICK c \in Calls, a \in clientProofs!Attempts :
          /\ clAt[p] = <<c, a>> /\ replies[c] = 0 /\ promise[c] = "empty"
          /\ replies' = [replies EXCEPT ![c] = 1]
    <3>1. \E c \in Calls, a \in clientProofs!Attempts :
            /\ clAt[p] = <<c, a>> /\ clAt[p][1] = c /\ <<c, a>> \in clAlive
            /\ clientProofs!Newest(c, a) /\ replies[c] = 0 /\ promise[c] = "empty"
            /\ replies' = [replies EXCEPT ![c] = 1]
      BY <1>3, ParametersFit, clientProofs!CallbackEffect
    <3>2. QED
      BY <3>1
  <2>2. clPc[p] = "callback" /\ promise' = promise
    BY <1>3 DEF clientProofs!Callback, clientProofs!CallbackThrows
  <2>3. Cardinality(CarriedOut(c)) > 0
    <3>1. PICK h \in Handlers : carries[h] = <<c, a>> /\ said[h] = "ok"
      BY <2>1, <2>2 DEF WireInv
    <3>2. <<c, a>> # None /\ <<c, a>>[1] = c
      BY ClientParameters DEF ClientParameters, clientProofs!Attempts
    <3>3. h \in CarriedOut(c)
      BY <3>1, <3>2 DEF CarriedOut
    <3>4. QED
      BY <3>3, OncePerAttempt, FS_CardinalityType, FS_EmptySet DEF FewCarryOut
  <2>4. once!Answer(c)
    BY <1>1, <1>2, <2>1, <2>2, <2>3 DEF once!Answer
  <2>5. QED
    BY <2>4 DEF once!Next
<1>4. CASE clientProofs!Retry(p) \/ clientProofs!Release(p)
  <2>1. UNCHANGED <<replies, promise>>
    BY <1>4 DEF clientProofs!Retry, clientProofs!Release
  <2>2. QED
    BY <1>1, <2>1, OnceRests
<1>5. CASE clientProofs!Delete(p)
  <2>1. PICK c \in Calls :
          \/ promise[c] = "empty" /\ promise' = [promise EXCEPT ![c] = "ok"] /\ replies[c] = 1
          \/ promise[c] = "empty" /\ promise' = [promise EXCEPT ![c] = "error"] /\ replies[c] = 0
          \/ promise' = promise
    BY <1>5, clientProofs!DeleteEffect
  <2>2. replies' = replies
    BY <1>5 DEF clientProofs!Delete
  <2>3. CASE promise' = promise
    BY <1>1, <2>2, <2>3, OnceRests
  <2>4. CASE promise' # promise
    <3>1. PICK r \in {"ok", "error"} :
            promise[c] = "empty" /\ promise' = [promise EXCEPT ![c] = r] /\ (r = "ok" <=> replies[c] = 1)
      BY <2>1, <2>4
    <3>2. once!End(c)
      BY <1>1, <1>2, <2>2, <3>1 DEF once!End
    <3>3. QED
      BY <3>2 DEF once!Next
  <2>5. QED
    BY <2>3, <2>4
<1>6. QED
  BY <1>1, <1>3, <1>4, <1>5, HandleIsStep

\* Every step is a step of AtLeastOnce or none.
LEMMA StepIsOnce ==
  ASSUME IInv, clientProofs!IInv, WireInv, WireInv', [EndToEndNext]_allVars
  PROVE  [once!Next]_(once!vars)
<1>1. ASSUME UNCHANGED <<carries, said, replies, promise>>
      PROVE  UNCHANGED once!vars
  BY <1>1, OnceRests DEF CarriedOut
<1>2. ASSUME NEW op \in Calls \X client!Attempts, NEW h \in Handlers, Arrive(op, h)
      PROVE  UNCHANGED once!vars
  <2>1. /\ said[h] = "none" /\ carries' = [carries EXCEPT ![h] = op]
        /\ UNCHANGED <<said, replies, promise>>
    BY <1>2, ArriveEffect DEF clientVars
  <2>2. \A c \in Calls : CarriedOut(c)' = CarriedOut(c)
    BY <2>1 DEF CarriedOut, WireInv
  <2>3. QED
    BY <2>1, <2>2, OnceRests
<1>3. ASSUME NEW p \in Pollers, ServerThread(p)
      PROVE  [once!Next]_(once!vars)
  BY <1>1, <1>3, WriteIsOnce, ServerRests DEF ServerThread, wireVars, clientVars
<1>4. CASE \E h \in Handlers : Answered(h)
  BY <1>1, <1>4 DEF Answered, wireVars, client!Respond
<1>5. CASE \E op \in Calls \X client!Attempts : Unanswered(op)
  BY <1>1, <1>5 DEF Unanswered, wireVars, client!Respond
<1>6. CASE ClientWait \/ (\E c \in Calls : ClientBegin(c))
  BY <1>1, <1>6 DEF ClientWait, ClientBegin, wireVars, client!WaitFront, client!Begin
<1>7. CASE \E p \in ClientPollers, e \in clEvents : ClientPoll(p, e)
  BY <1>1, <1>7 DEF ClientPoll, wireVars, client!Poll
<1>8. CASE \/ ServerStops
           \/ \E h \in Handlers : ServerAnswerSent(h)
           \/ \E p \in Pollers, e \in events : ServerPoll(p, e)
  BY <1>1, <1>8, ServerRests DEF wireVars, clientVars
<1>9. CASE UNCHANGED allVars
  BY <1>1, <1>9 DEF allVars, wireVars, clientVars
<1>10. QED
  BY <1>2, <1>3, <1>4, <1>5, <1>6, <1>7, <1>8, <1>9, HandleIsOnce DEF EndToEndNext

\* At first nothing is carried, and no call has been answered.
LEMMA InitIsOnce == EndToEndInit => WireInv /\ once!Init
<1> SUFFICES ASSUME EndToEndInit
             PROVE  WireInv /\ once!Init
  OBVIOUS
<1>1. /\ carries = [h \in Handlers |-> None] /\ said = [h \in Handlers |-> "none"]
      /\ clEvents = {} /\ \A p \in ClientPollers : clPc[p] = "next"
      /\ replies = [c \in Calls |-> 0] /\ promise = [c \in Calls |-> "empty"]
  BY DEF EndToEndInit, client!Init, client!CQInit
<1>2. \A c \in Calls : CarriedOut(c) = {}
  BY <1>1 DEF CarriedOut
<1>3. once!Init
  BY <1>1, <1>2, FS_EmptySet DEF once!Init
<1>4. QED
  BY <1>1, <1>3 DEF WireInv

\* WireInv holds in every state of client and server together.
THEOREM WireInvariance == EndToEndSpec => []WireInv
<1>1. IInv /\ clientProofs!IInv /\ WireInv /\ [EndToEndNext]_allVars => WireInv'
  BY WireStep
<1>2. QED
  BY <1>1, InitIsOnce, SidesInvariance, PTL DEF EndToEndSpec

\* Retries, deadlines that race with late answers and a server that stops in the middle
\* make at-least-once calls: each is carried out at most once per attempt, a success was
\* carried out and its callback run once (client_async.hpp:32-59 against
\* server_async.hpp:53-76).
THEOREM CallsAreMadeAtLeastOnce == EndToEndSpec => ImplementsAtLeastOnce
<1>1. IInv /\ clientProofs!IInv /\ WireInv /\ WireInv' /\ [EndToEndNext]_allVars
        => [once!Next]_(once!vars)
  BY StepIsOnce
<1>2. QED
  BY <1>1, InitIsOnce, SidesInvariance, WireInvariance, PTL
     DEF EndToEndSpec, ImplementsAtLeastOnce, once!Spec
===============================================================================
