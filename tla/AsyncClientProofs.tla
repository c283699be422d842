-------------------------- MODULE AsyncClientProofs ---------------------------
(***************************************************************************)
(* Theorems about AsyncClient, for any calls, number of retries, polling     *)
(* threads and order of waiting. The argument: the attempts of a call are     *)
(* made in order, and only the newest is with grpc, in the queue or on its    *)
(* way through handle(); the older ones have at most to let go of the promise. *)
(* So the newest attempt has the promise until it sets it, and nothing can     *)
(* follow. IInv says so, one lemma per conjunct shows that every action keeps  *)
(* it, and under it every step is a step of RemoteCalls or changes nothing     *)
(* there.                                                                    *)
(***************************************************************************)
EXTENDS AsyncClient, CompletionQueueProofs

Handlers == Calls \X Attempts

\* The attempt of call c that was made last.
Newest(c, a) == a \in Attempts /\ made[c] = 0 .. a

\* A handler is outstanding or with one thread, and alive as long as it is either.
PlacesApart ==
  /\ Outstanding \subseteq alive
  /\ \A p \in Pollers : pc[p] # "next" => at[p] \in alive /\ at[p] \notin Outstanding
  /\ \A p, q \in Pollers : pc[p] # "next" /\ pc[q] # "next" /\ at[p] = at[q] => p = q

\* The attempts of a call are made one after the other.
MadeInOrder ==
  /\ \A c \in Calls : made[c] = {} \/ \E a \in Attempts : Newest(c, a)
  /\ \A h \in alive : h[2] \in made[h[1]]

\* Only the newest attempt waits for an answer.
NewestIsOutstanding ==
  \A c \in Calls, a \in Attempts : <<c, a>> \in Outstanding => Newest(c, a) /\ replies[c] = 0

\* What a thread that is in handle() may rely on.
ThreadsProgress ==
  \A p \in Pollers, c \in Calls, a \in Attempts : at[p] = <<c, a>> =>
    /\ pc[p] \in {"callback", "retry", "fail"} => Newest(c, a) /\ replies[c] = 0
    /\ pc[p] = "retry" => a < Retries
    /\ pc[p] = "fail" => a = Retries
    /\ pc[p] = "release" => a + 1 \in made[c]
    /\ pc[p] = "delete" => \/ Newest(c, a) /\ replies[c] = 1
                           \/ a + 1 \in made[c] /\ a \notin holds[c]

\* The newest attempt has the promise, and lives, until the promise is set; another
\* has it only while it hands it over.
NewestHolds ==
  \A c \in Calls, a \in Attempts :
    /\ Newest(c, a) => /\ promise[c] = "empty" <=> <<c, a>> \in alive
                       /\ promise[c] = "empty" => a \in holds[c]
    /\ a \in holds[c] =>
         /\ <<c, a>> \in alive
         /\ Newest(c, a) \/ \E p \in Pollers : at[p] = <<c, a>> /\ pc[p] = "release"

\* The promise says how the call ended.
ResultsAreTrue ==
  /\ ~setTwice
  /\ \A c \in Calls :
       /\ replies[c] \in {0, 1}
       /\ made[c] = {} => replies[c] = 0 /\ promise[c] = "empty"
       /\ promise[c] = "ok" => replies[c] = 1
       /\ promise[c] = "error" => replies[c] = 0 /\ made[c] = Attempts

\* The inductive invariant.
IInv ==
  /\ TypeOK
  /\ QueueOK(Handlers)
  /\ PlacesApart
  /\ MadeInOrder
  /\ NewestIsOutstanding
  /\ ThreadsProgress
  /\ NewestHolds
  /\ ResultsAreTrue

-------------------------------------------------------------------------------

\* There is one newest attempt.
LEMMA NewestIsOne ==
  ASSUME NEW c, NEW a, NEW b, Newest(c, a), Newest(c, b)
  PROVE  a = b
BY RetriesIsNatural DEF Newest, Attempts

\* A thread in handle() is in the handler of some attempt.
LEMMA InHandle ==
  ASSUME IInv, NEW p \in Pollers, pc[p] # "next"
  PROVE  \E c \in Calls, a \in Attempts : at[p] = <<c, a>> /\ <<c, a>> \in alive
<1>1. at[p] \in alive /\ alive \subseteq Calls \X Attempts
  BY DEF IInv, PlacesApart, TypeOK
<1>2. QED
  BY <1>1

\* The constructor starts an operation that is not under way.
LEMMA BeginEffect ==
  ASSUME IInv, NEW c \in Calls, Begin(c)
  PROVE  /\ made[c] = {} /\ 0 \in Attempts
         /\ made' = [made EXCEPT ![c] = 0 .. 0]
         /\ <<c, 0>> \notin alive
         /\ QueueOK(Handlers)'
         /\ Outstanding' = Outstanding \cup {<<c, 0>>}
<1>1. /\ made[c] = {} /\ made' = [made EXCEPT ![c] = @ \cup {0}]
      /\ StartOp(<<c, 0>>) /\ UNCHANGED events
  BY DEF Begin, Construct
<1>2. 0 \in Attempts /\ 0 .. 0 = {0}
  BY RetriesIsNatural DEF Attempts
<1>3. made' = [made EXCEPT ![c] = 0 .. 0]
  BY <1>1, <1>2
<1> DEFINE op == <<c, 0>>
<1>4. op \in Handlers /\ op[1] = c
  BY <1>2 DEF Handlers
<1>5. StartOp(op)
  BY <1>1
<1> HIDE DEF op
<1>6. op \notin alive /\ op \notin Outstanding
  BY <1>1, <1>4 DEF IInv, MadeInOrder, PlacesApart
<1>7. QueueOK(Handlers)' /\ Outstanding' = Outstanding \cup {op}
  BY <1>1, <1>4, <1>5, <1>6, StartingOp DEF IInv
<1>8. QED
  BY <1>1, <1>2, <1>3, <1>6, <1>7 DEF op

\* The next attempt is constructed by the thread that has the newest, and only while
\* nretries_ allows it.
LEMMA RetryEffect ==
  ASSUME IInv, NEW p \in Pollers, Retry(p)
  PROVE  \E c \in Calls, a \in Attempts :
           /\ at[p] = <<c, a>> /\ <<c, a>> \in alive
           /\ Newest(c, a) /\ replies[c] = 0
           /\ a + 1 \in Attempts /\ 0 .. (a + 1) \subseteq Attempts
           /\ made' = [made EXCEPT ![c] = 0 .. (a + 1)]
           /\ alive' = alive \cup {<<c, a + 1>>} /\ <<c, a + 1>> \notin alive
           /\ holds' = [holds EXCEPT ![c] = @ \cup {a + 1}]
           /\ QueueOK(Handlers)'
           /\ Outstanding' = Outstanding \cup {<<c, a + 1>>}
<1>1. PICK c \in Calls, a \in Attempts : at[p] = <<c, a>> /\ <<c, a>> \in alive
  BY InHandle DEF Retry
<1>2. Newest(c, a) /\ replies[c] = 0 /\ a < Retries
  BY <1>1 DEF Retry, IInv, ThreadsProgress
<1>3. /\ a + 1 \in Attempts /\ 0 .. (a + 1) \subseteq Attempts
      /\ (0 .. a) \cup {a + 1} = 0 .. (a + 1) /\ a + 1 \notin 0 .. a
  BY <1>2, RetriesIsNatural DEF Attempts
<1> DEFINE op == <<c, a + 1>>
<1>4. /\ made' = [made EXCEPT ![c] = @ \cup {a + 1}]
      /\ alive' = alive \cup {op}
      /\ holds' = [holds EXCEPT ![c] = @ \cup {a + 1}]
      /\ StartOp(op) /\ UNCHANGED events
  BY <1>1 DEF Retry, Construct
<1>5. made' = [made EXCEPT ![c] = 0 .. (a + 1)]
  BY <1>2, <1>3, <1>4 DEF Newest
<1>6. op \in Handlers /\ op[1] = c /\ op[2] = a + 1
  BY <1>3 DEF Handlers
<1> HIDE DEF op
<1>7. op \notin alive /\ op \notin Outstanding
  <2>1. a + 1 \notin made[c]
    BY <1>2, <1>3 DEF Newest
  <2>2. QED
    BY <1>6, <2>1 DEF IInv, MadeInOrder, PlacesApart
<1>8. QueueOK(Handlers)' /\ Outstanding' = Outstanding \cup {op}
  BY <1>4, <1>6, <1>7, StartingOp DEF IInv
<1>9. QED
  BY <1>1, <1>2, <1>3, <1>4, <1>5, <1>7, <1>8 DEF op

\* A completed operation is still outstanding.
LEMMA RespondEffect ==
  ASSUME IInv, NEW op \in started, NEW ok \in BOOLEAN, Respond(op, ok)
  PROVE  QueueOK(Handlers)' /\ Outstanding' = Outstanding
BY Completing DEF Respond, IInv

\* The thread that takes a completion is alone with the newest attempt.
LEMMA PollEffect ==
  ASSUME IInv, NEW p \in Pollers, NEW e \in events, Poll(p, e)
  PROVE  \E c \in Calls, a \in Attempts :
           /\ e.op = <<c, a>> /\ <<c, a>> \in Outstanding
           /\ Newest(c, a) /\ replies[c] = 0
           /\ at' = [at EXCEPT ![p] = <<c, a>>]
           /\ pc[p] = "next"
           /\ \/ pc' = [pc EXCEPT ![p] = "callback"]
              \/ pc' = [pc EXCEPT ![p] = "retry"] /\ a < Retries
              \/ pc' = [pc EXCEPT ![p] = "fail"] /\ a = Retries
           /\ QueueOK(Handlers)'
           /\ Outstanding' = Outstanding \ {<<c, a>>}
<1>1. TakeEvent(e) /\ UNCHANGED started /\ QueueOK(Handlers)
  BY DEF Poll, IInv
<1>2. /\ QueueOK(Handlers)' /\ e.op \in Handlers /\ e.op \in Outstanding
      /\ Outstanding' = Outstanding \ {e.op}
  BY <1>1, Taking
<1>3. PICK c \in Calls, a \in Attempts : e.op = <<c, a>>
  BY <1>2 DEF Handlers
<1>4. Newest(c, a) /\ replies[c] = 0
  BY <1>2, <1>3 DEF IInv, NewestIsOutstanding
<1>5. e.op[2] = a /\ (a < Retries \/ a = Retries)
  BY <1>3, RetriesIsNatural DEF Attempts
<1>6. /\ pc[p] = "next" /\ at' = [at EXCEPT ![p] = e.op]
      /\ \/ pc' = [pc EXCEPT ![p] = "callback"]
         \/ pc' = [pc EXCEPT ![p] = "retry"] /\ a < Retries
         \/ pc' = [pc EXCEPT ![p] = "fail"] /\ ~(a < Retries)
  BY <1>5 DEF Poll, MayRetry
<1>7. QED
  BY <1>2, <1>3, <1>4, <1>5, <1>6

\* Whoever is in the callback has the newest attempt, with the promise unset.
LEMMA CallbackEffect ==
  ASSUME IInv, NEW p \in Pollers, Callback(p) \/ CallbackThrows(p)
  PROVE  \E c \in Calls, a \in Attempts :
           /\ at[p] = <<c, a>> /\ at[p][1] = c /\ <<c, a>> \in alive
           /\ Newest(c, a) /\ replies[c] = 0 /\ promise[c] = "empty"
           /\ replies' = [replies EXCEPT ![c] = 1]
<1>1. pc[p] = "callback" /\ replies' = [replies EXCEPT ![at[p][1]] = @ + 1]
  BY DEF Callback, CallbackThrows
<1>2. PICK c \in Calls, a \in Attempts : at[p] = <<c, a>> /\ <<c, a>> \in alive
  BY <1>1, InHandle
<1>3. Newest(c, a) /\ replies[c] = 0 /\ promise[c] = "empty"
  BY <1>1, <1>2 DEF IInv, ThreadsProgress, NewestHolds
<1>4. at[p][1] = c /\ replies[c] + 1 = 1
  BY <1>2, <1>3
<1>5. replies' = [replies EXCEPT ![c] = 1]
  BY <1>1, <1>4, Zenon
<1>6. QED
  BY <1>2, <1>3, <1>4, <1>5

\* Whoever lets go of the promise has handed it to a newer attempt.
LEMMA ReleaseEffect ==
  ASSUME IInv, NEW p \in Pollers, Release(p)
  PROVE  \E c \in Calls, a \in Attempts :
           /\ at[p] = <<c, a>> /\ <<c, a>> \in alive
           /\ a + 1 \in made[c] /\ ~Newest(c, a)
           /\ holds' = [holds EXCEPT ![c] = @ \ {a}]
<1>1. PICK c \in Calls, a \in Attempts : at[p] = <<c, a>> /\ <<c, a>> \in alive
  BY InHandle DEF Release
<1>2. a + 1 \in made[c] /\ a + 1 \notin 0 .. a
  BY <1>1, RetriesIsNatural DEF Release, IInv, ThreadsProgress, Attempts
<1>3. holds' = [holds EXCEPT ![c] = @ \ {a}]
  BY <1>1 DEF Release, Released
<1>4. QED
  BY <1>1, <1>2, <1>3 DEF Newest

\* Who deletes a handler sets its promise exactly if it is the newest attempt's.
LEMMA DeleteEffect ==
  ASSUME IInv, NEW p \in Pollers, Delete(p)
  PROVE  \E c \in Calls, a \in Attempts :
           /\ at[p] = <<c, a>> /\ <<c, a>> \in alive
           /\ alive' = alive \ {<<c, a>>}
           /\ holds' = [holds EXCEPT ![c] = @ \ {a}]
           /\ setTwice' = setTwice
           /\ \/ /\ Newest(c, a) /\ promise[c] = "empty"
                 /\ promise' = [promise EXCEPT ![c] = "ok"] /\ replies[c] = 1
              \/ /\ Newest(c, a) /\ promise[c] = "empty"
                 /\ promise' = [promise EXCEPT ![c] = "error"] /\ replies[c] = 0
                 /\ made[c] = Attempts
              \/ ~Newest(c, a) /\ a \notin holds[c] /\ promise' = promise
<1>1. pc[p] \in {"delete", "fail"}
  BY DEF Delete
<1>2. PICK c \in Calls, a \in Attempts : at[p] = <<c, a>> /\ <<c, a>> \in alive
  BY <1>1, InHandle
<1>3. at[p][1] = c /\ at[p][2] = a
  BY <1>2
<1>4. /\ alive' = alive \ {<<c, a>>}
      /\ holds' = [holds EXCEPT ![c] = @ \ {a}]
      /\ a \notin holds[c] => promise' = promise /\ setTwice' = setTwice
      /\ a \in holds[c] /\ promise[c] = "empty" =>
           promise' = [promise EXCEPT ![c] = Outcome(p)] /\ setTwice' = setTwice
  BY <1>3, Zenon DEF Delete
<1>5. CASE Newest(c, a)
  <2>1. promise[c] = "empty" /\ a \in holds[c]
    BY <1>2, <1>5 DEF IInv, NewestHolds
  <2>2. a + 1 \notin made[c]
    BY <1>5, RetriesIsNatural DEF Newest, Attempts
  <2>3. CASE pc[p] = "fail"
    <3>1. replies[c] = 0 /\ made[c] = Attempts
      BY <1>2, <1>5, <2>3 DEF IInv, ThreadsProgress, Newest, Attempts
    <3>2. QED
      BY <1>2, <1>4, <1>5, <2>1, <2>3, <3>1 DEF Outcome
  <2>4. CASE pc[p] = "delete"
    <3>1. replies[c] = 1
      BY <1>2, <2>2, <2>4 DEF IInv, ThreadsProgress
    <3>2. QED
      BY <1>2, <1>4, <1>5, <2>1, <2>4, <3>1 DEF Outcome
  <2>5. QED
    BY <1>1, <2>3, <2>4
<1>6. CASE ~Newest(c, a)
  <2>1. a \notin holds[c]
    BY <1>1, <1>2, <1>6 DEF IInv, ThreadsProgress
  <2>2. QED
    BY <1>2, <1>4, <1>6, <2>1
<1>7. QED
  BY <1>5, <1>6

-------------------------------------------------------------------------------

\* The queue is used as CompletionQueueProofs asks for.
LEMMA QueueStep ==
  ASSUME IInv, [Next]_vars
  PROVE  QueueOK(Handlers)'
<1>0. ASSUME UNCHANGED cqVars
      PROVE  QueueOK(Handlers)'
  BY <1>0, Resting DEF IInv
<1>1. ASSUME NEW c \in Calls, Begin(c)
      PROVE  QueueOK(Handlers)'
  BY <1>1, BeginEffect
<1>2. ASSUME NEW op \in started, NEW ok \in BOOLEAN, Respond(op, ok)
      PROVE  QueueOK(Handlers)'
  BY <1>2, RespondEffect
<1>3. ASSUME NEW p \in Pollers, NEW e \in events, Poll(p, e)
      PROVE  QueueOK(Handlers)'
  BY <1>3, PollEffect
<1>4. ASSUME NEW p \in Pollers, Callback(p)
      PROVE  QueueOK(Handlers)'
  BY <1>0, <1>4 DEF Callback
<1>5. ASSUME NEW p \in Pollers, CallbackThrows(p)
      PROVE  QueueOK(Handlers)'
  BY <1>0, <1>5 DEF CallbackThrows
<1>6. ASSUME NEW p \in Pollers, Retry(p)
      PROVE  QueueOK(Handlers)'
  BY <1>6, RetryEffect
<1>7. ASSUME NEW p \in Pollers, Release(p)
      PROVE  QueueOK(Handlers)'
  BY <1>0, <1>7 DEF Release
<1>8. ASSUME NEW p \in Pollers, Delete(p)
      PROVE  QueueOK(Handlers)'
  BY <1>0, <1>8 DEF Delete
<1>9. CASE WaitFront
  BY <1>0, <1>9 DEF WaitFront
<1>10. CASE UNCHANGED vars
  BY <1>0, <1>10 DEF vars, cqVars
<1>11. QED
  BY <1>1, <1>2, <1>3, <1>4, <1>5, <1>6, <1>7, <1>8, <1>9, <1>10 DEF Next, Handle

\* Every step keeps the types.
LEMMA TypeStep ==
  ASSUME IInv, [Next]_vars
  PROVE  TypeOK'
<1>0. started' \subseteq Calls \X Attempts /\ events' \subseteq [op : Calls \X Attempts, ok : BOOLEAN]
  BY QueueStep DEF QueueOK, Handlers
<1> USE <1>0 DEF IInv, TypeOK, waiterVars
<1>1. ASSUME NEW c \in Calls, Begin(c)
      PROVE  TypeOK'
  <2>1. 0 .. 0 = {0} /\ 0 \in Attempts
    BY RetriesIsNatural DEF Attempts
  <2>2. QED
    BY <1>1, <2>1, BeginEffect DEF Begin, Construct
<1>2. ASSUME NEW op \in started, NEW ok \in BOOLEAN, Respond(op, ok)
      PROVE  TypeOK'
  BY <1>2 DEF Respond
<1>3. ASSUME NEW p \in Pollers, NEW e \in events, Poll(p, e)
      PROVE  TypeOK'
  <2>1. PICK c \in Calls, a \in Attempts :
          /\ at' = [at EXCEPT ![p] = <<c, a>>]
          /\ \E k \in {"callback", "retry", "fail"} : pc' = [pc EXCEPT ![p] = k]
    BY <1>3, PollEffect
  <2>2. QED
    BY <1>3, <2>1 DEF Poll
<1>4. ASSUME NEW p \in Pollers, Callback(p)
      PROVE  TypeOK'
  <2>1. PICK c \in Calls, a \in Attempts : at[p][1] = c /\ replies' = [replies EXCEPT ![c] = 1]
    BY <1>4, CallbackEffect
  <2>2. replies' \in [Calls -> 0 .. Retries + 1]
    BY <2>1, RetriesIsNatural
  <2>3. QED
    BY <1>4, <2>2 DEF Callback
<1>5. ASSUME NEW p \in Pollers, CallbackThrows(p)
      PROVE  TypeOK'
  <2>1. PICK c \in Calls, a \in Attempts : at[p][1] = c /\ replies' = [replies EXCEPT ![c] = 1]
    BY <1>5, CallbackEffect
  <2>2. replies' \in [Calls -> 0 .. Retries + 1]
    BY <2>1, RetriesIsNatural
  <2>3. QED
    BY <1>5, <2>1, <2>2 DEF CallbackThrows
<1>6. ASSUME NEW p \in Pollers, Retry(p)
      PROVE  TypeOK'
  <2>1. PICK c \in Calls, a \in Attempts :
          /\ a + 1 \in Attempts /\ 0 .. (a + 1) \subseteq Attempts
          /\ made' = [made EXCEPT ![c] = 0 .. (a + 1)]
          /\ alive' = alive \cup {<<c, a + 1>>}
          /\ holds' = [holds EXCEPT ![c] = @ \cup {a + 1}]
    BY <1>6, RetryEffect
  <2>2. QED
    BY <1>6, <2>1 DEF Retry
<1>7. ASSUME NEW p \in Pollers, Release(p)
      PROVE  TypeOK'
  <2>1. PICK c \in Calls, a \in Attempts : holds' = [holds EXCEPT ![c] = @ \ {a}]
    BY <1>7, ReleaseEffect, Zenon
  <2>2. QED
    BY <1>7, <2>1 DEF Release
<1>8. ASSUME NEW p \in Pollers, Delete(p)
      PROVE  TypeOK'
  <2>1. PICK c \in Calls, a \in Attempts :
          /\ alive' = alive \ {<<c, a>>}
          /\ holds' = [holds EXCEPT ![c] = @ \ {a}]
          /\ setTwice' = setTwice
          /\ \/ promise' = [promise EXCEPT ![c] = "ok"]
             \/ promise' = [promise EXCEPT ![c] = "error"]
             \/ promise' = promise
    BY <1>8, DeleteEffect
  <2>2. QED
    <3>1. /\ pc' = [pc EXCEPT ![p] = "next"] /\ at' = [at EXCEPT ![p] = None]
          /\ UNCHANGED <<made, replies, threw, waiterVars>>
      BY <1>8 DEF Delete
    <3>2. QED
      BY <2>1, <3>1
<1>9. CASE WaitFront
  BY <1>9 DEF WaitFront
<1>10. CASE UNCHANGED vars
  BY <1>10 DEF vars
<1>11. QED
  BY <1>1, <1>2, <1>3, <1>4, <1>5, <1>6, <1>7, <1>8, <1>9, <1>10 DEF Next, Handle

\* No two threads or tags meet in a handler, and none outlives it.
LEMMA PlacesStep ==
  ASSUME IInv, [Next]_vars
  PROVE  PlacesApart'
<1> USE DEF PlacesApart
<1>0. /\ PlacesApart
      /\ pc \in [Pollers -> {"next", "callback", "retry", "release", "delete", "fail"}]
      /\ at \in [Pollers -> (Calls \X Attempts) \cup {None}]
  BY DEF IInv, TypeOK
<1>keep. ASSUME UNCHANGED <<cqVars, alive, at>>, NEW p \in Pollers, pc[p] # "next",
             NEW next, pc' = [pc EXCEPT ![p] = next]
      PROVE  PlacesApart'
  BY <1>0, <1>keep DEF Outstanding, cqVars
<1>rest. ASSUME UNCHANGED <<Outstanding, alive, pc, at>>
      PROVE  PlacesApart'
  BY <1>0, <1>rest
<1>1. ASSUME NEW c \in Calls, Begin(c)
      PROVE  PlacesApart'
  <2>1. Outstanding' = Outstanding \cup {<<c, 0>>} /\ <<c, 0>> \notin alive
    BY <1>1, BeginEffect
  <2>2. alive' = alive \cup {<<c, 0>>} /\ UNCHANGED <<pc, at>>
    BY <1>1 DEF Begin, Construct
  <2>3. QED
    BY <1>0, <2>1, <2>2
<1>2. ASSUME NEW op \in started, NEW ok \in BOOLEAN, Respond(op, ok)
      PROVE  PlacesApart'
  BY <1>2, <1>rest, RespondEffect DEF Respond
<1>3. ASSUME NEW p \in Pollers, NEW e \in events, Poll(p, e)
      PROVE  PlacesApart'
  <2>1. PICK c \in Calls, a \in Attempts :
          /\ <<c, a>> \in Outstanding /\ pc[p] = "next"
          /\ at' = [at EXCEPT ![p] = <<c, a>>]
          /\ \E k \in {"callback", "retry", "fail"} : pc' = [pc EXCEPT ![p] = k]
          /\ Outstanding' = Outstanding \ {<<c, a>>}
    BY <1>3, PollEffect
  <2>2. alive' = alive
    BY <1>3 DEF Poll
  <2>3. QED
    BY <1>0, <2>1, <2>2
<1>4. ASSUME NEW p \in Pollers, Callback(p)
      PROVE  PlacesApart'
  BY <1>4, <1>keep DEF Callback
<1>5. ASSUME NEW p \in Pollers, CallbackThrows(p)
      PROVE  PlacesApart'
  <2>1. /\ pc' = [pc EXCEPT ![p] = "next"] /\ at' = [at EXCEPT ![p] = None]
        /\ UNCHANGED <<alive, Outstanding>>
    BY <1>5 DEF CallbackThrows, Outstanding, cqVars
  <2>2. QED
    BY <1>0, <2>1
<1>6. ASSUME NEW p \in Pollers, Retry(p)
      PROVE  PlacesApart'
  <2>1. PICK c \in Calls, a \in Attempts :
          /\ at[p] = <<c, a>> /\ <<c, a>> \in alive
          /\ alive' = alive \cup {<<c, a + 1>>} /\ <<c, a + 1>> \notin alive
          /\ Outstanding' = Outstanding \cup {<<c, a + 1>>}
    BY <1>6, RetryEffect
  <2>2. pc[p] = "retry" /\ pc' = [pc EXCEPT ![p] = "release"] /\ at' = at
    BY <1>6 DEF Retry
  <2>3. QED
    BY <1>0, <2>1, <2>2
<1>7. ASSUME NEW p \in Pollers, Release(p)
      PROVE  PlacesApart'
  BY <1>7, <1>keep DEF Release
<1>8. ASSUME NEW p \in Pollers, Delete(p)
      PROVE  PlacesApart'
  <2>1. PICK c \in Calls, a \in Attempts :
          /\ at[p] = <<c, a>>
          /\ alive' = alive \ {<<c, a>>}
    BY <1>8, DeleteEffect
  <2>2. /\ pc[p] # "next" /\ pc' = [pc EXCEPT ![p] = "next"] /\ at' = [at EXCEPT ![p] = None]
        /\ Outstanding' = Outstanding
    BY <1>8 DEF Delete, Outstanding, cqVars
  <2>3. QED
    BY <1>0, <2>1, <2>2
<1>9. CASE WaitFront
  BY <1>9, <1>rest DEF WaitFront, Outstanding, cqVars
<1>10. CASE UNCHANGED vars
  BY <1>10, <1>rest DEF vars, Outstanding
<1>11. QED
  BY <1>1, <1>2, <1>3, <1>4, <1>5, <1>6, <1>7, <1>8, <1>9, <1>10 DEF Next, Handle

\* Attempts are constructed in order, and handlers only by their construction.
LEMMA MadeStep ==
  ASSUME IInv, [Next]_vars
  PROVE  MadeInOrder'
<1> USE DEF MadeInOrder
<1>0. MadeInOrder /\ made \in [Calls -> SUBSET Attempts] /\ alive \subseteq Handlers
  BY DEF IInv, TypeOK, Handlers
<1>keep. ASSUME UNCHANGED made, alive' \subseteq alive
       PROVE  MadeInOrder'
  BY <1>0, <1>keep DEF Newest
<1>1. ASSUME NEW c \in Calls, Begin(c)
      PROVE  MadeInOrder'
  <2>1. 0 \in Attempts /\ made' = [made EXCEPT ![c] = 0 .. 0] /\ made[c] = {}
    BY <1>1, BeginEffect
  <2>2. 0 \in 0 .. 0 /\ alive' = alive \cup {<<c, 0>>}
    BY <1>1 DEF Begin, Construct
  <2>3. \A d \in Calls : made'[d] = {} \/ \E a \in Attempts : Newest(d, a)'
    BY <1>0, <2>1 DEF Newest
  <2>4. \A h \in alive' : h[2] \in made'[h[1]]
    BY <1>0, <2>1, <2>2 DEF Handlers
  <2>5. QED
    BY <2>3, <2>4
<1>2. ASSUME NEW op \in started, NEW ok \in BOOLEAN, Respond(op, ok)
      PROVE  MadeInOrder'
  BY <1>2, <1>keep DEF Respond
<1>3. ASSUME NEW p \in Pollers, NEW e \in events, Poll(p, e)
      PROVE  MadeInOrder'
  BY <1>3, <1>keep DEF Poll
<1>4. ASSUME NEW p \in Pollers, Callback(p)
      PROVE  MadeInOrder'
  BY <1>4, <1>keep DEF Callback
<1>5. ASSUME NEW p \in Pollers, CallbackThrows(p)
      PROVE  MadeInOrder'
  BY <1>5, <1>keep DEF CallbackThrows
<1>6. ASSUME NEW p \in Pollers, Retry(p)
      PROVE  MadeInOrder'
  <2>1. PICK c \in Calls, a \in Attempts :
          /\ made[c] = 0 .. a /\ a + 1 \in Attempts
          /\ made' = [made EXCEPT ![c] = 0 .. (a + 1)]
          /\ alive' = alive \cup {<<c, a + 1>>}
    BY <1>6, RetryEffect DEF Newest
  <2>2. \A d \in Calls : made'[d] = {} \/ \E b \in Attempts : Newest(d, b)'
    BY <1>0, <2>1 DEF Newest
  <2>3. a + 1 \in 0 .. (a + 1) /\ 0 .. a \subseteq 0 .. (a + 1)
    BY <2>1, RetriesIsNatural DEF Attempts
  <2>4. \A d \in Calls : made[d] \subseteq made'[d]
    BY <1>0, <2>1, <2>3
  <2>5. \A h \in alive' : h[2] \in made'[h[1]]
    BY <1>0, <2>1, <2>3, <2>4 DEF Handlers
  <2>6. QED
    BY <2>2, <2>5
<1>7. ASSUME NEW p \in Pollers, Release(p)
      PROVE  MadeInOrder'
  BY <1>7, <1>keep DEF Release
<1>8. ASSUME NEW p \in Pollers, Delete(p)
      PROVE  MadeInOrder'
  BY <1>8, <1>keep, DeleteEffect DEF Delete
<1>9. CASE WaitFront
  BY <1>9, <1>keep DEF WaitFront
<1>10. CASE UNCHANGED vars
  BY <1>10, <1>keep DEF vars
<1>11. QED
  BY <1>1, <1>2, <1>3, <1>4, <1>5, <1>6, <1>7, <1>8, <1>9, <1>10 DEF Next, Handle

\* An attempt that grpc has is the newest, and no callback has run.
LEMMA OutstandingStep ==
  ASSUME IInv, [Next]_vars
  PROVE  NewestIsOutstanding'
<1> USE DEF NewestIsOutstanding
<1>0. /\ NewestIsOutstanding /\ PlacesApart /\ MadeInOrder
      /\ made \in [Calls -> SUBSET Attempts]
      /\ replies \in [Calls -> 0 .. Retries + 1]
  BY DEF IInv, TypeOK
<1>keep. ASSUME UNCHANGED <<Outstanding, made, replies>>
       PROVE  NewestIsOutstanding'
  BY <1>0, <1>keep DEF Newest
<1>1. ASSUME NEW c \in Calls, Begin(c)
      PROVE  NewestIsOutstanding'
  <2>1. /\ Outstanding' = Outstanding \cup {<<c, 0>>}
        /\ made[c] = {} /\ made' = [made EXCEPT ![c] = 0 .. 0]
        /\ UNCHANGED replies
        /\ replies[c] = 0
    BY <1>1, BeginEffect DEF Begin, IInv, ResultsAreTrue
  <2>2. \A a \in Attempts : <<c, a>> \notin Outstanding
    BY <1>0, <2>1 DEF Newest, Attempts
  <2>3. QED
    BY <1>0, <2>1, <2>2 DEF Newest
<1>2. ASSUME NEW op \in started, NEW ok \in BOOLEAN, Respond(op, ok)
      PROVE  NewestIsOutstanding'
  BY <1>2, <1>keep, RespondEffect DEF Respond
<1>3. ASSUME NEW p \in Pollers, NEW e \in events, Poll(p, e)
      PROVE  NewestIsOutstanding'
  <2>1. PICK c \in Calls, a \in Attempts : Outstanding' = Outstanding \ {<<c, a>>}
    BY <1>3, PollEffect
  <2>2. UNCHANGED <<made, replies>>
    BY <1>3 DEF Poll
  <2>3. QED
    BY <1>0, <2>1, <2>2 DEF Newest
<1>4. ASSUME NEW p \in Pollers, Callback(p)
      PROVE  NewestIsOutstanding'
  <2>1. PICK c \in Calls, a \in Attempts :
          at[p] = <<c, a>> /\ Newest(c, a) /\ replies' = [replies EXCEPT ![c] = 1]
    BY <1>4, CallbackEffect
  <2>2. \A b \in Attempts : <<c, b>> \notin Outstanding
    BY <1>0, <1>4, <2>1, NewestIsOne DEF PlacesApart, Callback
  <2>3. /\ UNCHANGED <<Outstanding, made>>
        /\ \A d \in Calls : d # c => replies'[d] = replies[d]
    BY <1>0, <1>4, <2>1 DEF Callback, Outstanding, cqVars
  <2>4. QED
    BY <1>0, <2>2, <2>3 DEF Newest
<1>5. ASSUME NEW p \in Pollers, CallbackThrows(p)
      PROVE  NewestIsOutstanding'
  <2>1. PICK c \in Calls, a \in Attempts :
          at[p] = <<c, a>> /\ Newest(c, a) /\ replies' = [replies EXCEPT ![c] = 1]
    BY <1>5, CallbackEffect
  <2>2. \A b \in Attempts : <<c, b>> \notin Outstanding
    BY <1>0, <1>5, <2>1, NewestIsOne DEF PlacesApart, CallbackThrows
  <2>3. /\ UNCHANGED <<Outstanding, made>>
        /\ \A d \in Calls : d # c => replies'[d] = replies[d]
    BY <1>0, <1>5, <2>1 DEF CallbackThrows, Outstanding, cqVars
  <2>4. QED
    BY <1>0, <2>2, <2>3 DEF Newest
<1>6. ASSUME NEW p \in Pollers, Retry(p)
      PROVE  NewestIsOutstanding'
  <2>1. PICK c \in Calls, a \in Attempts :
          /\ at[p] = <<c, a>> /\ Newest(c, a) /\ replies[c] = 0
          /\ made' = [made EXCEPT ![c] = 0 .. (a + 1)]
          /\ Outstanding' = Outstanding \cup {<<c, a + 1>>}
          /\ a + 1 \in Attempts
    BY <1>6, RetryEffect
  <2>2. \A b \in Attempts : <<c, b>> \notin Outstanding
    BY <1>0, <1>6, <2>1, NewestIsOne DEF PlacesApart, Retry
  <2>3. replies' = replies
    BY <1>6 DEF Retry
  <2>4. QED
    BY <1>0, <2>1, <2>2, <2>3 DEF Newest
<1>7. ASSUME NEW p \in Pollers, Release(p)
      PROVE  NewestIsOutstanding'
  BY <1>7, <1>keep DEF Release, Outstanding, cqVars
<1>8. ASSUME NEW p \in Pollers, Delete(p)
      PROVE  NewestIsOutstanding'
  BY <1>8, <1>keep DEF Delete, Outstanding, cqVars
<1>9. CASE WaitFront
  BY <1>9, <1>keep DEF WaitFront, Outstanding, cqVars
<1>10. CASE UNCHANGED vars
  BY <1>10, <1>keep DEF vars, Outstanding
<1>11. QED
  BY <1>1, <1>2, <1>3, <1>4, <1>5, <1>6, <1>7, <1>8, <1>9, <1>10 DEF Next, Handle

\* What a thread in handle() relies on stays true while the others go on.
LEMMA ThreadsStep ==
  ASSUME IInv, [Next]_vars
  PROVE  ThreadsProgress'
<1> USE DEF ThreadsProgress
<1>0. /\ ThreadsProgress /\ PlacesApart
      /\ pc \in [Pollers -> {"next", "callback", "retry", "release", "delete", "fail"}]
      /\ at \in [Pollers -> (Calls \X Attempts) \cup {None}]
      /\ made \in [Calls -> SUBSET Attempts] /\ holds \in [Calls -> SUBSET Attempts]
      /\ replies \in [Calls -> 0 .. Retries + 1]
  BY DEF IInv, TypeOK
<1>rest. ASSUME UNCHANGED <<made, holds, replies, pc, at>>
         PROVE  ThreadsProgress'
  BY <1>0, <1>rest DEF Newest
<1>1. ASSUME NEW c \in Calls, Begin(c)
      PROVE  ThreadsProgress'
  <2>1. made[c] = {} /\ holds' = [holds EXCEPT ![c] = @ \cup {0}]
        /\ made' = [made EXCEPT ![c] = 0 .. 0]
        /\ UNCHANGED <<replies, pc, at>>
    BY <1>1, BeginEffect DEF Begin, Construct
  <2>2. \A p \in Pollers, a \in Attempts : at[p] = <<c, a>> => pc[p] = "next"
    BY <2>1, InHandle DEF IInv, PlacesApart, MadeInOrder
  <2>3. QED
    BY <1>0, <2>1, <2>2 DEF Newest
<1>2. ASSUME NEW op \in started, NEW ok \in BOOLEAN, Respond(op, ok)
      PROVE  ThreadsProgress'
  BY <1>2, <1>rest DEF Respond
<1>3. ASSUME NEW p \in Pollers, NEW e \in events, Poll(p, e)
      PROVE  ThreadsProgress'
  <2>1. PICK c \in Calls, a \in Attempts :
          /\ Newest(c, a) /\ replies[c] = 0
          /\ at' = [at EXCEPT ![p] = <<c, a>>]
          /\ \/ pc' = [pc EXCEPT ![p] = "callback"]
             \/ pc' = [pc EXCEPT ![p] = "retry"] /\ a < Retries
             \/ pc' = [pc EXCEPT ![p] = "fail"] /\ a = Retries
    BY <1>3, PollEffect
  <2>2. UNCHANGED <<made, holds, replies>>
    BY <1>3 DEF Poll
  <2> SUFFICES ASSUME NEW q \in Pollers, NEW d \in Calls, NEW b \in Attempts
               PROVE  ThreadsProgress!(q, d, b)'
    BY Zenon DEF ThreadsProgress
  <2>3. CASE q = p
    BY <1>0, <2>1, <2>2, <2>3 DEF Newest
  <2>4. CASE q # p
    BY <1>0, <2>1, <2>2, <2>4 DEF Newest
  <2>5. QED
    BY <2>3, <2>4
<1>4. ASSUME NEW p \in Pollers, Callback(p)
      PROVE  ThreadsProgress'
  <2>1. PICK c \in Calls, a \in Attempts :
          /\ at[p] = <<c, a>> /\ Newest(c, a) /\ replies[c] = 0
          /\ replies' = [replies EXCEPT ![c] = 1]
    BY <1>4, CallbackEffect
  <2>2. /\ pc[p] = "callback" /\ pc' = [pc EXCEPT ![p] = "delete"]
        /\ UNCHANGED <<made, holds, at>>
    BY <1>4, <2>1 DEF Callback
  <2>3. QED
    <3> SUFFICES ASSUME NEW q \in Pollers, NEW d \in Calls, NEW b \in Attempts, at'[q] = <<d, b>>
                 PROVE  ThreadsProgress!(q, d, b)!2'
      BY Zenon DEF ThreadsProgress
    <3>1. Newest(d, b)' <=> Newest(d, b)
      BY <2>2 DEF Newest
    <3>2. CASE q = p
      BY <1>0, <2>1, <2>2, <3>1, <3>2
    <3>3. CASE q # p /\ d # c
      BY <1>0, <2>1, <2>2, <3>1, <3>3
    <3>4. CASE q # p /\ d = c
      <4>1. at[q] = <<c, b>> /\ pc'[q] = pc[q] /\ (b # a \/ pc[q] = "next")
        BY <1>0, <2>1, <2>2, <3>4 DEF PlacesApart
      <4>2. Newest(c, b) => b = a
        BY <2>1, NewestIsOne
      <4>3. QED
        BY <1>0, <2>1, <2>2, <3>1, <3>4, <4>1, <4>2
    <3>5. QED
      BY <3>2, <3>3, <3>4
<1>5. ASSUME NEW p \in Pollers, CallbackThrows(p)
      PROVE  ThreadsProgress'
  <2>1. PICK c \in Calls, a \in Attempts :
          /\ at[p] = <<c, a>> /\ Newest(c, a) /\ replies[c] = 0
          /\ replies' = [replies EXCEPT ![c] = 1]
    BY <1>5, CallbackEffect
  <2>2. /\ pc[p] = "callback" /\ pc' = [pc EXCEPT ![p] = "next"]
        /\ at' = [at EXCEPT ![p] = None]
        /\ UNCHANGED <<made, holds>>
    BY <1>5, <2>1 DEF CallbackThrows
  <2>3. QED
    <3> SUFFICES ASSUME NEW q \in Pollers, NEW d \in Calls, NEW b \in Attempts, at'[q] = <<d, b>>
                 PROVE  ThreadsProgress!(q, d, b)!2'
      BY Zenon DEF ThreadsProgress
    <3>1. Newest(d, b)' <=> Newest(d, b)
      BY <2>2 DEF Newest
    <3>2. CASE q = p
      BY <1>0, <2>1, <2>2, <3>1, <3>2
    <3>3. CASE q # p /\ d # c
      BY <1>0, <2>1, <2>2, <3>1, <3>3
    <3>4. CASE q # p /\ d = c
      <4>1. at[q] = <<c, b>> /\ pc'[q] = pc[q] /\ (b # a \/ pc[q] = "next")
        BY <1>0, <2>1, <2>2, <3>4 DEF PlacesApart
      <4>2. Newest(c, b) => b = a
        BY <2>1, NewestIsOne
      <4>3. QED
        BY <1>0, <2>1, <2>2, <3>1, <3>4, <4>1, <4>2
    <3>5. QED
      BY <3>2, <3>3, <3>4
<1>6. ASSUME NEW p \in Pollers, Retry(p)
      PROVE  ThreadsProgress'
  <2>1. PICK c \in Calls, a \in Attempts :
          /\ at[p] = <<c, a>> /\ Newest(c, a) /\ replies[c] = 0 /\ a + 1 \in Attempts
          /\ made' = [made EXCEPT ![c] = 0 .. (a + 1)]
          /\ holds' = [holds EXCEPT ![c] = @ \cup {a + 1}]
    BY <1>6, RetryEffect
  <2>2. /\ pc[p] = "retry" /\ pc' = [pc EXCEPT ![p] = "release"]
        /\ UNCHANGED <<replies, at>>
    BY <1>6 DEF Retry
  <2>3. a + 1 \in 0 .. (a + 1) /\ 0 .. a \subseteq 0 .. (a + 1) /\ a + 1 \notin 0 .. a
    BY <2>1, RetriesIsNatural DEF Attempts
  <2>4. \A d \in Calls : made[d] \subseteq made'[d]
    BY <1>0, <2>1, <2>3 DEF Newest
  <2> SUFFICES ASSUME NEW q \in Pollers, NEW d \in Calls, NEW b \in Attempts, at[q] = <<d, b>>
               PROVE  ThreadsProgress!(q, d, b)!2'
    BY <2>2, Zenon DEF ThreadsProgress
  <2>5. CASE q = p
    BY <1>0, <2>1, <2>2, <2>3, <2>5
  <2>6. CASE q # p /\ d # c
    BY <1>0, <2>1, <2>2, <2>6 DEF Newest
  <2>7. CASE q # p /\ d = c
    <3>1. b # a \/ pc[q] = "next"
      BY <1>0, <2>1, <2>2, <2>7 DEF PlacesApart
    <3>2. pc[q] \notin {"callback", "retry", "fail"}
      BY <1>0, <2>1, <2>7, <3>1, NewestIsOne
    <3>3. pc[q] = "delete" => b + 1 \in made[c] /\ b \notin holds[c]
      BY <1>0, <2>1, <2>7, <3>1, NewestIsOne
    <3>4. b + 1 \in made[c] => b # a + 1
      BY <2>1, RetriesIsNatural DEF Newest, Attempts
    <3>5. pc'[q] = pc[q]
      BY <1>0, <2>2, <2>7
    <3>6. QED
      BY <1>0, <2>1, <2>2, <2>4, <2>7, <3>2, <3>3, <3>4, <3>5
  <2>8. QED
    BY <2>5, <2>6, <2>7
<1>7. ASSUME NEW p \in Pollers, Release(p)
      PROVE  ThreadsProgress'
  <2>1. PICK c \in Calls, a \in Attempts :
          /\ at[p] = <<c, a>> /\ <<c, a>> \in alive
          /\ a + 1 \in made[c] /\ ~Newest(c, a)
          /\ holds' = [holds EXCEPT ![c] = @ \ {a}]
    BY <1>7, ReleaseEffect, Zenon
  <2>2. /\ pc[p] = "release" /\ pc' = [pc EXCEPT ![p] = "delete"]
        /\ UNCHANGED <<made, replies, at>>
    BY <1>7 DEF Release
  <2>3. QED
    BY <1>0, <2>1, <2>2 DEF Newest
<1>8. ASSUME NEW p \in Pollers, Delete(p)
      PROVE  ThreadsProgress'
  <2>1. PICK c \in Calls, a \in Attempts : holds' = [holds EXCEPT ![c] = @ \ {a}]
    BY <1>8, DeleteEffect
  <2>2. /\ pc' = [pc EXCEPT ![p] = "next"] /\ at' = [at EXCEPT ![p] = None]
        /\ UNCHANGED <<made, replies>>
    BY <1>8 DEF Delete
  <2>3. QED
    BY <1>0, <2>1, <2>2 DEF Newest
<1>9. CASE WaitFront
  BY <1>9, <1>rest DEF WaitFront
<1>10. CASE UNCHANGED vars
  BY <1>10, <1>rest DEF vars
<1>11. QED
  BY <1>1, <1>2, <1>3, <1>4, <1>5, <1>6, <1>7, <1>8, <1>9, <1>10 DEF Next, Handle

\* The promise goes from the newest attempt to the one that becomes it.
LEMMA HoldsStep ==
  ASSUME IInv, [Next]_vars
  PROVE  NewestHolds'
<1> USE DEF NewestHolds
<1>0. /\ NewestHolds /\ PlacesApart /\ MadeInOrder
      /\ pc \in [Pollers -> {"next", "callback", "retry", "release", "delete", "fail"}]
      /\ at \in [Pollers -> (Calls \X Attempts) \cup {None}]
      /\ made \in [Calls -> SUBSET Attempts] /\ holds \in [Calls -> SUBSET Attempts]
      /\ promise \in [Calls -> {"empty", "ok", "error"}]
  BY DEF IInv, TypeOK
<1>rest. ASSUME UNCHANGED <<made, alive, holds, promise>>,
                \A q \in Pollers : pc[q] = "release" => pc'[q] = "release" /\ at'[q] = at[q]
         PROVE  NewestHolds'
  <2> SUFFICES ASSUME NEW c \in Calls, NEW a \in Attempts
               PROVE  NewestHolds!(c, a)'
    BY Zenon DEF NewestHolds
  <2>1. Newest(c, a)' <=> Newest(c, a)
    BY <1>rest DEF Newest
  <2>2. \A q \in Pollers : at[q] = <<c, a>> /\ pc[q] = "release" => at'[q] = <<c, a>> /\ pc'[q] = "release"
    BY <1>rest
  <2>3. QED
    BY <1>0, <1>rest, <2>1, <2>2
<1>1. ASSUME NEW c \in Calls, Begin(c)
      PROVE  NewestHolds'
  <2>1. made[c] = {} /\ made' = [made EXCEPT ![c] = 0 .. 0] /\ 0 \in Attempts
    BY <1>1, BeginEffect
  <2>2. /\ holds' = [holds EXCEPT ![c] = @ \cup {0}] /\ alive' = alive \cup {<<c, 0>>}
        /\ UNCHANGED <<promise, pc, at>>
    BY <1>1 DEF Begin, Construct
  <2>3. promise[c] = "empty" /\ holds[c] = {}
    <3>1. promise[c] = "empty"
      BY <2>1 DEF IInv, ResultsAreTrue
    <3>2. \A a \in Attempts : <<c, a>> \notin alive
      BY <1>0, <2>1 DEF MadeInOrder
    <3>3. QED
      BY <1>0, <3>1, <3>2
  <2>4. \A a \in Attempts : Newest(c, a)' <=> a = 0
    BY <1>0, <2>1, RetriesIsNatural DEF Newest, Attempts
  <2>5. \A d \in Calls, a \in Attempts : d # c => (Newest(d, a)' <=> Newest(d, a))
    BY <1>0, <2>1 DEF Newest
  <2>6. QED
    BY <1>0, <2>2, <2>3, <2>4, <2>5
<1>2. ASSUME NEW op \in started, NEW ok \in BOOLEAN, Respond(op, ok)
      PROVE  NewestHolds'
  BY <1>2, <1>rest DEF Respond
<1>3. ASSUME NEW p \in Pollers, NEW e \in events, Poll(p, e)
      PROVE  NewestHolds'
  <2>1. pc[p] = "next" /\ \A q \in Pollers : q # p => pc'[q] = pc[q] /\ at'[q] = at[q]
    BY <1>0, <1>3 DEF Poll
  <2>2. QED
    BY <1>3, <1>rest, <2>1 DEF Poll
<1>4. ASSUME NEW p \in Pollers, Callback(p)
      PROVE  NewestHolds'
  BY <1>0, <1>4, <1>rest DEF Callback
<1>5. ASSUME NEW p \in Pollers, CallbackThrows(p)
      PROVE  NewestHolds'
  BY <1>0, <1>5, <1>rest DEF CallbackThrows
<1>6. ASSUME NEW p \in Pollers, Retry(p)
      PROVE  NewestHolds'
  <2>1. PICK c \in Calls, a \in Attempts :
          /\ at[p] = <<c, a>> /\ <<c, a>> \in alive
          /\ Newest(c, a) /\ a + 1 \in Attempts
          /\ made' = [made EXCEPT ![c] = 0 .. (a + 1)]
          /\ alive' = alive \cup {<<c, a + 1>>}
          /\ holds' = [holds EXCEPT ![c] = @ \cup {a + 1}]
    BY <1>6, RetryEffect
  <2>2. /\ pc[p] = "retry" /\ pc' = [pc EXCEPT ![p] = "release"]
        /\ UNCHANGED <<promise, at>>
    BY <1>6 DEF Retry
  <2>3. \A b \in Attempts : Newest(c, b)' <=> b = a + 1
    BY <1>0, <2>1, RetriesIsNatural DEF Newest, Attempts
  <2>4. \A d \in Calls, b \in Attempts : d # c => (Newest(d, b)' <=> Newest(d, b))
    BY <1>0, <2>1 DEF Newest
  <2>5. promise[c] = "empty" /\ \A b \in holds[c] : Newest(c, b) => b = a
    BY <1>0, <2>1, NewestIsOne
  <2> SUFFICES ASSUME NEW d \in Calls, NEW b \in Attempts
               PROVE  NewestHolds!(d, b)'
    BY Zenon DEF NewestHolds
  <2>6. \A q \in Pollers : at[q] = <<d, b>> /\ pc[q] = "release" => at'[q] = <<d, b>> /\ pc'[q] = "release"
    BY <1>0, <2>2
  <2>7. at'[p] = <<c, a>> /\ pc'[p] = "release"
    BY <1>0, <2>1, <2>2
  <2>8. NewestHolds!(d, b)
    BY <1>0
  <2>9. CASE d = c /\ b = a + 1
    BY <1>0, <2>1, <2>2, <2>3, <2>5, <2>9
  <2>10. CASE ~(d = c /\ b = a + 1)
    <3>1. /\ <<d, b>> \in alive' <=> <<d, b>> \in alive
          /\ b \in holds'[d] <=> b \in holds[d]
          /\ promise'[d] = promise[d]
      BY <1>0, <2>1, <2>2, <2>10
    <3>2. Newest(d, b)' => Newest(d, b)
      BY <2>3, <2>4, <2>10
    <3>3. Newest(d, b) => Newest(d, b)' \/ (d = c /\ b = a)
      BY <2>1, <2>4, NewestIsOne
    <3>4. QED
      BY <2>6, <2>7, <2>8, <3>1, <3>2, <3>3
  <2>11. QED
    BY <2>9, <2>10
<1>7. ASSUME NEW p \in Pollers, Release(p)
      PROVE  NewestHolds'
  <2>1. PICK c \in Calls, a \in Attempts :
          /\ at[p] = <<c, a>> /\ <<c, a>> \in alive
          /\ a + 1 \in made[c] /\ ~Newest(c, a)
          /\ holds' = [holds EXCEPT ![c] = @ \ {a}]
    BY <1>7, ReleaseEffect, Zenon
  <2>2. /\ pc' = [pc EXCEPT ![p] = "delete"]
        /\ UNCHANGED <<made, alive, promise, at>>
    BY <1>7 DEF Release
  <2> SUFFICES ASSUME NEW d \in Calls, NEW b \in Attempts
               PROVE  NewestHolds!(d, b)'
    BY Zenon DEF NewestHolds
  <2>3. Newest(d, b)' <=> Newest(d, b)
    BY <2>2 DEF Newest
  <2>4. at[p] # <<d, b>> =>
          \A q \in Pollers : at[q] = <<d, b>> /\ pc[q] = "release" => at'[q] = <<d, b>> /\ pc'[q] = "release"
    BY <1>0, <2>2
  <2>5. CASE d = c /\ b = a
    BY <1>0, <2>1, <2>2, <2>3, <2>5
  <2>6. CASE ~(d = c /\ b = a)
    <3>1. NewestHolds!(d, b)
      BY <1>0
    <3>2. (b \in holds'[d] <=> b \in holds[d]) /\ at[p] # <<d, b>>
      BY <1>0, <2>1, <2>6
    <3>3. QED
      BY <2>2, <2>3, <2>4, <3>1, <3>2
  <2>7. QED
    BY <2>5, <2>6
<1>8. ASSUME NEW p \in Pollers, Delete(p)
      PROVE  NewestHolds'
  <2>1. PICK c \in Calls, a \in Attempts :
          /\ at[p] = <<c, a>> /\ alive' = alive \ {<<c, a>>}
          /\ holds' = [holds EXCEPT ![c] = @ \ {a}]
          /\ \/ /\ Newest(c, a)
                /\ \E r \in {"ok", "error"} : promise' = [promise EXCEPT ![c] = r]
             \/ ~Newest(c, a) /\ promise' = promise
    BY <1>8, DeleteEffect
  <2>2. /\ pc[p] # "release" /\ pc' = [pc EXCEPT ![p] = "next"]
        /\ at' = [at EXCEPT ![p] = None] /\ made' = made
    BY <1>8 DEF Delete
  <2>3. \A b \in Attempts : Newest(c, a) /\ Newest(c, b) => b = a
    BY NewestIsOne
  <2>4. QED
    BY <1>0, <2>1, <2>2, <2>3 DEF Newest
<1>9. CASE WaitFront
  BY <1>9, <1>rest DEF WaitFront
<1>10. CASE UNCHANGED vars
  BY <1>10, <1>rest DEF vars
<1>11. QED
  BY <1>1, <1>2, <1>3, <1>4, <1>5, <1>6, <1>7, <1>8, <1>9, <1>10 DEF Next, Handle

\* The promise is set once, to what became of the call.
LEMMA ResultsStep ==
  ASSUME IInv, [Next]_vars
  PROVE  ResultsAreTrue'
<1> USE DEF ResultsAreTrue
<1>0. /\ ResultsAreTrue
      /\ made \in [Calls -> SUBSET Attempts]
      /\ promise \in [Calls -> {"empty", "ok", "error"}]
      /\ replies \in [Calls -> 0 .. Retries + 1]
  BY DEF IInv, TypeOK
<1>rest. ASSUME UNCHANGED <<made, replies, promise, setTwice>>
         PROVE  ResultsAreTrue'
  BY <1>0, <1>rest
<1>1. ASSUME NEW c \in Calls, Begin(c)
      PROVE  ResultsAreTrue'
  <2>1. made[c] = {} /\ made' = [made EXCEPT ![c] = 0 .. 0]
    BY <1>1, BeginEffect
  <2>2. UNCHANGED <<promise, replies, setTwice>>
    BY <1>1 DEF Begin
  <2>3. QED
    BY <1>0, <2>1, <2>2
<1>2. ASSUME NEW op \in started, NEW ok \in BOOLEAN, Respond(op, ok)
      PROVE  ResultsAreTrue'
  BY <1>2, <1>rest DEF Respond
<1>3. ASSUME NEW p \in Pollers, NEW e \in events, Poll(p, e)
      PROVE  ResultsAreTrue'
  BY <1>3, <1>rest DEF Poll
<1>4. ASSUME NEW p \in Pollers, Callback(p)
      PROVE  ResultsAreTrue'
  <2>1. PICK c \in Calls, a \in Attempts :
          /\ Newest(c, a) /\ replies[c] = 0 /\ promise[c] = "empty"
          /\ replies' = [replies EXCEPT ![c] = 1]
    BY <1>4, CallbackEffect
  <2>2. UNCHANGED <<made, promise, setTwice>>
    BY <1>4 DEF Callback
  <2>3. made[c] # {}
    BY <2>1, RetriesIsNatural DEF Newest, Attempts
  <2>4. QED
    BY <1>0, <2>1, <2>2, <2>3
<1>5. ASSUME NEW p \in Pollers, CallbackThrows(p)
      PROVE  ResultsAreTrue'
  <2>1. PICK c \in Calls, a \in Attempts :
          /\ Newest(c, a) /\ replies[c] = 0 /\ promise[c] = "empty"
          /\ replies' = [replies EXCEPT ![c] = 1]
    BY <1>5, CallbackEffect
  <2>2. UNCHANGED <<made, promise, setTwice>>
    BY <1>5 DEF CallbackThrows
  <2>3. made[c] # {}
    BY <2>1, RetriesIsNatural DEF Newest, Attempts
  <2>4. QED
    BY <1>0, <2>1, <2>2, <2>3
<1>6. ASSUME NEW p \in Pollers, Retry(p)
      PROVE  ResultsAreTrue'
  <2>1. PICK c \in Calls, a \in Attempts :
          /\ Newest(c, a) /\ <<c, a>> \in alive
          /\ made' = [made EXCEPT ![c] = 0 .. (a + 1)]
    BY <1>6, RetryEffect
  <2>2. promise[c] = "empty" /\ made[c] # {} /\ 0 .. (a + 1) # {}
    <3>1. promise[c] = "empty"
      BY <2>1 DEF IInv, NewestHolds
    <3>2. 0 \in made[c] /\ 0 \in 0 .. (a + 1)
      BY <2>1, RetriesIsNatural DEF Newest, Attempts
    <3>3. QED
      BY <3>1, <3>2
  <2>3. UNCHANGED <<promise, replies, setTwice>>
    BY <1>6 DEF Retry
  <2>4. QED
    BY <1>0, <2>1, <2>2, <2>3
<1>7. ASSUME NEW p \in Pollers, Release(p)
      PROVE  ResultsAreTrue'
  BY <1>7, <1>rest DEF Release
<1>8. ASSUME NEW p \in Pollers, Delete(p)
      PROVE  ResultsAreTrue'
  <2>1. PICK c \in Calls, a \in Attempts :
          /\ setTwice' = setTwice
          /\ \/ /\ Newest(c, a)
                /\ promise' = [promise EXCEPT ![c] = "ok"] /\ replies[c] = 1
             \/ /\ Newest(c, a)
                /\ promise' = [promise EXCEPT ![c] = "error"] /\ replies[c] = 0
                /\ made[c] = Attempts
             \/ promise' = promise
    BY <1>8, DeleteEffect
  <2>2. Newest(c, a) => made[c] # {}
    BY <2>1, RetriesIsNatural DEF Newest, Attempts
  <2>3. UNCHANGED <<made, replies>>
    BY <1>8 DEF Delete
  <2>4. QED
    BY <1>0, <2>1, <2>2, <2>3
<1>9. CASE WaitFront
  BY <1>9, <1>rest DEF WaitFront
<1>10. CASE UNCHANGED vars
  BY <1>10, <1>rest DEF vars
<1>11. QED
  BY <1>1, <1>2, <1>3, <1>4, <1>5, <1>6, <1>7, <1>8, <1>9, <1>10 DEF Next, Handle

\* Nothing is called at first.
LEMMA InitInv == Init => IInv
<1> SUFFICES ASSUME Init
             PROVE  IInv
  OBVIOUS
<1>1. Outstanding = {} /\ alive = {}
  BY DEF Init, CQInit, Outstanding
<1>2. TypeOK /\ QueueOK(Handlers)
  <2>1. 0 \in 0 .. Retries + 1
    BY RetriesIsNatural
  <2>2. QED
    BY <2>1, WaitListIsOfCalls DEF Init, CQInit, TypeOK, QueueOK
<1>3. PlacesApart /\ MadeInOrder /\ NewestIsOutstanding
  BY <1>1 DEF Init, PlacesApart, MadeInOrder, NewestIsOutstanding
<1>4. ThreadsProgress
  BY DEF Init, ThreadsProgress
<1>5. NewestHolds
  <2>1. \A a \in Attempts : 0 \in 0 .. a
    BY RetriesIsNatural DEF Attempts
  <2>2. QED
    BY <1>1, <2>1 DEF Init, NewestHolds, Newest
<1>6. ResultsAreTrue
  BY DEF Init, ResultsAreTrue
<1>7. QED
  BY <1>2, <1>3, <1>4, <1>5, <1>6 DEF IInv

\* IInv holds in every state: however the threads interleave in handle(), the newest
\* attempt of a call carries its promise (client_async.hpp:29-60).
THEOREM Invariance == Spec => []IInv
<1>1. IInv /\ [Next]_vars => IInv'
  BY TypeStep, QueueStep, PlacesStep, MadeStep, OutstandingStep, ThreadsStep, HoldsStep,
     ResultsStep DEF IInv
<1>2. QED
  BY <1>1, InitInv, PTL DEF Spec

\* Every variable has its type; in particular no attempt is made beyond nretries_
\* (client_async.hpp:40-49).
THEOREM TypeCorrect == Spec => []TypeOK
<1>1. IInv => TypeOK
  BY DEF IInv
<1>2. QED
  BY <1>1, Invariance, PTL

\* As long as the promise of a call that was made is not set, a living handler has it,
\* and only the two sides of a hand-over have it at once (client_async.hpp:47-49).
THEOREM PromiseStaysInGoodHands == Spec => []PromiseIsInGoodHands
<1>1. IInv => PromiseIsInGoodHands
  <2> DEFINE releasing(c) ==
               {a \in holds[c] : \E p \in Pollers : at[p] = <<c, a>> /\ pc[p] = "release"}
  <2> SUFFICES ASSUME IInv, NEW c \in Calls, made[c] # {}, promise[c] = "empty"
               PROVE  \E a \in holds[c] : /\ <<c, a>> \in alive
                                          /\ holds[c] \ {a} \subseteq releasing(c) \ {a}
                                          /\ a \notin releasing(c)
    BY DEF PromiseIsInGoodHands
  <2>1. PICK a \in Attempts : Newest(c, a)
    BY DEF IInv, MadeInOrder
  <2>2. <<c, a>> \in alive /\ a \in holds[c]
    BY <2>1 DEF IInv, NewestHolds
  <2>3. a + 1 \notin made[c]
    BY <2>1, RetriesIsNatural DEF Newest, Attempts
  <2>4. a \notin releasing(c)
    BY <2>3 DEF IInv, ThreadsProgress
  <2>5. \A b \in holds[c] : b # a => b \in releasing(c)
    <3> TAKE b \in holds[c]
    <3>1. b \in Attempts
      BY DEF IInv, TypeOK
    <3>2. QED
      BY <2>1, <3>1, NewestIsOne DEF IInv, NewestHolds
  <2>6. QED
    BY <2>2, <2>4, <2>5
<1>2. QED
  BY <1>1, Invariance, PTL

\* A promise that is set is not set again, and nothing more happens to its call: no
\* attempt is under way, no callback is to come, and it tells the truth
\* (client_async.hpp:29-60, iclient_async.hpp:31-37).
THEOREM SetPromiseStaysFinal == Spec => []SetPromiseIsFinal
<1>1. IInv => SetPromiseIsFinal
  <2> SUFFICES ASSUME IInv, NEW c \in Calls, promise[c] # "empty"
               PROVE  /\ \A op \in Outstanding : op[1] # c
                      /\ \A p \in Pollers : at[p] # None /\ at[p][1] = c => pc[p] \notin {"callback", "retry"}
                      /\ promise[c] = "ok" => replies[c] = 1
                      /\ promise[c] = "error" => replies[c] = 0 /\ made[c] = Attempts
    BY DEF SetPromiseIsFinal, IInv, ResultsAreTrue
  <2>1. \A a \in Attempts : Newest(c, a) => <<c, a>> \notin alive
    BY DEF IInv, NewestHolds
  <2>2. ASSUME NEW op \in Outstanding, op[1] = c
        PROVE  FALSE
    <3>1. op \in alive /\ op \in Calls \X Attempts
      BY OutstandingOps DEF IInv, PlacesApart, Handlers
    <3>2. PICK a \in Attempts : op = <<c, a>>
      BY <2>2, <3>1
    <3>3. QED
      BY <2>1, <3>1, <3>2 DEF IInv, NewestIsOutstanding
  <2>3. ASSUME NEW p \in Pollers, pc[p] \in {"callback", "retry"}, at[p][1] = c
        PROVE  FALSE
    <3>1. PICK d \in Calls, a \in Attempts : at[p] = <<d, a>> /\ <<d, a>> \in alive
      BY <2>3, InHandle
    <3>2. d = c
      BY <2>3, <3>1
    <3>3. QED
      BY <2>1, <2>3, <3>1, <3>2 DEF IInv, ThreadsProgress
  <2>4. QED
    BY <2>2, <2>3 DEF IInv, ResultsAreTrue
<1>2. QED
  BY <1>1, Invariance, PTL

-------------------------------------------------------------------------------

\* Nothing is answered and every call is open at first.
LEMMA InitRefines == Init => RC!Init
BY DEF Init, RC!Init

\* A callback is an answer, the setting of a promise is the end of its call, and all
\* the rest is invisible.
LEMMA StepRefines ==
  ASSUME IInv, [Next]_vars
  PROVE  [RC!Next]_(RC!vars)
<1>0. /\ promise \in [Calls -> {"empty", "ok", "error"}]
      /\ replies \in [Calls -> 0 .. Retries + 1]
  BY DEF IInv, TypeOK
<1>1. ASSUME UNCHANGED <<replies, promise>>
      PROVE  UNCHANGED RC!vars
  BY <1>1 DEF RC!vars
<1>2. ASSUME NEW p \in Pollers, Callback(p) \/ CallbackThrows(p)
      PROVE  RC!Next
  <2>1. PICK c \in Calls, a \in Attempts :
          replies[c] = 0 /\ promise[c] = "empty" /\ replies' = [replies EXCEPT ![c] = 1]
    BY <1>2, CallbackEffect
  <2>2. promise' = promise
    BY <1>2 DEF Callback, CallbackThrows
  <2>3. RC!Answer(c)
    BY <1>0, <2>1, <2>2 DEF RC!Answer
  <2>4. QED
    BY <2>3 DEF RC!Next
<1>3. ASSUME NEW p \in Pollers, Delete(p)
      PROVE  RC!Next \/ UNCHANGED <<replies, promise>>
  <2>1. PICK c \in Calls, a \in Attempts :
          \/ promise[c] = "empty" /\ promise' = [promise EXCEPT ![c] = "ok"]
          \/ promise[c] = "empty" /\ promise' = [promise EXCEPT ![c] = "error"]
          \/ promise' = promise
    BY <1>3, DeleteEffect
  <2>2. replies' = replies
    BY <1>3 DEF Delete
  <2>3. ASSUME NEW r \in {"ok", "error"}, promise[c] = "empty", promise' = [promise EXCEPT ![c] = r]
        PROVE  RC!Next
    <3>1. RC!End(c, r)
      BY <1>0, <2>2, <2>3 DEF RC!End
    <3>2. QED
      BY <3>1 DEF RC!Next
  <2>4. QED
    BY <2>1, <2>2, <2>3
<1>4. CASE \E c \in Calls : Begin(c)
  BY <1>1, <1>4 DEF Begin
<1>5. CASE \E op \in started, ok \in BOOLEAN : Respond(op, ok)
  BY <1>1, <1>5 DEF Respond
<1>6. CASE \E p \in Pollers : Retry(p) \/ Release(p) \/ \E e \in events : Poll(p, e)
  BY <1>1, <1>6 DEF Retry, Release, Poll
<1>7. CASE WaitFront \/ UNCHANGED vars
  BY <1>1, <1>7 DEF WaitFront, vars
<1>8. QED
  BY <1>1, <1>2, <1>3, <1>4, <1>5, <1>6, <1>7 DEF Next, Handle

\* To who makes a call and waits for its promise, the attempts are invisible: answers
\* come while the call is open, and it ends once (iclient_async.hpp:27-44).
THEOREM Refinement == Spec => ImplementsRemoteCalls
<1>1. IInv /\ [Next]_vars => [RC!Next]_(RC!vars)
  BY StepRefines
<1>2. QED
  BY <1>1, InitRefines, Invariance, PTL DEF Spec, ImplementsRemoteCalls, RC!Spec
===============================================================================
