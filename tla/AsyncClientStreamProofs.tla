----------------------- MODULE AsyncClientStreamProofs ------------------------
(***************************************************************************)
(* Theorems about AsyncClientStream, for any calls, polling threads and      *)
(* number of answers. The argument: the status of a handler names the only   *)
(* operation it can have under way, and either that operation is outstanding *)
(* or one thread is in handle(); so whoever takes a completion has the       *)
(* handler to itself until it starts the next operation, and at most one     *)
(* answer is on its way to the handler function.                             *)
(***************************************************************************)
EXTENDS AsyncClientStream, CompletionQueueProofs

Kinds == {"start", "read", "finish"}
Ops == Calls \X Kinds

\* The only operation that the handler of call c can have under way.
OpOf(c) ==
  <<c, CASE call_status[c] = "STARTUP" -> "start"
         [] call_status[c] = "PROCESS" -> "read"
         [] call_status[c] = "FINISH" -> "finish">>

TypeOK ==
  /\ begun \subseteq Calls
  /\ alive \subseteq Calls
  /\ call_status \in [Calls -> {"STARTUP", "PROCESS", "FINISH"}]
  /\ sent \in [Calls -> 0 .. MaxAnswers]
  /\ failed \subseteq Calls
  /\ replies \in [Calls -> 0 .. MaxAnswers]
  /\ promise \in [Calls -> {"empty", "ok", "error"}]
  /\ pc \in [Pollers -> {"next", "handle", "op"}]
  /\ at \in [Pollers -> Calls \cup {None}]
  /\ flag \in [Pollers -> BOOLEAN]
  /\ next \in [Pollers -> {"read", "finish"}]

\* A living handler, and no other, has its one operation outstanding or a thread in
\* it; the thread is about to start the operation that the status names.
PlacesApart ==
  /\ \A op \in Outstanding : op[1] \in alive /\ op = OpOf(op[1])
  /\ \A p \in Pollers : pc[p] # "next" => at[p] \in alive /\ OpOf(at[p]) \notin Outstanding
  /\ \A p, q \in Pollers : pc[p] # "next" /\ pc[q] # "next" /\ at[p] = at[q] => p = q
  /\ \A p \in Pollers : pc[p] = "op" => OpOf(at[p]) = <<at[p], next[p]>>

NoneIsForgotten ==
  \A c \in alive : OpOf(c) \in Outstanding \/ \E p \in Pollers : InHandler(p, c)

\* A handler lives from the start of its call until its promise is set.
LivesForItsPromise ==
  \A c \in Calls :
    /\ c \in alive <=> c \in begun /\ promise[c] = "empty"
    /\ c \notin begun => promise[c] = "empty" /\ call_status[c] = "STARTUP"
    /\ promise[c] # "empty" => (promise[c] = "error" <=> c \in failed)

\* An answer of call c was read and has not reached the handler function.
OnItsWay(c) ==
  \/ \E e \in events : e.op = <<c, "read">> /\ e.ok
  \/ call_status[c] = "PROCESS" /\ \E p \in Pollers : pc[p] = "handle" /\ at[p] = c /\ flag[p]

\* Every answer has reached the handler function or is the one on its way.
AnswersAddUp ==
  \A c \in Calls : sent[c] = IF OnItsWay(c) THEN replies[c] + 1 ELSE replies[c]

\* The inductive invariant.
IInv ==
  /\ TypeOK
  /\ QueueOK(Ops)
  /\ PlacesApart
  /\ NoneIsForgotten
  /\ LivesForItsPromise
  /\ AnswersAddUp
-------------------------------------------------------------------------------

\* The operations of different handlers differ.
LEMMA OpsDiffer ==
  ASSUME TypeOK, NEW c \in Calls
  PROVE  OpOf(c) \in Ops /\ OpOf(c)[1] = c
BY DEF TypeOK, OpOf, Ops, Kinds

\* A thread in handle() has a living handler to itself, and nothing of it is outstanding.
LEMMA InHandle ==
  ASSUME IInv, NEW p \in Pollers, pc[p] # "next"
  PROVE  /\ at[p] \in Calls /\ at[p] \in alive
         /\ \A op \in Outstanding : op[1] # at[p]
         /\ \A q \in Pollers : pc[q] # "next" /\ at[q] = at[p] => q = p
<1>1. at[p] \in alive /\ alive \subseteq Calls /\ OpOf(at[p]) \notin Outstanding
  BY DEF IInv, PlacesApart, TypeOK
<1>2. \A op \in Outstanding : op[1] # at[p]
  BY <1>1 DEF IInv, PlacesApart
<1>3. QED
  BY <1>1, <1>2 DEF IInv, PlacesApart

\* An answer is on its way only if it is the completion of the handler's outstanding
\* read or the thread that is in the handler was given it.
LEMMA WayThroughHandle ==
  ASSUME IInv, NEW p \in Pollers, pc[p] # "next"
  PROVE  /\ \A e \in events : e.op # <<at[p], "read">>
         /\ OnItsWay(at[p]) <=> pc[p] = "handle" /\ call_status[at[p]] = "PROCESS" /\ flag[p]
<1>1. ASSUME NEW e \in events, e.op = <<at[p], "read">>
      PROVE  FALSE
  <2>1. e.op \in Outstanding /\ e.op[1] = at[p]
    BY <1>1 DEF Outstanding
  <2>2. QED
    BY <2>1, InHandle
<1>2. \A q \in Pollers : pc[q] = "handle" /\ at[q] = at[p] => q = p
  BY InHandle
<1>3. QED
  BY <1>1, <1>2 DEF OnItsWay

\* While an operation is outstanding no thread is in its handler, and an answer is on its
\* way to the handler function exactly if the queue has it.
LEMMA WayThroughQueue ==
  ASSUME IInv, NEW op \in Outstanding
  PROVE  /\ op[1] \in Calls /\ op[1] \in alive /\ op = OpOf(op[1])
         /\ \A p \in Pollers : pc[p] # "next" => at[p] # op[1]
         /\ op \in started => ~OnItsWay(op[1])
         /\ \A e \in events : e.op = op =>
              (OnItsWay(op[1]) <=> e.ok /\ call_status[op[1]] = "PROCESS")
<1> DEFINE c == op[1]
<1>1. c \in alive /\ op = OpOf(c) /\ c \in Calls
  BY DEF IInv, PlacesApart, TypeOK
<1>2. \A p \in Pollers : pc[p] # "next" => at[p] # c
  BY InHandle
<1>3. OnItsWay(c) <=> \E e \in events : e.op = <<c, "read">> /\ e.ok
  BY <1>2 DEF OnItsWay
<1>4. \A e \in events : e.op = <<c, "read">> => e.op = op
  <2>1. \A e \in events : e.op \in Outstanding
    BY DEF Outstanding
  <2>2. <<c, "read">>[1] = c
    OBVIOUS
  <2>3. QED
    BY <1>1, <2>1, <2>2 DEF IInv, PlacesApart
<1>5. op = <<c, "read">> <=> call_status[c] = "PROCESS"
  BY <1>1 DEF OpOf, IInv, TypeOK
<1>6. \A d, e \in events : d.op = e.op => d = e
  BY DEF IInv, QueueOK
<1>7. \A e \in events : e.op \notin started
  BY DEF IInv, QueueOK
<1> HIDE DEF c
<1>8. op \in started => ~OnItsWay(c)
  BY <1>3, <1>4, <1>7
<1>9. \A e \in events : e.op = op => (OnItsWay(c) <=> e.ok /\ call_status[c] = "PROCESS")
  BY <1>3, <1>4, <1>5, <1>6
<1>10. QED
  BY <1>1, <1>2, <1>8, <1>9 DEF c

\* A handler that is not alive has no answer on its way.
LEMMA NoWay ==
  ASSUME IInv, NEW c \in Calls, c \notin alive
  PROVE  ~OnItsWay(c)
<1>1. ASSUME NEW e \in events, e.op = <<c, "read">>
      PROVE  FALSE
  <2>1. e.op \in Outstanding /\ e.op[1] = c
    BY <1>1 DEF Outstanding
  <2>2. QED
    BY <2>1, WayThroughQueue
<1>2. \A p \in Pollers : pc[p] = "handle" => at[p] # c
  BY InHandle
<1>3. QED
  BY <1>1, <1>2 DEF OnItsWay

-------------------------------------------------------------------------------

\* The constructor's caller starts an operation of a handler that has none.
LEMMA BeginEffect ==
  ASSUME IInv, NEW c \in Calls, Begin(c)
  PROVE  /\ c \notin alive /\ OpOf(c) = <<c, "start">> /\ OpOf(c) \notin Outstanding
         /\ QueueOK(Ops)'
         /\ Outstanding' = Outstanding \cup {OpOf(c)}
<1>1. c \notin alive /\ call_status[c] = "STARTUP"
  BY DEF Begin, IInv, LivesForItsPromise
<1>2. OpOf(c) = <<c, "start">>
  BY <1>1 DEF OpOf
<1>3. OpOf(c) \in Ops /\ OpOf(c)[1] = c
  BY OpsDiffer DEF IInv
<1>4. OpOf(c) \notin Outstanding
  BY <1>1, <1>3 DEF IInv, PlacesApart
<1>5. StartOp(OpOf(c)) /\ UNCHANGED events
  BY <1>2 DEF Begin
<1> HIDE DEF OpOf
<1>6. QED
  BY <1>1, <1>2, <1>3, <1>4, <1>5, StartingOp DEF IInv

\* grpc completes the operation of a living handler that no thread is in.
LEMMA RespondEffect ==
  ASSUME IInv, NEW c \in Calls, Respond(c)
  PROVE  /\ QueueOK(Ops)' /\ Outstanding' = Outstanding
         /\ c \in alive
         /\ UNCHANGED <<begun, alive, call_status, replies, promise, pollerVars>>
<1>1. PICK ok \in BOOLEAN, k \in Kinds : CompleteOp(<<c, k>>, ok)
  BY DEF Respond, RespondStart, RespondRead, RespondFinish, Kinds
<1>2. QueueOK(Ops)' /\ <<c, k>> \in started /\ Outstanding' = Outstanding
  BY <1>1, Completing DEF IInv
<1>3. <<c, k>> \in Outstanding /\ <<c, k>>[1] = c
  BY <1>2 DEF Outstanding
<1>4. c \in alive
  BY <1>3, WayThroughQueue
<1>5. UNCHANGED <<begun, alive, call_status, replies, promise, pollerVars>>
  BY DEF Respond, RespondStart, RespondRead, RespondFinish
<1>6. QED
  BY <1>2, <1>4, <1>5

\* The thread that takes a completion has the handler to itself.
LEMMA PollEffect ==
  ASSUME IInv, NEW p \in Pollers, NEW e \in events, Poll(p, e)
  PROVE  \E c \in Calls :
           /\ c \in alive /\ e.op = OpOf(c) /\ OpOf(c) \in Outstanding /\ e.ok \in BOOLEAN
           /\ \A q \in Pollers : pc[q] # "next" => at[q] # c
           /\ pc[p] = "next"
           /\ at' = [at EXCEPT ![p] = c] /\ flag' = [flag EXCEPT ![p] = e.ok]
           /\ OnItsWay(c) <=> e.ok /\ call_status[c] = "PROCESS"
           /\ QueueOK(Ops)'
           /\ Outstanding' = Outstanding \ {OpOf(c)}
<1>1. TakeEvent(e) /\ UNCHANGED started /\ QueueOK(Ops)
  BY DEF Poll, IInv
<1>2. /\ QueueOK(Ops)' /\ e \in [op : Ops, ok : BOOLEAN] /\ e.op \in Outstanding
      /\ Outstanding' = Outstanding \ {e.op}
  BY <1>1, Taking
<1> DEFINE c == e.op[1]
<1>3. /\ c \in Calls /\ c \in alive /\ e.op = OpOf(c)
      /\ \A q \in Pollers : pc[q] # "next" => at[q] # c
      /\ OnItsWay(c) <=> e.ok /\ call_status[c] = "PROCESS"
  BY <1>2, WayThroughQueue
<1>4. pc[p] = "next" /\ at' = [at EXCEPT ![p] = c] /\ flag' = [flag EXCEPT ![p] = e.ok]
  BY DEF Poll
<1>5. e.ok \in BOOLEAN
  BY <1>2
<1> HIDE DEF c
<1>6. QED
  BY <1>2, <1>3, <1>4, <1>5

\* handle() leaves the handler in the status that goes with the operation it starts.
LEMMA ProceedEffect ==
  ASSUME IInv, NEW p \in Pollers, HandleStartup(p) \/ HandleProcess(p)
  PROVE  /\ pc[p] = "handle" /\ pc' = [pc EXCEPT ![p] = "op"]
         /\ \/ /\ call_status' = [call_status EXCEPT ![at[p]] = "PROCESS"]
               /\ next' = [next EXCEPT ![p] = "read"]
            \/ /\ call_status' = [call_status EXCEPT ![at[p]] = "FINISH"]
               /\ next' = [next EXCEPT ![p] = "finish"]
         /\ UNCHANGED <<started, events, begun, alive, sent, failed, promise, at, flag>>
         /\ QueueOK(Ops)' /\ Outstanding' = Outstanding
<1>1. UNCHANGED cqVars
  BY DEF HandleStartup, HandleProcess
<1>2. QueueOK(Ops)' /\ Outstanding' = Outstanding
  BY <1>1, Resting DEF IInv
<1>3. QED
  BY <1>2 DEF HandleStartup, HandleProcess, Proceed, serverVars, cqVars

\* The operation is started when nothing of the handler is outstanding.
LEMMA StartEffect ==
  ASSUME IInv, NEW p \in Pollers, Start(p)
  PROVE  /\ pc[p] = "op" /\ at[p] \in Calls /\ at[p] \in alive
         /\ OpOf(at[p]) \notin Outstanding
         /\ \A q \in Pollers : pc[q] # "next" /\ at[q] = at[p] => q = p
         /\ pc' = [pc EXCEPT ![p] = "next"]
         /\ QueueOK(Ops)'
         /\ Outstanding' = Outstanding \cup {OpOf(at[p])}
<1>1. pc[p] = "op" /\ pc' = [pc EXCEPT ![p] = "next"] /\ StartOp(<<at[p], next[p]>>)
  BY DEF Start, StartNext, AfterStart
<1>2. OpOf(at[p]) = <<at[p], next[p]>> /\ OpOf(at[p]) \notin Outstanding
  BY <1>1 DEF IInv, PlacesApart
<1>3. /\ at[p] \in Calls /\ at[p] \in alive
      /\ \A q \in Pollers : pc[q] # "next" /\ at[q] = at[p] => q = p
  BY <1>1, InHandle
<1>4. OpOf(at[p]) \in Ops
  BY <1>3, OpsDiffer DEF IInv
<1>5. StartOp(OpOf(at[p])) /\ UNCHANGED events
  BY <1>1, <1>2 DEF Start
<1>6. QueueOK(Ops)' /\ Outstanding' = Outstanding \cup {OpOf(at[p])}
  BY <1>2, <1>4, <1>5, StartingOp DEF IInv
<1>7. QED
  BY <1>1, <1>2, <1>3, <1>6

\* The handler is deleted when nothing of it is outstanding and every answer is through.
LEMMA FinishEffect ==
  ASSUME IInv, NEW p \in Pollers, HandleFinish(p)
  PROVE  \E c \in Calls :
           /\ at[p] = c /\ c \in alive /\ pc[p] = "handle"
           /\ \A op \in Outstanding : op[1] # c
           /\ \A q \in Pollers : pc[q] # "next" /\ at[q] = c => q = p
           /\ ~OnItsWay(c)
           /\ alive' = alive \ {c}
           /\ promise' = [promise EXCEPT ![c] = IF c \in failed THEN "error" ELSE "ok"]
           /\ pc' = [pc EXCEPT ![p] = "next"]
           /\ QueueOK(Ops)' /\ Outstanding' = Outstanding
<1>1. pc[p] = "handle" /\ call_status[at[p]] = "FINISH" /\ UNCHANGED cqVars
  BY DEF HandleFinish
<1>2. QueueOK(Ops)' /\ Outstanding' = Outstanding
  BY <1>1, Resting DEF IInv
<1>3. ~OnItsWay(at[p])
  BY <1>1, WayThroughHandle
<1>4. QED
  BY <1>1, <1>2, <1>3, InHandle DEF HandleFinish, Outcome
-------------------------------------------------------------------------------

\* The types. No more answers go to the handler function than grpc read.
LEMMA TypeStep ==
  ASSUME IInv, [Next]_vars
  PROVE  TypeOK'
<1> USE DEF TypeOK
<1>0. TypeOK
  BY DEF IInv
<1>1. ASSUME NEW c \in Calls, Begin(c)
      PROVE  TypeOK'
  BY <1>0, <1>1 DEF Begin, serverVars, pollerVars
<1>2. ASSUME NEW c \in Calls, Respond(c)
      PROVE  TypeOK'
  <2>1. UNCHANGED <<begun, alive, call_status, replies, promise, pc, at, flag, next>>
    BY <1>2 DEF Respond, RespondStart, RespondRead, RespondFinish, pollerVars
  <2>2. failed' \subseteq Calls
    BY <1>0, <1>2 DEF Respond, RespondStart, RespondRead, RespondFinish, serverVars
  <2>3. sent' = sent \/ (sent[c] < MaxAnswers /\ sent' = [sent EXCEPT ![c] = @ + 1])
    BY <1>0, <1>2 DEF Respond, RespondStart, RespondRead, RespondFinish, serverVars
  <2>4. sent[c] < MaxAnswers => sent[c] + 1 \in 0 .. MaxAnswers
    BY <1>0, MaxAnswersIsNatural
  <2>5. QED
    BY <1>0, <2>1, <2>2, <2>3, <2>4
<1>3. ASSUME NEW p \in Pollers, NEW e \in events, Poll(p, e)
      PROVE  TypeOK'
  <2>1. PICK c \in Calls : /\ e.ok \in BOOLEAN
                           /\ at' = [at EXCEPT ![p] = c] /\ flag' = [flag EXCEPT ![p] = e.ok]
    BY <1>3, PollEffect
  <2>2. QED
    BY <1>0, <1>3, <2>1 DEF Poll, serverVars
<1>4. ASSUME NEW p \in Pollers, HandleStartup(p)
      PROVE  TypeOK'
  BY <1>0, <1>4 DEF HandleStartup, Proceed, serverVars
<1>5. ASSUME NEW p \in Pollers, HandleProcess(p)
      PROVE  TypeOK'
  <2>1. pc[p] = "handle" /\ call_status[at[p]] = "PROCESS" /\ replies' = Delivered(p)
    BY <1>5 DEF HandleProcess
  <2>2. at[p] \in Calls /\ (flag[p] => OnItsWay(at[p]))
    BY <2>1, InHandle, WayThroughHandle
  <2>3. flag[p] => replies[at[p]] + 1 = sent[at[p]]
    BY <2>2 DEF IInv, AnswersAddUp
  <2>4. replies' \in [Calls -> 0 .. MaxAnswers]
    BY <1>0, <2>1, <2>2, <2>3 DEF Delivered
  <2>5. QED
    BY <1>0, <1>5, <2>4, ProceedEffect
<1>6. ASSUME NEW p \in Pollers, Start(p)
      PROVE  TypeOK'
  BY <1>0, <1>6, StartEffect DEF Start, serverVars
<1>7. ASSUME NEW p \in Pollers, HandleFinish(p)
      PROVE  TypeOK'
  BY <1>0, <1>7 DEF HandleFinish, Outcome, serverVars
<1>8. CASE UNCHANGED vars
  BY <1>0, <1>8 DEF vars
<1>9. QED
  BY <1>1, <1>2, <1>3, <1>4, <1>5, <1>6, <1>7, <1>8 DEF Next, Handle

\* The queue holds each operation at most once.
LEMMA QueueStep ==
  ASSUME IInv, [Next]_vars
  PROVE  QueueOK(Ops)'
<1>1. ASSUME UNCHANGED vars
      PROVE  QueueOK(Ops)'
  BY <1>1, Resting DEF IInv, vars, cqVars
<1>2. QED
  BY <1>1, BeginEffect, RespondEffect, PollEffect, ProceedEffect, StartEffect, FinishEffect
     DEF Next, Handle

\* What is outstanding and where the threads are stay apart.
LEMMA PlacesStep ==
  ASSUME IInv, [Next]_vars
  PROVE  PlacesApart'
<1> USE DEF PlacesApart
<1>0. PlacesApart /\ TypeOK /\ alive \subseteq Calls
  BY DEF IInv, TypeOK
<1>1. ASSUME NEW c \in Calls, Begin(c)
      PROVE  PlacesApart'
  <2>1. /\ c \notin alive /\ OpOf(c)[1] = c
        /\ Outstanding' = Outstanding \cup {OpOf(c)}
    BY <1>0, <1>1, BeginEffect, OpsDiffer
  <2>2. alive' = alive \cup {c} /\ UNCHANGED <<call_status, pc, at, next>>
    BY <1>1 DEF Begin, pollerVars
  <2>3. \A d : OpOf(d)' = OpOf(d)
    BY <2>2 DEF OpOf
  <2>4. \A p \in Pollers : pc[p] # "next" => at[p] \in Calls /\ at[p] # c /\ OpOf(at[p])[1] = at[p]
    BY <1>0, <2>1, InHandle, OpsDiffer
  <2> HIDE DEF OpOf
  <2>5. QED
    BY <1>0, <2>1, <2>2, <2>3, <2>4
<1>2. ASSUME NEW c \in Calls, Respond(c)
      PROVE  PlacesApart'
  BY <1>0, <1>2, RespondEffect DEF pollerVars, OpOf
<1>3. ASSUME NEW p \in Pollers, NEW e \in events, Poll(p, e)
      PROVE  PlacesApart'
  <2>1. PICK c \in Calls :
          /\ c \in alive /\ \A q \in Pollers : pc[q] # "next" => at[q] # c
          /\ at' = [at EXCEPT ![p] = c]
          /\ Outstanding' = Outstanding \ {OpOf(c)}
    BY <1>3, PollEffect
  <2>2. /\ pc' = [pc EXCEPT ![p] = "handle"]
        /\ UNCHANGED <<alive, call_status, next>>
    BY <1>3 DEF Poll
  <2>3. \A d : OpOf(d)' = OpOf(d)
    BY <2>2 DEF OpOf
  <2>4. /\ at'[p] = c /\ pc'[p] = "handle"
        /\ \A q \in Pollers : q # p => pc'[q] = pc[q] /\ at'[q] = at[q]
    BY <1>0, <2>1, <2>2 DEF TypeOK
  <2> HIDE DEF OpOf
  <2>5. QED
    BY <1>0, <2>1, <2>2, <2>3, <2>4
<1>4. ASSUME NEW p \in Pollers, HandleStartup(p) \/ HandleProcess(p)
      PROVE  PlacesApart'
  <2>1. /\ pc[p] = "handle" /\ pc' = [pc EXCEPT ![p] = "op"]
        /\ UNCHANGED <<alive, at>> /\ Outstanding' = Outstanding
    BY <1>4, ProceedEffect
  <2>2. /\ at[p] \in Calls /\ at[p] \in alive
        /\ \A op \in Outstanding : op[1] # at[p]
        /\ \A q \in Pollers : pc[q] # "next" /\ at[q] = at[p] => q = p
    BY <2>1, InHandle
  <2>3. \A d \in Calls : d # at[p] => OpOf(d)' = OpOf(d)
    BY <1>0, <1>4, ProceedEffect DEF OpOf, TypeOK
  <2>4. OpOf(at[p])' = <<at[p], next'[p]>> /\ OpOf(at[p])'[1] = at[p]
    <3>1. \/ call_status'[at[p]] = "PROCESS" /\ next'[p] = "read"
          \/ call_status'[at[p]] = "FINISH" /\ next'[p] = "finish"
      BY <1>0, <1>4, <2>2, ProceedEffect DEF TypeOK
    <3>2. at'[p] = at[p]
      BY <2>1
    <3>3. QED
      BY <3>1, <3>2 DEF OpOf
  <2>5. \A q \in Pollers : q # p => pc'[q] = pc[q] /\ next'[q] = next[q]
    BY <1>0, <1>4, <2>1, ProceedEffect DEF TypeOK
  <2> HIDE DEF OpOf
  <2>6. QED
    BY <1>0, <2>1, <2>2, <2>3, <2>4, <2>5
<1>5. ASSUME NEW p \in Pollers, Start(p)
      PROVE  PlacesApart'
  <2>1. /\ at[p] \in Calls /\ at[p] \in alive /\ pc[p] = "op"
        /\ \A q \in Pollers : pc[q] # "next" /\ at[q] = at[p] => q = p
        /\ pc' = [pc EXCEPT ![p] = "next"]
        /\ Outstanding' = Outstanding \cup {OpOf(at[p])}
    BY <1>5, StartEffect
  <2>2. UNCHANGED <<alive, call_status, at, next>>
    BY <1>5 DEF Start
  <2>3. \A d : OpOf(d)' = OpOf(d)
    BY <2>2 DEF OpOf
  <2>4. \A q \in Pollers : pc[q] # "next" => OpOf(at[q])[1] = at[q]
    BY <1>0, InHandle, OpsDiffer
  <2> HIDE DEF OpOf
  <2>5. QED
    BY <1>0, <2>1, <2>2, <2>3, <2>4 DEF TypeOK
<1>6. ASSUME NEW p \in Pollers, HandleFinish(p)
      PROVE  PlacesApart'
  <2>1. PICK c \in Calls :
          /\ at[p] = c /\ pc[p] = "handle"
          /\ \A op \in Outstanding : op[1] # c
          /\ \A q \in Pollers : pc[q] # "next" /\ at[q] = c => q = p
          /\ alive' = alive \ {c}
          /\ pc' = [pc EXCEPT ![p] = "next"]
          /\ Outstanding' = Outstanding
    BY <1>6, FinishEffect
  <2>2. UNCHANGED <<call_status, at, next>>
    BY <1>6 DEF HandleFinish
  <2>3. \A d : OpOf(d)' = OpOf(d)
    BY <2>2 DEF OpOf
  <2> HIDE DEF OpOf
  <2>4. QED
    BY <1>0, <2>1, <2>2, <2>3 DEF TypeOK
<1>7. CASE UNCHANGED vars
  BY <1>0, <1>7 DEF vars, Outstanding, OpOf
<1>8. QED
  BY <1>1, <1>2, <1>3, <1>4, <1>5, <1>6, <1>7 DEF Next, Handle

\* No handler is left without an operation and without a thread.
LEMMA NoneIsForgottenStep ==
  ASSUME IInv, [Next]_vars
  PROVE  NoneIsForgotten'
<1> USE DEF NoneIsForgotten, InHandler
<1>0. NoneIsForgotten /\ TypeOK /\ PlacesApart /\ alive \subseteq Calls
  BY DEF IInv, TypeOK
<1>1. ASSUME NEW c \in Calls, Begin(c)
      PROVE  NoneIsForgotten'
  <2>1. Outstanding' = Outstanding \cup {OpOf(c)}
    BY <1>1, BeginEffect
  <2>2. alive' = alive \cup {c} /\ UNCHANGED <<call_status, pc, at>>
    BY <1>1 DEF Begin, pollerVars
  <2>3. \A d : OpOf(d)' = OpOf(d)
    BY <2>2 DEF OpOf
  <2> HIDE DEF OpOf
  <2>4. QED
    BY <1>0, <2>1, <2>2, <2>3
<1>2. ASSUME NEW c \in Calls, Respond(c)
      PROVE  NoneIsForgotten'
  BY <1>0, <1>2, RespondEffect DEF pollerVars, OpOf
<1>3. ASSUME NEW p \in Pollers, NEW e \in events, Poll(p, e)
      PROVE  NoneIsForgotten'
  <2>1. PICK c \in Calls :
          /\ pc[p] = "next" /\ at' = [at EXCEPT ![p] = c]
          /\ Outstanding' = Outstanding \ {OpOf(c)}
    BY <1>3, PollEffect
  <2>2. pc' = [pc EXCEPT ![p] = "handle"] /\ UNCHANGED <<alive, call_status>>
    BY <1>3 DEF Poll
  <2>3. \A d : OpOf(d)' = OpOf(d)
    BY <2>2 DEF OpOf
  <2>4. \A d \in Calls : OpOf(d)[1] = d
    BY <1>0, OpsDiffer
  <2>5. pc'[p] # "next" /\ at'[p] = c /\ \A q \in Pollers : pc[q] # "next" => pc'[q] = pc[q] /\ at'[q] = at[q]
    BY <1>0, <2>1, <2>2 DEF TypeOK
  <2> HIDE DEF OpOf
  <2>6. QED
    BY <1>0, <2>1, <2>2, <2>3, <2>4, <2>5
<1>4. ASSUME NEW p \in Pollers, HandleStartup(p) \/ HandleProcess(p)
      PROVE  NoneIsForgotten'
  <2>1. /\ pc[p] = "handle" /\ pc' = [pc EXCEPT ![p] = "op"]
        /\ UNCHANGED <<alive, at>> /\ Outstanding' = Outstanding
    BY <1>4, ProceedEffect
  <2>2. \A d \in Calls : d # at[p] => OpOf(d)' = OpOf(d)
    BY <1>0, <1>4, ProceedEffect DEF OpOf, TypeOK
  <2>3. \A q \in Pollers : pc[q] # "next" => pc'[q] # "next"
    BY <1>0, <2>1 DEF TypeOK
  <2> HIDE DEF OpOf
  <2>4. QED
    BY <1>0, <2>1, <2>2, <2>3
<1>5. ASSUME NEW p \in Pollers, Start(p)
      PROVE  NoneIsForgotten'
  <2>1. /\ pc' = [pc EXCEPT ![p] = "next"]
        /\ Outstanding' = Outstanding \cup {OpOf(at[p])}
    BY <1>5, StartEffect
  <2>2. UNCHANGED <<alive, call_status, at>>
    BY <1>5 DEF Start
  <2>3. \A d : OpOf(d)' = OpOf(d)
    BY <2>2 DEF OpOf
  <2>4. \A q \in Pollers : q # p => pc'[q] = pc[q]
    BY <1>0, <2>1 DEF TypeOK
  <2> HIDE DEF OpOf
  <2>5. QED
    BY <1>0, <2>1, <2>2, <2>3, <2>4
<1>6. ASSUME NEW p \in Pollers, HandleFinish(p)
      PROVE  NoneIsForgotten'
  <2>1. PICK c \in Calls :
          /\ at[p] = c /\ alive' = alive \ {c}
          /\ pc' = [pc EXCEPT ![p] = "next"]
          /\ Outstanding' = Outstanding
    BY <1>6, FinishEffect
  <2>2. UNCHANGED <<call_status, at>>
    BY <1>6 DEF HandleFinish
  <2>3. \A d : OpOf(d)' = OpOf(d)
    BY <2>2 DEF OpOf
  <2>4. \A q \in Pollers : q # p => pc'[q] = pc[q]
    BY <1>0, <2>1 DEF TypeOK
  <2> HIDE DEF OpOf
  <2>5. QED
    BY <1>0, <2>1, <2>2, <2>3, <2>4
<1>7. CASE UNCHANGED vars
  BY <1>0, <1>7 DEF vars, Outstanding, OpOf
<1>8. QED
  BY <1>1, <1>2, <1>3, <1>4, <1>5, <1>6, <1>7 DEF Next, Handle
\* A handler lives until its promise is set, to how its call ended.
LEMMA LivesStep ==
  ASSUME IInv, [Next]_vars
  PROVE  LivesForItsPromise'
<1> USE DEF LivesForItsPromise
<1>0. LivesForItsPromise /\ TypeOK
  BY DEF IInv
<1>rest. ASSUME UNCHANGED <<begun, alive, call_status, failed, promise>>
         PROVE  LivesForItsPromise'
  BY <1>0, <1>rest
<1>1. ASSUME NEW c \in Calls, Begin(c)
      PROVE  LivesForItsPromise'
  BY <1>0, <1>1 DEF Begin, serverVars
<1>2. ASSUME NEW c \in Calls, Respond(c)
      PROVE  LivesForItsPromise'
  <2>1. c \in alive /\ UNCHANGED <<begun, alive, call_status, promise>>
    BY <1>2, RespondEffect
  <2>2. failed' = failed \/ failed' = failed \cup {c}
    BY <1>2 DEF Respond, RespondStart, RespondRead, RespondFinish, serverVars
  <2>3. QED
    BY <1>0, <2>1, <2>2
<1>3. ASSUME NEW p \in Pollers, NEW e \in events, Poll(p, e)
      PROVE  LivesForItsPromise'
  BY <1>3, <1>rest DEF Poll, serverVars
<1>4. ASSUME NEW p \in Pollers, HandleStartup(p) \/ HandleProcess(p)
      PROVE  LivesForItsPromise'
  <2>1. at[p] \in alive /\ at[p] \in Calls
    BY <1>4, ProceedEffect, InHandle
  <2>2. at[p] \in begun
    BY <1>0, <2>1
  <2>3. \A d \in Calls : d # at[p] => call_status'[d] = call_status[d]
    BY <1>0, <1>4, ProceedEffect DEF TypeOK
  <2>4. UNCHANGED <<begun, alive, failed, promise>>
    BY <1>4, ProceedEffect
  <2>5. QED
    BY <1>0, <2>2, <2>3, <2>4
<1>5. ASSUME NEW p \in Pollers, Start(p)
      PROVE  LivesForItsPromise'
  BY <1>5, <1>rest DEF Start, serverVars
<1>6. ASSUME NEW p \in Pollers, HandleFinish(p)
      PROVE  LivesForItsPromise'
  <2>1. PICK c \in Calls :
          /\ c \in alive /\ alive' = alive \ {c}
          /\ promise' = [promise EXCEPT ![c] = IF c \in failed THEN "error" ELSE "ok"]
    BY <1>6, FinishEffect
  <2>2. UNCHANGED <<begun, call_status, failed>>
    BY <1>6 DEF HandleFinish, serverVars
  <2>3. promise'[c] # "empty" /\ (promise'[c] = "error" <=> c \in failed)
    BY <1>0, <2>1 DEF TypeOK
  <2>4. \A d \in Calls : d # c => promise'[d] = promise[d]
    BY <1>0, <2>1 DEF TypeOK
  <2>5. QED
    BY <1>0, <2>1, <2>2, <2>3, <2>4
<1>7. CASE UNCHANGED vars
  BY <1>7, <1>rest DEF vars
<1>8. QED
  BY <1>1, <1>2, <1>3, <1>4, <1>5, <1>6, <1>7 DEF Next, Handle

\* A completion brings an answer on its way only if it is that of a read.
LEMMA WayOfCompletion ==
  ASSUME IInv, NEW c \in Calls, NEW k, NEW ok \in BOOLEAN,
         CompleteOp(<<c, k>>, ok), UNCHANGED <<call_status, pc, at, flag>>
  PROVE  /\ \A d \in Calls : d # c \/ k # "read" => (OnItsWay(d)' <=> OnItsWay(d))
         /\ k = "read" => ~OnItsWay(c) /\ (OnItsWay(c)' <=> ok)
<1> DEFINE new == [op |-> <<c, k>>, ok |-> ok]
<1>1. new.op = <<c, k>> /\ new.ok = ok /\ events' = events \cup {new}
  BY DEF CompleteOp
<1> HIDE DEF new
<1>2. <<c, k>> \in started /\ <<c, k>> \in Outstanding /\ <<c, k>>[1] = c
  BY DEF CompleteOp, Outstanding
<1>3. ~OnItsWay(c)
  BY <1>2, WayThroughQueue
<1>4. \A d \in Calls : d # c \/ k # "read" => <<d, "read">> # <<c, k>>
  OBVIOUS
<1>5. QED
  BY <1>1, <1>3, <1>4 DEF OnItsWay

\* What grpc read reaches the handler function, one answer after the other.
LEMMA AnswersStep ==
  ASSUME IInv, [Next]_vars
  PROVE  AnswersAddUp'
<1> USE DEF AnswersAddUp
<1>0. AnswersAddUp /\ TypeOK
  BY DEF IInv
<1>rest. ASSUME UNCHANGED <<events, call_status, pc, at, flag, sent, replies>>
         PROVE  AnswersAddUp'
  BY <1>0, <1>rest DEF OnItsWay
<1>1. ASSUME NEW c \in Calls, Begin(c)
      PROVE  AnswersAddUp'
  BY <1>1, <1>rest DEF Begin, serverVars, pollerVars
<1>2. ASSUME NEW c \in Calls, Respond(c)
      PROVE  AnswersAddUp'
  <2>1. UNCHANGED <<call_status, replies, pc, at, flag>>
    BY <1>2, RespondEffect DEF pollerVars
  <2>2. ASSUME NEW ok \in BOOLEAN, RespondStart(c, ok) \/ RespondFinish(c, ok)
        PROVE  AnswersAddUp'
    <3>1. sent' = sent /\ \E k \in {"start", "finish"}, f \in BOOLEAN : CompleteOp(<<c, k>>, f)
      BY <2>2 DEF RespondStart, RespondFinish, serverVars
    <3>2. \A d \in Calls : OnItsWay(d)' <=> OnItsWay(d)
      BY <2>1, <3>1, WayOfCompletion
    <3>3. QED
      BY <1>0, <2>1, <3>1, <3>2
  <2>3. ASSUME NEW ok \in BOOLEAN, RespondRead(c, ok)
        PROVE  AnswersAddUp'
    <3>1. /\ CompleteOp(<<c, "read">>, ok)
          /\ sent' = [sent EXCEPT ![c] = IF ok THEN @ + 1 ELSE @]
      BY <2>3 DEF RespondRead
    <3>2. /\ \A d \in Calls : d # c => (OnItsWay(d)' <=> OnItsWay(d))
          /\ ~OnItsWay(c) /\ (OnItsWay(c)' <=> ok)
      BY <2>1, <3>1, WayOfCompletion
    <3>3. /\ \A d \in Calls : d # c => sent'[d] = sent[d]
          /\ sent'[c] = IF ok THEN sent[c] + 1 ELSE sent[c]
      BY <1>0, <3>1 DEF TypeOK
    <3>4. QED
      BY <1>0, <2>1, <3>2, <3>3
  <2>4. QED
    BY <1>2, <2>2, <2>3 DEF Respond
<1>3. ASSUME NEW p \in Pollers, NEW e \in events, Poll(p, e)
      PROVE  AnswersAddUp'
  <2>1. PICK c \in Calls :
          /\ e.op = OpOf(c) /\ e.ok \in BOOLEAN
          /\ \A q \in Pollers : pc[q] # "next" => at[q] # c
          /\ pc[p] = "next"
          /\ at' = [at EXCEPT ![p] = c] /\ flag' = [flag EXCEPT ![p] = e.ok]
          /\ OnItsWay(c) <=> e.ok /\ call_status[c] = "PROCESS"
    BY <1>3, PollEffect
  <2>2. /\ pc' = [pc EXCEPT ![p] = "handle"] /\ events' = events \ {e}
        /\ UNCHANGED <<call_status, sent, replies>>
    BY <1>3 DEF Poll, TakeEvent, serverVars
  <2>3. /\ at'[p] = c /\ pc'[p] = "handle" /\ flag'[p] = e.ok
        /\ \A q \in Pollers : q # p => pc'[q] = pc[q] /\ at'[q] = at[q] /\ flag'[q] = flag[q]
    BY <1>0, <2>1, <2>2 DEF TypeOK
  <2>4. \A d \in events' : d.op # <<c, "read">>
    <3>1. \A d \in events : d.op = <<c, "read">> => d.op \in Outstanding /\ d.op[1] = c
      BY DEF Outstanding
    <3>2. \A d \in events : d.op = <<c, "read">> => d.op = e.op
      BY <2>1, <3>1, WayThroughQueue
    <3>3. QED
      BY <2>2, <3>2 DEF IInv, QueueOK
  <2>5. OnItsWay(c)' <=> OnItsWay(c)
    <3>1. OnItsWay(c)' <=> call_status[c] = "PROCESS" /\ flag'[p]
      BY <2>1, <2>2, <2>3, <2>4 DEF OnItsWay
    <3>2. QED
      BY <2>1, <2>3, <3>1
  <2>6. ASSUME NEW d \in Calls, d # c
        PROVE  OnItsWay(d)' <=> OnItsWay(d)
    <3>1. e.op # <<d, "read">>
      BY <1>0, <2>1, <2>6, OpsDiffer
    <3>2. (\E f \in events' : f.op = <<d, "read">> /\ f.ok) <=> \E f \in events : f.op = <<d, "read">> /\ f.ok
      BY <2>2, <3>1
    <3>3. \A q \in Pollers : (pc'[q] = "handle" /\ at'[q] = d /\ flag'[q]) <=> (pc[q] = "handle" /\ at[q] = d /\ flag[q])
      BY <2>1, <2>3, <2>6
    <3>4. QED
      BY <2>2, <3>2, <3>3 DEF OnItsWay
  <2>7. QED
    BY <1>0, <2>2, <2>5, <2>6
<1>4. ASSUME NEW p \in Pollers, HandleStartup(p) \/ HandleProcess(p)
      PROVE  AnswersAddUp'
  <2> DEFINE c == at[p]
  <2>1. /\ pc[p] = "handle" /\ pc' = [pc EXCEPT ![p] = "op"]
        /\ UNCHANGED <<events, sent, at, flag>>
    BY <1>4, ProceedEffect
  <2>2. c \in Calls /\ \A q \in Pollers : pc[q] # "next" /\ at[q] = c => q = p
    BY <2>1, InHandle
  <2>3. /\ \A e \in events : e.op # <<c, "read">>
        /\ OnItsWay(c) <=> call_status[c] = "PROCESS" /\ flag[p]
    BY <2>1, WayThroughHandle
  <2>4. pc'[p] = "op" /\ \A q \in Pollers : q # p => pc'[q] = pc[q]
    BY <1>0, <2>1 DEF TypeOK
  <2>5. \A d \in Calls : d # c => call_status'[d] = call_status[d]
    BY <1>0, <1>4, ProceedEffect DEF TypeOK
  <2>6. /\ \A d \in Calls : d # c => replies'[d] = replies[d]
        /\ replies'[c] = IF OnItsWay(c) THEN replies[c] + 1 ELSE replies[c]
    <3>1. CASE HandleStartup(p)
      BY <2>3, <3>1 DEF HandleStartup
    <3>2. CASE HandleProcess(p)
      <4>1. replies' = Delivered(p) /\ (OnItsWay(c) <=> flag[p])
        BY <2>3, <3>2 DEF HandleProcess
      <4>2. QED
        BY <1>0, <2>2, <4>1 DEF Delivered, TypeOK
    <3>3. QED
      BY <1>4, <3>1, <3>2
  <2> HIDE DEF c
  <2>7. ~OnItsWay(c)'
    BY <2>1, <2>2, <2>3, <2>4 DEF OnItsWay, c
  <2>8. \A d \in Calls : d # c => (OnItsWay(d)' <=> OnItsWay(d))
    BY <2>1, <2>4, <2>5 DEF OnItsWay, c
  <2>9. c' = c
    BY <2>1 DEF c
  <2>10. QED
    BY <1>0, <2>1, <2>2, <2>6, <2>7, <2>8, <2>9
<1>5. ASSUME NEW p \in Pollers, Start(p)
      PROVE  AnswersAddUp'
  <2>1. pc[p] = "op" /\ pc' = [pc EXCEPT ![p] = "next"]
    BY <1>5, StartEffect
  <2>2. UNCHANGED <<events, call_status, sent, replies, at, flag>>
    BY <1>5 DEF Start, serverVars
  <2>3. \A q \in Pollers : pc'[q] = "handle" <=> pc[q] = "handle"
    BY <1>0, <2>1 DEF TypeOK
  <2>4. \A d \in Calls : OnItsWay(d)' <=> OnItsWay(d)
    BY <2>2, <2>3 DEF OnItsWay
  <2>5. QED
    BY <1>0, <2>2, <2>4
<1>6. ASSUME NEW p \in Pollers, HandleFinish(p)
      PROVE  AnswersAddUp'
  <2>1. PICK c \in Calls : at[p] = c /\ ~OnItsWay(c) /\ pc' = [pc EXCEPT ![p] = "next"]
    BY <1>6, FinishEffect
  <2>2. UNCHANGED <<events, call_status, sent, replies, at, flag>>
    BY <1>6 DEF HandleFinish, cqVars, serverVars
  <2>3. pc'[p] = "next" /\ \A q \in Pollers : q # p => pc'[q] = pc[q]
    BY <1>0, <2>1 DEF TypeOK
  <2>4. \A d \in Calls : OnItsWay(d)' <=> OnItsWay(d)
    BY <2>1, <2>2, <2>3 DEF OnItsWay
  <2>5. QED
    BY <1>0, <2>2, <2>4
<1>7. CASE UNCHANGED vars
  BY <1>7, <1>rest DEF vars
<1>8. QED
  BY <1>1, <1>2, <1>3, <1>4, <1>5, <1>6, <1>7 DEF Next, Handle

-------------------------------------------------------------------------------

\* Nothing is called at first.
LEMMA InitInv == Init => IInv
<1> SUFFICES ASSUME Init
             PROVE  IInv
  OBVIOUS
<1>1. Outstanding = {}
  BY DEF Init, CQInit, Outstanding
<1>2. TypeOK /\ QueueOK(Ops)
  BY MaxAnswersIsNatural DEF Init, CQInit, TypeOK, QueueOK
<1>3. PlacesApart /\ NoneIsForgotten
  BY <1>1 DEF Init, PlacesApart, NoneIsForgotten
<1>4. LivesForItsPromise
  BY DEF Init, LivesForItsPromise
<1>5. AnswersAddUp
  BY DEF Init, CQInit, AnswersAddUp, OnItsWay
<1>6. QED
  BY <1>2, <1>3, <1>4, <1>5 DEF IInv

\* IInv holds in every state: starting the next operation is the last thing a thread
\* does with a handler (client_async_stream.hpp:28-59).
THEOREM Invariance == Spec => []IInv
<1>1. IInv /\ [Next]_vars => IInv'
  BY TypeStep, QueueStep, PlacesStep, NoneIsForgottenStep, LivesStep, AnswersStep DEF IInv
<1>2. QED
  BY <1>1, InitInv, PTL DEF Spec

\* Every variable has its type; in particular the handler function is called at most
\* MaxAnswers times for a call (client_async_stream.hpp:44-51).
THEOREM TypeCorrect == Spec => []TypeOK
<1>1. IInv => TypeOK
  BY DEF IInv
<1>2. QED
  BY <1>1, Invariance, PTL

\* However many threads poll, a living handler is with one of them or has one operation
\* outstanding, and a deleted one has neither (client_async_stream.hpp:23-75).
THEOREM OneHolder == Spec => []HandlerHasOneHolder
<1>1. IInv => HandlerHasOneHolder
  <2> SUFFICES ASSUME IInv, NEW c \in Calls
               PROVE  HandlerHasOneHolder!(c)
    BY Zenon DEF HandlerHasOneHolder
  <2> DEFINE ops == {op \in Outstanding : op[1] = c}
             threads == {p \in Pollers : InHandler(p, c)}
  <2>1. OpOf(c)[1] = c
    BY OpsDiffer DEF IInv
  <2>2. \A op \in ops : c \in alive /\ op = OpOf(c)
    BY WayThroughQueue
  <2>3. \A p \in threads : c \in alive /\ OpOf(c) \notin Outstanding
    BY DEF IInv, PlacesApart, InHandler
  <2>4. \A p, q \in threads : p = q
    BY DEF IInv, PlacesApart, InHandler
  <2>5. CASE c \notin alive
    BY <2>2, <2>3, <2>5
  <2>6. CASE OpOf(c) \in Outstanding
    <3>1. OpOf(c) \in ops /\ ops = {OpOf(c)} /\ threads = {} /\ c \in alive
      BY <2>1, <2>2, <2>3, <2>6
    <3>2. QED
      BY <3>1
  <2>7. CASE c \in alive /\ OpOf(c) \notin Outstanding
    <3>1. PICK p \in Pollers : InHandler(p, c)
      BY <2>7 DEF IInv, NoneIsForgotten
    <3>2. p \in threads /\ threads = {p} /\ ops = {}
      BY <2>2, <2>4, <2>7, <3>1
    <3>3. QED
      BY <2>7, <3>2
  <2>8. QED
    BY <2>5, <2>6, <2>7
<1>2. QED
  BY <1>1, Invariance, PTL

\* When the promise of a call is set, every answer that was read has gone to the handler
\* function, and the promise tells whether the call failed (client_async_stream.hpp:49-73).
THEOREM AnswersFirst == Spec => []AnswersComeBeforePromise
<1>1. IInv => AnswersComeBeforePromise
  <2> SUFFICES ASSUME IInv, NEW c \in Calls, promise[c] # "empty"
               PROVE  replies[c] = sent[c] /\ (promise[c] = "error" <=> c \in failed)
    BY DEF AnswersComeBeforePromise
  <2>1. c \notin alive /\ (promise[c] = "error" <=> c \in failed)
    BY DEF IInv, LivesForItsPromise
  <2>2. ~OnItsWay(c)
    BY <2>1, NoWay
  <2>3. QED
    BY <2>1, <2>2 DEF IInv, AnswersAddUp
<1>2. QED
  BY <1>1, Invariance, PTL

-------------------------------------------------------------------------------

RC == INSTANCE RemoteCalls WITH
        answers <- replies,
        result <- [c \in Calls |-> IF promise[c] = "empty" THEN "open" ELSE promise[c]]

\* Nothing was answered and every call is open at first.
LEMMA InitRefines == Init => RC!Init
BY DEF Init, RC!Init

\* The handler function is called in calls that are open, the destructor ends the one
\* it sets the promise of, and the operations of the stream are invisible.
LEMMA StepRefines ==
  ASSUME IInv, [Next]_vars
  PROVE  [RC!Next]_(RC!vars)
<1>0. /\ promise \in [Calls -> {"empty", "ok", "error"}]
      /\ replies \in [Calls -> 0 .. MaxAnswers]
  BY DEF IInv, TypeOK
<1>1. ASSUME UNCHANGED <<replies, promise>>
      PROVE  UNCHANGED RC!vars
  BY <1>1 DEF RC!vars
<1>2. ASSUME NEW p \in Pollers, HandleProcess(p)
      PROVE  [RC!Next]_(RC!vars)
  <2>1. at[p] \in Calls /\ promise[at[p]] = "empty" /\ promise' = promise
    BY <1>2, InHandle DEF HandleProcess, IInv, LivesForItsPromise
  <2>2. CASE replies' = replies
    BY <1>1, <2>1, <2>2
  <2>3. CASE replies' = [replies EXCEPT ![at[p]] = @ + 1]
    <3>1. RC!Answer(at[p])
      BY <1>0, <2>1, <2>3 DEF RC!Answer
    <3>2. QED
      BY <2>1, <3>1 DEF RC!Next
  <2>4. QED
    BY <1>2, <2>2, <2>3 DEF HandleProcess, Delivered
<1>3. ASSUME NEW p \in Pollers, HandleFinish(p)
      PROVE  [RC!Next]_(RC!vars)
  <2>1. PICK c \in Calls :
          c \in alive /\ promise' = [promise EXCEPT ![c] = IF c \in failed THEN "error" ELSE "ok"]
    BY <1>3, FinishEffect
  <2>2. PICK r \in {"ok", "error"} : promise' = [promise EXCEPT ![c] = r]
    BY <2>1
  <2>3. promise[c] = "empty" /\ replies' = replies
    BY <1>3, <2>1 DEF HandleFinish, IInv, LivesForItsPromise
  <2>4. RC!End(c, r)
    BY <1>0, <2>2, <2>3 DEF RC!End
  <2>5. QED
    BY <2>4 DEF RC!Next
<1>4. CASE \E c \in Calls : Begin(c) \/ Respond(c)
  BY <1>1, <1>4, RespondEffect DEF Begin
<1>5. CASE \E p \in Pollers : HandleStartup(p) \/ Start(p) \/ \E e \in events : Poll(p, e)
  BY <1>1, <1>5 DEF HandleStartup, Start, Poll
<1>6. CASE UNCHANGED vars
  BY <1>1, <1>6 DEF vars
<1>7. QED
  BY <1>2, <1>3, <1>4, <1>5, <1>6 DEF Next, Handle

\* To who makes a call and waits for its promise, a stream is like a unary call: answers
\* come while the call is open, and it ends once, with success or with an error, after
\* which nothing more happens to it (client_async_stream.hpp:49-73,
\* iclient_async.hpp:26-49).
THEOREM Refinement == Spec => RC!Spec
<1>1. IInv /\ [Next]_vars => [RC!Next]_(RC!vars)
  BY StepRefines
<1>2. QED
  BY <1>1, InitRefines, Invariance, PTL DEF Spec, RC!Spec
===============================================================================
