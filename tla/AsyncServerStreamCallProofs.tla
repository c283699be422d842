--------------------- MODULE AsyncServerStreamCallProofs ----------------------
(***************************************************************************)
(* Theorems about AsyncServerStreamCall, for any number of calls, items and  *)
(* polling threads. The argument: the status of a handler names the only     *)
(* operation it can have under way, as in AsyncClientStream, unless the      *)
(* handler is dead, when only the tags of a stream that was cut short are    *)
(* left; only the newest handler listens, as in AsyncServerCall; and it_      *)
(* splits the items that write_call_ will write into those that were         *)
(* written, in order, and those that still will be.                         *)
(***************************************************************************)
EXTENDS AsyncServerStreamCall, CompletionQueueProofs, WellFoundedInduction

Kinds == {"request", "write", "finish"}
Ops == Handlers \X Kinds

\* The only operation that living handler h can have under way.
OpOf(h) ==
  <<h, CASE status[h] = "STARTUP" -> "request"
         [] status[h] = "PROCESS" -> "write"
         [] status[h] = "FINISH" -> "finish">>

TypeOK ==
  /\ up \in BOOLEAN
  /\ born \in Handlers
  /\ alive \subseteq 1 .. born
  /\ status \in [Handlers -> {"STARTUP", "PROCESS", "FINISH"}]
  /\ wanted \in [Handlers -> SUBSET (1 .. Items)]
  /\ it \in [Handlers -> 0 .. Items]
  /\ written \in [Handlers -> Seq(1 .. Items)]
  /\ verdict \in [Handlers -> {"none", "ok", "error", "cancelled"}]
  /\ cut \subseteq Handlers
  /\ pc \in [Pollers -> {"next", "dispatch", "created", "init", "process", "op"}]
  /\ at \in [Pollers -> Handlers \cup {None}]
  /\ flag \in [Pollers -> BOOLEAN]
  /\ next \in [Pollers -> {"write", "finish"}]
  /\ builds \in [Pollers -> (1 .. born) \cup {None}]

\* Of a living handler the one operation can be outstanding, of a dead one only what
\* the cut of its stream left; a thread is in a living handler, alone, and does what
\* goes with its status.
PlacesApart ==
  /\ \A op \in Outstanding :
       /\ op[1] \in 1 .. born
       /\ op[1] \in alive => op = OpOf(op[1])
       /\ op[1] \notin alive => op[1] \in cut /\ op[2] # "request"
  /\ \A p \in Pollers : pc[p] # "next" => at[p] \in alive /\ OpOf(at[p]) \notin Outstanding
  /\ \A p, q \in Pollers : pc[p] # "next" /\ pc[q] # "next" /\ at[p] = at[q] => p = q
  /\ \A p \in Pollers :
       /\ pc[p] = "op" => OpOf(at[p]) = <<at[p], next[p]>>
       /\ pc[p] \in {"created", "init", "process"} => status[at[p]] = "STARTUP"

NoneIsForgotten ==
  \A h \in alive : OpOf(h) \in Outstanding \/ \E p \in Pollers : InHandler(p, h)

\* What a completion that is not ok means, in the queue and at the thread that took it.
FailuresAreCuts ==
  /\ \A e \in events : e.ok = FALSE => IF e.op[2] = "request" THEN ~up ELSE e.op[1] \in cut
  /\ \A p \in Pollers : pc[p] = "dispatch" /\ ~flag[p] =>
       IF status[at[p]] = "STARTUP" THEN ~up ELSE at[p] \in cut

\* A handler dies answered, or cut short, or when no request can come any more.
DeadAreAnswered ==
  \A h \in Handlers : h <= born /\ h \notin alive /\ h \notin cut => verdict[h] # "none" \/ ~up

\* Handler h waits for a request, or has just got one.
Listening(h) ==
  \/ <<h, "request">> \in Outstanding
  \/ \E p \in Pollers : at[p] = h /\ pc[p] = "dispatch" /\ status[h] = "STARTUP"

\* Only the newest handler listens, and the last one gets no request.
ListenerIsNewest ==
  /\ \A h \in Handlers : Listening(h) => h = born
  /\ up => Listening(born)
  /\ \A e \in events : e.op[2] = "request" /\ e.ok => born <= MaxRpcs
  /\ \A p \in Pollers :
       pc[p] = "dispatch" /\ flag[p] /\ status[at[p]] = "STARTUP" => born <= MaxRpcs

\* it_ has passed what was written, and the verdict follows the status.
ItemsProgress ==
  \A h \in Handlers :
    /\ h > born => status[h] = "STARTUP"
    /\ status[h] = "STARTUP" => it[h] = 0 /\ written[h] = <<>> /\ verdict[h] = "none"
    /\ status[h] = "FINISH" => verdict[h] # "none"
    /\ \A i, k \in DOMAIN written[h] : i < k => written[h][i] < written[h][k]
    /\ {written[h][i] : i \in DOMAIN written[h]} = {i \in wanted[h] : i <= it[h]}
    /\ verdict[h] = "ok" => Rest(h) = {}

\* The inductive invariant.
IInv ==
  /\ TypeOK
  /\ QueueOK(Ops)
  /\ PlacesApart
  /\ NoneIsForgotten
  /\ FailuresAreCuts
  /\ DeadAreAnswered
  /\ ListenerIsNewest
  /\ ItemsProgress
-------------------------------------------------------------------------------
\* About the operators of the model.

\* A set of natural numbers has a least one.
LEMMA NaturalMin ==
  ASSUME NEW S \in SUBSET Nat, S # {}
  PROVE  Min(S) \in S /\ \A y \in S : Min(S) <= y
<1> DEFINE R == {ss \in Nat \X Nat : ss[1] < ss[2]}
<1>1. R = OpToRel(<, Nat)
  BY DEF OpToRel
<1>2. IsWellFoundedOn(R, Nat)
  BY <1>1, NatLessThanWellFounded
<1> HIDE DEF R
<1>3. PICK x \in S : \A y \in S : ~ (<<y, x>> \in R)
  BY <1>2, WFMin
<1>4. \A y \in S : x <= y
  <2> TAKE y \in S
  <2>1. ~ (<<y, x>> \in R)
    BY <1>3
  <2>2. x \in Nat /\ y \in Nat
    OBVIOUS
  <2>3. y < x => <<y, x>> \in R
    BY <2>2 DEF R
  <2>4. QED
    BY <2>1, <2>2, <2>3
<1>5. QED
  BY <1>4 DEF Min

\* What is appended comes after the rest and adds to it.
LEMMA AppendInOrder ==
  ASSUME NEW S \in SUBSET Nat, NEW s \in Seq(S), NEW e \in S,
         \A i, k \in DOMAIN s : i < k => s[i] < s[k],
         \A i \in DOMAIN s : s[i] < e
  PROVE  /\ \A i, k \in DOMAIN Append(s, e) : i < k => Append(s, e)[i] < Append(s, e)[k]
         /\ {Append(s, e)[i] : i \in DOMAIN Append(s, e)} = {s[i] : i \in DOMAIN s} \cup {e}
<1> DEFINE t == Append(s, e)
<1>1. /\ DOMAIN s = 1 .. Len(s) /\ Len(s) \in Nat /\ DOMAIN t = 1 .. Len(s) + 1
      /\ \A i \in 1 .. Len(s) : t[i] = s[i]
      /\ t[Len(s) + 1] = e
  OBVIOUS
<1>n. e \in Nat /\ \A i \in 1 .. Len(s) : s[i] \in Nat
  <2>1. \A i \in 1 .. Len(s) : s[i] \in S
    OBVIOUS
  <2>2. QED
    BY <2>1
<1> HIDE DEF t
<1>2. \A i \in DOMAIN t : i \in DOMAIN s \/ i = Len(s) + 1
  BY <1>1
<1>3. \A i, k \in DOMAIN t : i < k => t[i] < t[k]
  BY <1>1, <1>n, <1>2
<1>4. {t[i] : i \in DOMAIN t} = {s[i] : i \in DOMAIN s} \cup {e}
  BY <1>1, <1>2
<1>5. QED
  BY <1>3, <1>4 DEF t

\* The operations of different handlers differ.
LEMMA OpsDiffer ==
  ASSUME TypeOK, NEW h \in Handlers
  PROVE  OpOf(h) \in Ops /\ OpOf(h)[1] = h
BY DEF TypeOK, OpOf, Ops, Kinds

\* What the invariant says of numbers.
LEMMA Numbers ==
  ASSUME IInv
  PROVE  /\ born \in Nat /\ 1 .. born \subseteq Handlers
         /\ alive \subseteq 1 .. born /\ alive \subseteq Handlers
<1>1. born \in Nat /\ 1 .. born \subseteq Handlers /\ alive \subseteq 1 .. born
  BY BoundsAreNatural DEF IInv, TypeOK, Handlers
<1>2. QED
  BY <1>1

\* A thread in serve() or shutdown() has a living handler to itself, and nothing of it
\* is outstanding.
LEMMA InHandle ==
  ASSUME IInv, NEW p \in Pollers, pc[p] # "next"
  PROVE  /\ at[p] \in alive /\ at[p] \in 1 .. born /\ at[p] \in Handlers
         /\ \A op \in Outstanding : op[1] # at[p]
         /\ \A q \in Pollers : pc[q] # "next" /\ at[q] = at[p] => q = p
<1>1. at[p] \in alive /\ OpOf(at[p]) \notin Outstanding
  BY DEF IInv, PlacesApart
<1>2. \A op \in Outstanding : op[1] # at[p]
  BY <1>1 DEF IInv, PlacesApart
<1>3. QED
  BY <1>1, <1>2, Numbers DEF IInv, PlacesApart

-------------------------------------------------------------------------------
\* The effects of the actions.

\* What grpc does on its own: the outstanding operations stay, a completion that is not
\* ok is a request that nobody will make or cuts a stream short, and one that is ok
\* brings at most the last request.
LEMMA GrpcEffect ==
  ASSUME IInv,
         ServerShutdown \/ \E h \in Handlers : ClientCalls(h) \/ \E ok \in BOOLEAN : Sent(h, ok)
  PROVE  /\ QueueOK(Ops)' /\ Outstanding' = Outstanding
         /\ cut \subseteq cut' /\ cut' \subseteq Handlers
         /\ up' \in BOOLEAN /\ (up' => up)
         /\ \A e \in events' :
              \/ e \in events
              \/ e.op[2] = "request" /\ e.ok = FALSE /\ ~up'
              \/ e.op[2] = "request" /\ e.ok = TRUE /\ born <= MaxRpcs
              \/ e.op[2] # "request" /\ (e.ok = FALSE => e.op[1] \in cut')
         /\ UNCHANGED <<born, alive, status, wanted, it, written, verdict, pc, at, flag, next, builds>>
<1>0. QueueOK(Ops) /\ cut \subseteq Handlers /\ up \in BOOLEAN
  BY DEF IInv, TypeOK
<1>1. CASE ServerShutdown
  <2> DEFINE requests == {op \in started : op[2] = "request"}
  <2>1. /\ started' = started \ requests
        /\ events' = events \cup {[op |-> op, ok |-> FALSE] : op \in requests}
        /\ up' = FALSE
        /\ UNCHANGED <<cut, born, alive, status, wanted, it, written, verdict, pc, at, flag, next, builds>>
    BY <1>1 DEF ServerShutdown, handlerVars, pollerVars
  <2>2. requests \in SUBSET started /\ \A op \in requests : op[2] = "request"
    OBVIOUS
  <2> HIDE DEF requests
  <2>3. /\ QueueOK(Ops)' /\ Outstanding' = Outstanding
        /\ \A e \in events' : e \in events \/ (e.op \in requests /\ e.ok = FALSE)
    BY <1>0, <2>1, <2>2, Failing
  <2>4. QED
    BY <1>0, <2>1, <2>2, <2>3
<1>2. ASSUME NEW h \in Handlers, ClientCalls(h)
      PROVE  /\ CompleteOp(<<h, "request">>, TRUE) /\ born <= MaxRpcs
             /\ UNCHANGED <<up, cut, born, alive, status, wanted, it, written, verdict, pc, at,
                            flag, next, builds>>
  BY <1>2 DEF ClientCalls, handlerVars, pollerVars
<1>3. ASSUME NEW h \in Handlers, NEW ok \in BOOLEAN, Sent(h, ok)
      PROVE  /\ \E k \in {"write", "finish"} : CompleteOp(<<h, k>>, ok)
             /\ cut' = IF ok THEN cut ELSE cut \cup {h}
             /\ UNCHANGED <<up, born, alive, status, wanted, it, written, verdict, pc, at,
                            flag, next, builds>>
  BY <1>3 DEF Sent, handlerVars, pollerVars
<1>4. ASSUME NEW h \in Handlers, NEW k, NEW ok \in BOOLEAN, CompleteOp(<<h, k>>, ok)
      PROVE  /\ QueueOK(Ops)' /\ Outstanding' = Outstanding
             /\ \A e \in events' : e \in events \/ (e.op[1] = h /\ e.op[2] = k /\ e.ok = ok)
  <2> DEFINE op == <<h, k>>
  <2>1. CompleteOp(op, ok) /\ op[1] = h /\ op[2] = k
    BY <1>4
  <2> HIDE DEF op
  <2>2. QED
    BY <1>0, <2>1, Completing
<1>5. ASSUME NEW h \in Handlers, ClientCalls(h)
      PROVE  /\ QueueOK(Ops)' /\ Outstanding' = Outstanding
             /\ \A e \in events' :
                  e \in events \/ (e.op[2] = "request" /\ e.ok = TRUE /\ born <= MaxRpcs)
  BY <1>2, <1>4, <1>5
<1>6. ASSUME NEW h \in Handlers, NEW ok \in BOOLEAN, Sent(h, ok)
      PROVE  /\ QueueOK(Ops)' /\ Outstanding' = Outstanding
             /\ \A e \in events' :
                  e \in events \/ (e.op[2] # "request" /\ (e.ok = FALSE => e.op[1] \in cut'))
  <2>1. PICK k \in {"write", "finish"} : CompleteOp(<<h, k>>, ok)
    BY <1>3, <1>6
  <2>2. /\ QueueOK(Ops)' /\ Outstanding' = Outstanding
        /\ \A e \in events' : e \in events \/ (e.op[1] = h /\ e.op[2] = k /\ e.ok = ok)
    BY <1>4, <2>1
  <2>3. ok = FALSE => h \in cut'
    BY <1>3, <1>6
  <2>4. QED
    BY <2>2, <2>3
<1>7. CASE \E h \in Handlers : ClientCalls(h)
  BY <1>0, <1>2, <1>5, <1>7
<1>8. CASE \E h \in Handlers, ok \in BOOLEAN : Sent(h, ok)
  BY <1>0, <1>3, <1>6, <1>8
<1>9. QED
  BY <1>1, <1>7, <1>8

\* The thread that takes a completion has the handler to itself.
LEMMA PollEffect ==
  ASSUME IInv, NEW p \in Pollers, NEW e \in events, Poll(p, e)
  PROVE  \E h \in Handlers :
           /\ h \in alive /\ e.op[1] = h /\ e.op = OpOf(h) /\ OpOf(h) \in Outstanding
           /\ e.op[2] = "request" <=> status[h] = "STARTUP"
           /\ \A q \in Pollers : pc[q] # "next" => at[q] # h
           /\ pc[p] = "next" /\ pc' = [pc EXCEPT ![p] = "dispatch"]
           /\ at' = [at EXCEPT ![p] = h]
           /\ e.ok \in BOOLEAN /\ flag' = [flag EXCEPT ![p] = e.ok]
           /\ events' = events \ {e}
           /\ QueueOK(Ops)' /\ Outstanding' = Outstanding \ {OpOf(h)}
           /\ UNCHANGED <<up, born, alive, status, wanted, it, written, verdict, cut, next, builds>>
<1>1. /\ TakeEvent(e) /\ UNCHANGED started /\ QueueOK(Ops)
      /\ UNCHANGED <<up, born, alive, status, wanted, it, written, verdict, cut, next, builds>>
  BY DEF Poll, IInv, handlerVars
<1>2. /\ QueueOK(Ops)' /\ e \in [op : Ops, ok : BOOLEAN] /\ e.op \in Outstanding
      /\ Outstanding' = Outstanding \ {e.op}
  BY <1>1, Taking
<1> DEFINE h == e.op[1]
<1>3. h \in alive /\ h \in Handlers /\ e.op = OpOf(h)
  BY <1>2, Numbers DEF Poll, IInv, PlacesApart
<1>4. \A q \in Pollers : pc[q] # "next" => at[q] # h
  BY <1>2, InHandle
<1>5. e.op[2] = "request" <=> status[h] = "STARTUP"
  <2>1. OpOf(h)[2] = "request" <=> status[h] = "STARTUP"
    BY <1>3 DEF OpOf, IInv, TypeOK
  <2>2. QED
    BY <1>3, <2>1
<1>6. /\ pc[p] = "next" /\ pc' = [pc EXCEPT ![p] = "dispatch"]
      /\ at' = [at EXCEPT ![p] = h] /\ flag' = [flag EXCEPT ![p] = e.ok]
  BY DEF Poll
<1>7. e.ok \in BOOLEAN /\ events' = events \ {e}
  BY <1>1, <1>2 DEF TakeEvent
<1> HIDE DEF h
<1>8. e.op[1] = h
  BY DEF h
<1>9. QED
  BY <1>1, <1>2, <1>3, <1>4, <1>5, <1>6, <1>7, <1>8

\* The replacement is made by the only handler that listens, and its number is free.
LEMMA ReplaceEffect ==
  ASSUME IInv, NEW p \in Pollers, ServeReplace(p)
  PROVE  /\ at[p] = born /\ pc[p] = "dispatch" /\ status[born] = "STARTUP"
         /\ born + 1 \in Handlers
         /\ \A op \in Outstanding : op[2] # "request"
         /\ pc' = [pc EXCEPT ![p] = "created"]
         /\ builds' = [builds EXCEPT ![p] = born + 1]
         /\ born' = born + 1 /\ alive' = alive \cup {born + 1}
         /\ \A e \in events' :
              e \in events \/ (e.op[2] = "request" /\ e.ok = FALSE /\ ~up)
         /\ QueueOK(Ops)' /\ Outstanding' = Outstanding \cup {<<born + 1, "request">>}
         /\ UNCHANGED <<up, status, wanted, it, written, verdict, cut, at, flag, next>>
<1>1. pc[p] = "dispatch" /\ flag[p] /\ status[at[p]] = "STARTUP"
  BY DEF ServeReplace, Starting
<1>2. at[p] \in Handlers /\ \A op \in Outstanding : op[1] # at[p]
  BY <1>1, InHandle
<1>3. at[p] = born /\ born <= MaxRpcs
  BY <1>1, <1>2 DEF IInv, ListenerIsNewest, Listening
<1>4. born + 1 \in Handlers
  BY <1>2, <1>3, BoundsAreNatural DEF Handlers
<1>5. ASSUME NEW op \in Outstanding, op[2] = "request"
      PROVE  FALSE
  <2>1. op \in Ops
    BY OutstandingOps DEF IInv
  <2>2. PICK h \in Handlers : op = <<h, "request">>
    BY <1>5, <2>1 DEF Ops
  <2>3. h = born
    BY <2>2 DEF IInv, ListenerIsNewest, Listening
  <2>4. QED
    BY <1>2, <1>3, <2>2, <2>3
<1> DEFINE op == <<born + 1, "request">>
<1>6. op \in Ops /\ op \notin Outstanding /\ op[2] = "request"
  BY <1>4, <1>5 DEF Ops, Kinds
<1>7. QueueOK(Ops)
  BY DEF IInv
<1>8. /\ QueueOK(Ops)' /\ Outstanding' = Outstanding \cup {op}
      /\ \A e \in events' : e \in events \/ (e.op[2] = "request" /\ e.ok = FALSE /\ ~up)
  <2>1. CASE up
    <3>1. StartOp(op) /\ UNCHANGED events
      BY <2>1 DEF ServeReplace, Replace
    <3> HIDE DEF op
    <3>2. QED
      BY <1>6, <1>7, <3>1, StartingOp
  <2>2. CASE ~up
    <3>1. events' = events \cup {[op |-> op, ok |-> FALSE]} /\ started' = started
      BY <2>2 DEF ServeReplace, Replace
    <3> HIDE DEF op
    <3>2. QED
      BY <1>6, <1>7, <2>2, <3>1, Answering
  <2>3. QED
    BY <2>1, <2>2
<1>9. /\ pc' = [pc EXCEPT ![p] = "created"]
      /\ builds' = [builds EXCEPT ![p] = born + 1]
      /\ born' = born + 1 /\ alive' = alive \cup {born + 1}
      /\ UNCHANGED <<up, status, wanted, it, written, verdict, cut, at, flag, next>>
  BY DEF ServeReplace, Replace, handlerVars
<1>10. QED
  BY <1>1, <1>3, <1>4, <1>5, <1>8, <1>9

\* Until the first item is written nothing shows but the range.
LEMMA PrepareEffect ==
  ASSUME IInv, NEW p \in Pollers,
         Created(p) \/ \E items \in SUBSET (1 .. Items) : ServeInit(p, items)
  PROVE  /\ pc[p] \in {"created", "init"} /\ status[at[p]] = "STARTUP"
         /\ \E to \in {"init", "process"} : pc' = [pc EXCEPT ![p] = to]
         /\ builds' = builds \/ builds' = [builds EXCEPT ![p] = None]
         /\ \/ wanted' = wanted
            \/ \E items \in SUBSET (1 .. Items) : wanted' = [wanted EXCEPT ![at[p]] = items]
         /\ QueueOK(Ops)' /\ Outstanding' = Outstanding
         /\ UNCHANGED <<events, up, born, alive, status, it, written, verdict, cut, at, flag, next>>
<1>1. UNCHANGED cqVars /\ pc[p] \in {"created", "init"}
  BY DEF Created, ServeInit
<1>2. QueueOK(Ops)' /\ Outstanding' = Outstanding
  BY <1>1, Resting DEF IInv
<1>3. status[at[p]] = "STARTUP"
  BY <1>1 DEF IInv, PlacesApart
<1>4. QED
  BY <1>1, <1>2, <1>3 DEF Created, ServeInit, handlerVars, cqVars

\* serve() leaves the handler in the status that goes with the operation it starts.
LEMMA ServeEffect ==
  ASSUME IInv, NEW p \in Pollers, ServeInitFails(p) \/ ServeProcess(p)
  PROVE  /\ at[p] \in Handlers /\ pc[p] # "next"
         /\ pc[p] # "dispatch" \/ status[at[p]] # "STARTUP"
         /\ pc' = [pc EXCEPT ![p] = "op"]
         /\ \/ /\ status' = [status EXCEPT ![at[p]] = "PROCESS"]
               /\ next' = [next EXCEPT ![p] = "write"]
               /\ verdict' = verdict
            \/ /\ status' = [status EXCEPT ![at[p]] = "FINISH"]
               /\ next' = [next EXCEPT ![p] = "finish"]
               /\ \E v \in {"ok", "error"} : verdict' = [verdict EXCEPT ![at[p]] = v]
         /\ QueueOK(Ops)' /\ Outstanding' = Outstanding
         /\ UNCHANGED <<events, up, born, alive, wanted, cut, at, flag, builds>>
<1>1. UNCHANGED cqVars /\ pc[p] # "next"
  BY DEF ServeInitFails, ServeProcess
<1>2. QueueOK(Ops)' /\ Outstanding' = Outstanding
  BY <1>1, Resting DEF IInv
<1>3. at[p] \in Handlers
  BY <1>1, InHandle
<1>4. pc[p] # "dispatch" \/ status[at[p]] # "STARTUP"
  BY DEF ServeInitFails, ServeProcess
<1>5. QED
  BY <1>1, <1>2, <1>3, <1>4 DEF ServeInitFails, ServeProcess, Finish, WillStart, cqVars

\* The operation is started when nothing of the handler is outstanding.
LEMMA StartEffect ==
  ASSUME IInv, NEW p \in Pollers, Start(p)
  PROVE  /\ pc[p] = "op" /\ pc' = [pc EXCEPT ![p] = "next"]
         /\ OpOf(at[p])[2] # "request"
         /\ QueueOK(Ops)' /\ Outstanding' = Outstanding \cup {OpOf(at[p])}
         /\ UNCHANGED <<events, up, born, alive, status, wanted, it, written, verdict, cut, at,
                        flag, next, builds>>
<1>1. pc[p] = "op" /\ pc' = [pc EXCEPT ![p] = "next"] /\ StartOp(<<at[p], next[p]>>)
  BY DEF Start, AfterOp
<1>2. /\ OpOf(at[p]) = <<at[p], next[p]>> /\ OpOf(at[p]) \notin Outstanding
      /\ next[p] \in {"write", "finish"}
  BY <1>1 DEF IInv, PlacesApart, TypeOK
<1>3. OpOf(at[p]) \in Ops
  BY <1>1, InHandle, OpsDiffer DEF IInv
<1>4. StartOp(OpOf(at[p])) /\ UNCHANGED events
  BY <1>1, <1>2 DEF Start
<1>5. QueueOK(Ops)' /\ Outstanding' = Outstanding \cup {OpOf(at[p])}
  BY <1>2, <1>3, <1>4, StartingOp DEF IInv
<1>6. OpOf(at[p])[2] # "request"
  BY <1>2
<1>7. QED
  BY <1>1, <1>5, <1>6 DEF Start, handlerVars

\* A handler that is deleted while it streams leaves the tag of its last operation.
LEMMA ShutdownBodyEffect ==
  ASSUME IInv, NEW h \in Handlers, h \in alive, ShutdownBody(h), UNCHANGED events
  PROVE  /\ alive' = alive \ {h}
         /\ QueueOK(Ops)'
         /\ \/ /\ status[h] = "PROCESS"
               /\ verdict' = [verdict EXCEPT ![h] = "cancelled"]
               /\ Outstanding' = Outstanding \cup {<<h, "finish">>}
            \/ /\ status[h] # "PROCESS"
               /\ verdict' = verdict /\ Outstanding' = Outstanding
<1>1. alive' = alive \ {h}
  BY DEF ShutdownBody, Deletes
<1>2. CASE status[h] # "PROCESS"
  <2>1. UNCHANGED <<started, verdict>>
    BY <1>2 DEF ShutdownBody
  <2>2. QED
    BY <1>1, <1>2, <2>1, Resting DEF IInv, cqVars
<1>3. CASE status[h] = "PROCESS"
  <2> DEFINE op == <<h, "finish">>
  <2>1. StartOp(op) /\ verdict' = [verdict EXCEPT ![h] = "cancelled"]
    BY <1>3 DEF ShutdownBody
  <2>2. OpOf(h) = <<h, "write">>
    BY <1>3 DEF OpOf
  <2>3. op \in Ops /\ op[1] = h /\ op # OpOf(h)
    BY <2>2 DEF Ops, Kinds
  <2> HIDE DEF op
  <2>4. op \notin Outstanding
    BY <2>3 DEF IInv, PlacesApart
  <2>5. QueueOK(Ops)' /\ Outstanding' = Outstanding \cup {op}
    BY <2>1, <2>3, <2>4, StartingOp DEF IInv
  <2>6. QED
    BY <1>1, <1>3, <2>1, <2>5 DEF op
<1>4. QED
  BY <1>2, <1>3

\* A thread deletes a handler that has finished, or that no request will reach, or whose
\* stream was cut short.
LEMMA ShutdownEffect ==
  ASSUME IInv, NEW p \in Pollers, Shutdown(p)
  PROVE  \E h \in Handlers :
           /\ at[p] = h /\ h \in alive /\ pc[p] = "dispatch"
           /\ alive' = alive \ {h}
           /\ pc' = [pc EXCEPT ![p] = "next"]
           /\ QueueOK(Ops)'
           /\ \/ /\ status[h] = "PROCESS" /\ h \in cut
                 /\ verdict' = [verdict EXCEPT ![h] = "cancelled"]
                 /\ Outstanding' = Outstanding \cup {<<h, "finish">>}
              \/ /\ status[h] = "FINISH" \/ (status[h] = "STARTUP" /\ ~up)
                 /\ verdict' = verdict /\ Outstanding' = Outstanding
           /\ UNCHANGED <<events, up, born, status, wanted, it, written, cut, at, flag, next, builds>>
<1>1. /\ pc[p] = "dispatch" /\ (flag[p] => status[at[p]] = "FINISH")
      /\ ShutdownBody(at[p]) /\ pc' = [pc EXCEPT ![p] = "next"]
      /\ UNCHANGED <<events, up, born, status, wanted, it, written, cut, at, flag, next, builds>>
  BY DEF Shutdown
<1>2. at[p] \in Handlers /\ at[p] \in alive
  BY <1>1, InHandle
<1>3. status[at[p]] # "FINISH" => IF status[at[p]] = "STARTUP" THEN ~up ELSE at[p] \in cut
  BY <1>1 DEF IInv, FailuresAreCuts
<1>4. status[at[p]] \in {"STARTUP", "PROCESS", "FINISH"}
  BY <1>2 DEF IInv, TypeOK
<1>5. QED
  BY <1>1, <1>2, <1>3, <1>4, ShutdownBodyEffect

\* The program cuts a stream short between two writes.
LEMMA EarlyShutdownEffect ==
  ASSUME IInv, NEW h \in Handlers, EarlyShutdown(h)
  PROVE  /\ h \in alive /\ status[h] = "PROCESS"
         /\ \A p \in Pollers : pc[p] # "next" => at[p] # h
         /\ alive' = alive \ {h} /\ cut' = cut \cup {h}
         /\ verdict' = [verdict EXCEPT ![h] = "cancelled"]
         /\ QueueOK(Ops)' /\ Outstanding' = Outstanding \cup {<<h, "finish">>}
         /\ UNCHANGED <<events, up, born, status, wanted, it, written, pc, at, flag, next, builds>>
<1>1. /\ h \in alive /\ status[h] = "PROCESS" /\ ShutdownBody(h) /\ cut' = cut \cup {h}
      /\ \A p \in Pollers : pc[p] # "next" => at[p] # h
      /\ UNCHANGED <<events, up, born, status, wanted, it, written, pc, at, flag, next, builds>>
  BY DEF EarlyShutdown, pollerVars
<1>2. QED
  BY <1>1, ShutdownBodyEffect
-------------------------------------------------------------------------------

\* The queue holds each operation at most once.
LEMMA QueueStep ==
  ASSUME IInv, [Next]_vars
  PROVE  QueueOK(Ops)'
<1>1. CASE ServerShutdown \/ \E h \in Handlers : ClientCalls(h) \/ \E ok \in BOOLEAN : Sent(h, ok)
  BY <1>1, GrpcEffect
<1>2. ASSUME NEW p \in Pollers, NEW e \in events, Poll(p, e)
      PROVE  QueueOK(Ops)'
  BY <1>2, PollEffect
<1>3. ASSUME NEW p \in Pollers, ServeReplace(p)
      PROVE  QueueOK(Ops)'
  BY <1>3, ReplaceEffect
<1>4. ASSUME NEW p \in Pollers,
             Created(p) \/ \E items \in SUBSET (1 .. Items) : ServeInit(p, items)
      PROVE  QueueOK(Ops)'
  BY <1>4, PrepareEffect
<1>5. ASSUME NEW p \in Pollers, ServeInitFails(p) \/ ServeProcess(p)
      PROVE  QueueOK(Ops)'
  BY <1>5, ServeEffect
<1>6. ASSUME NEW p \in Pollers, Start(p)
      PROVE  QueueOK(Ops)'
  BY <1>6, StartEffect
<1>7. ASSUME NEW p \in Pollers, Shutdown(p)
      PROVE  QueueOK(Ops)'
  BY <1>7, ShutdownEffect
<1>8. ASSUME NEW h \in Handlers, EarlyShutdown(h)
      PROVE  QueueOK(Ops)'
  BY <1>8, EarlyShutdownEffect
<1>9. CASE UNCHANGED vars
  BY <1>9, Resting DEF IInv, vars, cqVars
<1>10. QED
  BY <1>1, <1>2, <1>3, <1>4, <1>5, <1>6, <1>7, <1>8, <1>9 DEF Next, Serve

\* The types. The number of a replacement is one of Handlers, and write_call_ is given
\* items of the range.
LEMMA TypeStep ==
  ASSUME IInv, [Next]_vars
  PROVE  TypeOK'
<1> USE DEF TypeOK
<1>0. TypeOK
  BY DEF IInv
<1>b. born \in Nat /\ 1 .. born \subseteq 1 .. (born + 1)
  BY Numbers
<1>1. CASE ServerShutdown \/ \E h \in Handlers : ClientCalls(h) \/ \E ok \in BOOLEAN : Sent(h, ok)
  BY <1>0, <1>1, GrpcEffect
<1>2. ASSUME NEW p \in Pollers, NEW e \in events, Poll(p, e)
      PROVE  TypeOK'
  <2>1. PICK h \in Handlers :
          /\ pc' = [pc EXCEPT ![p] = "dispatch"] /\ at' = [at EXCEPT ![p] = h]
          /\ e.ok \in BOOLEAN /\ flag' = [flag EXCEPT ![p] = e.ok]
          /\ UNCHANGED <<up, born, alive, status, wanted, it, written, verdict, cut, next, builds>>
    BY <1>2, PollEffect
  <2>2. QED
    BY <1>0, <2>1
<1>3. ASSUME NEW p \in Pollers, ServeReplace(p)
      PROVE  TypeOK'
  <2>1. /\ born + 1 \in Handlers /\ born' = born + 1 /\ alive' = alive \cup {born + 1}
        /\ pc' = [pc EXCEPT ![p] = "created"]
        /\ builds' = [builds EXCEPT ![p] = born + 1]
        /\ UNCHANGED <<up, status, wanted, it, written, verdict, cut, at, flag, next>>
    BY <1>3, ReplaceEffect
  <2>2. born + 1 \in 1 .. (born + 1)
    BY <1>b
  <2>3. alive' \subseteq 1 .. born' /\ builds' \in [Pollers -> (1 .. born') \cup {None}]
    BY <1>0, <1>b, <2>1, <2>2
  <2>4. pc' \in [Pollers -> {"next", "dispatch", "created", "init", "process", "op"}]
    BY <1>0, <2>1
  <2>5. QED
    BY <1>0, <2>1, <2>3, <2>4
<1>4. ASSUME NEW p \in Pollers,
             Created(p) \/ \E items \in SUBSET (1 .. Items) : ServeInit(p, items)
      PROVE  TypeOK'
  <2>1. /\ \E to \in {"init", "process"} : pc' = [pc EXCEPT ![p] = to]
        /\ builds' = builds \/ builds' = [builds EXCEPT ![p] = None]
        /\ \/ wanted' = wanted
           \/ \E items \in SUBSET (1 .. Items) : wanted' = [wanted EXCEPT ![at[p]] = items]
        /\ UNCHANGED <<up, born, alive, status, it, written, verdict, cut, at, flag, next>>
    BY <1>4, PrepareEffect
  <2>2. wanted' \in [Handlers -> SUBSET (1 .. Items)]
    BY <1>0, <2>1
  <2>3. builds' \in [Pollers -> (1 .. born) \cup {None}]
    BY <1>0, <2>1
  <2>4. pc' \in [Pollers -> {"next", "dispatch", "created", "init", "process", "op"}]
    BY <1>0, <2>1
  <2>5. QED
    BY <1>0, <2>1, <2>2, <2>3, <2>4
<1>5. ASSUME NEW p \in Pollers, ServeInitFails(p) \/ ServeProcess(p)
      PROVE  TypeOK'
  <2>1. /\ pc' = [pc EXCEPT ![p] = "op"]
        /\ UNCHANGED <<up, born, alive, wanted, cut, at, flag, builds>>
    BY <1>5, ServeEffect
  <2>2. status' \in [Handlers -> {"STARTUP", "PROCESS", "FINISH"}]
    BY <1>0, <1>5, ServeEffect
  <2>3. verdict' \in [Handlers -> {"none", "ok", "error", "cancelled"}]
    BY <1>0, <1>5, ServeEffect
  <2>4. next' \in [Pollers -> {"write", "finish"}]
    BY <1>0, <1>5, ServeEffect
  <2>5. it' \in [Handlers -> 0 .. Items] /\ written' \in [Handlers -> Seq(1 .. Items)]
    <3>1. CASE ServeInitFails(p)
      BY <1>0, <3>1 DEF ServeInitFails
    <3>2. CASE ServeProcess(p) /\ Rest(at[p]) = {}
      BY <1>0, <3>2, BoundsAreNatural DEF ServeProcess
    <3>3. CASE ServeProcess(p) /\ Rest(at[p]) # {}
      <4>1. at[p] \in Handlers
        BY <1>5, ServeEffect
      <4>2. Rest(at[p]) \in SUBSET Nat /\ Rest(at[p]) \subseteq 1 .. Items
        BY <1>0, <4>1 DEF Rest
      <4>3. Min(Rest(at[p])) \in 1 .. Items
        BY <3>3, <4>2, NaturalMin
      <4>4. /\ it' = [it EXCEPT ![at[p]] = Min(Rest(at[p]))]
            /\ written' = [written EXCEPT ![at[p]] = Append(@, Min(Rest(at[p])))]
        BY <3>3 DEF ServeProcess
      <4>5. Append(written[at[p]], Min(Rest(at[p]))) \in Seq(1 .. Items)
        BY <1>0, <4>1, <4>3
      <4>6. QED
        <5> DEFINE m == Min(Rest(at[p]))
                   w == Append(written[at[p]], m)
        <5>1. it' = [it EXCEPT ![at[p]] = m] /\ written' = [written EXCEPT ![at[p]] = w]
          BY <4>4
        <5>2. m \in 1 .. Items /\ w \in Seq(1 .. Items)
          BY <4>3, <4>5
        <5> HIDE DEF m, w
        <5>3. m \in 0 .. Items
          BY <5>2, BoundsAreNatural
        <5>4. QED
          BY <1>0, <5>1, <5>2, <5>3
    <3>4. QED
      BY <1>5, <3>1, <3>2, <3>3
  <2>6. QED
    BY <1>0, <2>1, <2>2, <2>3, <2>4, <2>5
<1>6. ASSUME NEW p \in Pollers, Start(p)
      PROVE  TypeOK'
  BY <1>0, <1>6, StartEffect
<1>7. ASSUME NEW p \in Pollers, Shutdown(p)
      PROVE  TypeOK'
  <2>1. PICK h \in Handlers :
          /\ alive' = alive \ {h}
          /\ pc' = [pc EXCEPT ![p] = "next"]
          /\ verdict' = verdict \/ verdict' = [verdict EXCEPT ![h] = "cancelled"]
          /\ UNCHANGED <<up, born, status, wanted, it, written, cut, at, flag, next, builds>>
    BY <1>7, ShutdownEffect
  <2>2. QED
    BY <1>0, <2>1
<1>8. ASSUME NEW h \in Handlers, EarlyShutdown(h)
      PROVE  TypeOK'
  <2>1. /\ alive' = alive \ {h} /\ cut' = cut \cup {h}
        /\ verdict' = [verdict EXCEPT ![h] = "cancelled"]
        /\ UNCHANGED <<up, born, status, wanted, it, written, pc, at, flag, next, builds>>
    BY <1>8, EarlyShutdownEffect
  <2>2. QED
    BY <1>0, <2>1
<1>9. CASE UNCHANGED vars
  BY <1>0, <1>9 DEF vars, handlerVars, pollerVars
<1>10. QED
  BY <1>1, <1>2, <1>3, <1>4, <1>5, <1>6, <1>7, <1>8, <1>9 DEF Next, Serve

\* What is outstanding and where the threads are stay apart.
LEMMA PlacesStep ==
  ASSUME IInv, [Next]_vars
  PROVE  PlacesApart'
<1> USE DEF PlacesApart
<1>0. PlacesApart /\ TypeOK
  BY DEF IInv
<1>t. /\ pc \in [Pollers -> {"next", "dispatch", "created", "init", "process", "op"}]
      /\ at \in [Pollers -> Handlers \cup {None}]
      /\ born \in Nat /\ alive \subseteq 1 .. born /\ 1 .. born \subseteq Handlers
  BY Numbers DEF IInv, TypeOK
<1>in. \A q \in Pollers : pc[q] # "next" => at[q] \in alive /\ at[q] \in Handlers
  BY InHandle
<1>op. \A h \in Handlers : OpOf(h)[1] = h
  BY <1>0, OpsDiffer
<1>same. status' = status => \A h : OpOf(h)' = OpOf(h)
  BY DEF OpOf
<1> HIDE DEF OpOf
<1>1. CASE ServerShutdown \/ \E h \in Handlers : ClientCalls(h) \/ \E ok \in BOOLEAN : Sent(h, ok)
  <2>1. /\ Outstanding' = Outstanding /\ cut \subseteq cut'
        /\ UNCHANGED <<born, alive, status, pc, at, next>>
    BY <1>1, GrpcEffect
  <2>2. QED
    BY <1>0, <1>same, <2>1
<1>2. ASSUME NEW p \in Pollers, NEW e \in events, Poll(p, e)
      PROVE  PlacesApart'
  <2>1. PICK h \in Handlers :
          /\ h \in alive /\ \A q \in Pollers : pc[q] # "next" => at[q] # h
          /\ pc' = [pc EXCEPT ![p] = "dispatch"] /\ at' = [at EXCEPT ![p] = h]
          /\ Outstanding' = Outstanding \ {OpOf(h)}
          /\ UNCHANGED <<born, alive, status, cut, next>>
    BY <1>2, PollEffect
  <2>2. /\ at'[p] = h /\ pc'[p] = "dispatch"
        /\ \A q \in Pollers : q # p => pc'[q] = pc[q] /\ at'[q] = at[q]
    BY <1>t, <2>1
  <2>3. QED
    BY <1>0, <1>same, <2>1, <2>2
<1>3. ASSUME NEW p \in Pollers, ServeReplace(p)
      PROVE  PlacesApart'
  <2>1. /\ at[p] = born /\ pc[p] = "dispatch" /\ status[born] = "STARTUP"
        /\ born + 1 \in Handlers
        /\ pc' = [pc EXCEPT ![p] = "created"]
        /\ born' = born + 1 /\ alive' = alive \cup {born + 1}
        /\ Outstanding' = Outstanding \cup {<<born + 1, "request">>}
        /\ UNCHANGED <<status, cut, at, next>>
    BY <1>3, ReplaceEffect
  <2> DEFINE new == <<born + 1, "request">>
  <2>2. OpOf(born + 1) = new /\ new[1] = born + 1 /\ new[2] = "request"
    BY <2>1, <1>t DEF IInv, ItemsProgress, OpOf
  <2>3. born + 1 \notin 1 .. born /\ 1 .. born \subseteq 1 .. born' /\ born + 1 \in 1 .. born'
    BY <1>t, <2>1
  <2>4. Outstanding' = Outstanding \cup {new}
    BY <2>1
  <2> HIDE DEF new
  <2>5. \A op \in Outstanding' : op \in Outstanding \/ op = OpOf(born + 1)
    BY <2>2, <2>4
  <2>6. \A q \in Pollers : pc'[q] # "next" =>
          pc[q] # "next" /\ at[q] # born + 1 /\ OpOf(at[q]) # OpOf(born + 1)
    BY <1>t, <1>in, <1>op, <2>1, <2>3
  <2>7. \A op \in Outstanding' :
          /\ op[1] \in 1 .. born'
          /\ op[1] \in alive' => op = OpOf(op[1])
          /\ op[1] \notin alive' => op[1] \in cut /\ op[2] # "request"
    BY <1>0, <2>1, <2>2, <2>3, <2>5
  <2>8. \A q \in Pollers : pc'[q] # "next" => at[q] \in alive' /\ OpOf(at[q]) \notin Outstanding'
    BY <1>0, <2>1, <2>5, <2>6
  <2>9. \A q \in Pollers :
          /\ pc'[q] = "op" => OpOf(at[q]) = <<at[q], next[q]>>
          /\ pc'[q] \in {"created", "init", "process"} => status[at[q]] = "STARTUP"
    BY <1>0, <1>t, <2>1
  <2>10. QED
    BY <1>0, <1>same, <2>1, <2>6, <2>7, <2>8, <2>9
<1>4. ASSUME NEW p \in Pollers,
             Created(p) \/ \E items \in SUBSET (1 .. Items) : ServeInit(p, items)
      PROVE  PlacesApart'
  <2>1. /\ pc[p] \in {"created", "init"} /\ status[at[p]] = "STARTUP"
        /\ \E to \in {"init", "process"} : pc' = [pc EXCEPT ![p] = to]
        /\ Outstanding' = Outstanding
        /\ UNCHANGED <<born, alive, status, cut, at, next>>
    BY <1>4, PrepareEffect
  <2>2. /\ pc'[p] \in {"init", "process"}
        /\ \A q \in Pollers : q # p => pc'[q] = pc[q]
    BY <1>t, <2>1
  <2>3. \A q \in Pollers : pc'[q] # "next" => pc[q] # "next"
    BY <2>1, <2>2
  <2>4. QED
    BY <1>0, <1>same, <2>1, <2>2, <2>3
<1>5. ASSUME NEW p \in Pollers, ServeInitFails(p) \/ ServeProcess(p)
      PROVE  PlacesApart'
  <2>1. /\ at[p] \in Handlers /\ pc[p] # "next"
        /\ pc' = [pc EXCEPT ![p] = "op"]
        /\ Outstanding' = Outstanding
        /\ UNCHANGED <<born, alive, cut, at>>
    BY <1>5, ServeEffect
  <2>2. /\ \A op \in Outstanding : op[1] # at[p]
        /\ \A q \in Pollers : pc[q] # "next" /\ at[q] = at[p] => q = p
    BY <2>1, InHandle
  <2>3. /\ \A h \in Handlers : h # at[p] => status'[h] = status[h]
        /\ \A q \in Pollers : q # p => next'[q] = next[q]
        /\ \/ status'[at[p]] = "PROCESS" /\ next'[p] = "write"
           \/ status'[at[p]] = "FINISH" /\ next'[p] = "finish"
    BY <1>0, <1>5, ServeEffect DEF TypeOK
  <2>4. \A h \in Handlers : h # at[p] => OpOf(h)' = OpOf(h)
    BY <2>3 DEF OpOf
  <2>5. OpOf(at[p])' = <<at[p], next'[p]>> /\ OpOf(at[p])'[1] = at[p]
    BY <2>1, <2>3 DEF OpOf
  <2>6. pc'[p] = "op" /\ \A q \in Pollers : q # p => pc'[q] = pc[q]
    BY <1>t, <2>1
  <2>7. \A op \in Outstanding' : op[1] \in alive' => op = OpOf(op[1])'
    BY <1>0, <1>t, <2>1, <2>2, <2>4
  <2>8. \A q \in Pollers : pc'[q] # "next" => at'[q] \in alive' /\ OpOf(at[q])' \notin Outstanding'
    BY <1>0, <1>in, <2>1, <2>2, <2>4, <2>5, <2>6
  <2>9. \A q \in Pollers :
          /\ pc'[q] = "op" => OpOf(at[q])' = <<at[q], next'[q]>>
          /\ pc'[q] \in {"created", "init", "process"} => status'[at[q]] = "STARTUP"
    <3> SUFFICES ASSUME NEW q \in Pollers, pc'[q] # "next"
                 PROVE  /\ pc'[q] = "op" => OpOf(at[q])' = <<at[q], next'[q]>>
                        /\ pc'[q] \in {"created", "init", "process"} => status'[at[q]] = "STARTUP"
      OBVIOUS
    <3>1. CASE q = p
      BY <2>5, <2>6, <3>1
    <3>2. CASE q # p
      <4>1. pc'[q] = pc[q] /\ at[q] \in Handlers /\ at[q] # at[p] /\ next'[q] = next[q]
        BY <1>in, <2>2, <2>3, <2>6, <3>2
      <4>2. OpOf(at[q])' = OpOf(at[q])
        <5>1. PICK h \in Handlers : h = at[q] /\ h # at[p]
          BY <4>1
        <5>2. OpOf(h)' = OpOf(h)
          BY <2>4, <5>1
        <5>3. at'[q] = at[q]
          BY <2>1
        <5>4. QED
          BY <5>1, <5>2, <5>3
      <4>3. status'[at[q]] = status[at[q]]
        BY <2>3, <4>1
      <4>4. QED
        BY <1>0, <4>1, <4>2, <4>3
    <3>3. QED
      BY <3>1, <3>2
  <2>10. \A q, r \in Pollers : pc'[q] # "next" /\ pc'[r] # "next" /\ at[q] = at[r] => q = r
    BY <1>0, <2>1, <2>6
  <2>11. QED
    BY <1>0, <2>1, <2>7, <2>8, <2>9, <2>10
<1>6. ASSUME NEW p \in Pollers, Start(p)
      PROVE  PlacesApart'
  <2>1. /\ pc[p] = "op" /\ pc' = [pc EXCEPT ![p] = "next"]
        /\ OpOf(at[p])[2] # "request"
        /\ Outstanding' = Outstanding \cup {OpOf(at[p])}
        /\ UNCHANGED <<born, alive, status, cut, at, next>>
    BY <1>6, StartEffect
  <2>2. /\ at[p] \in alive /\ at[p] \in Handlers /\ at[p] \in 1 .. born
        /\ \A q \in Pollers : pc[q] # "next" /\ at[q] = at[p] => q = p
    BY <2>1, InHandle
  <2>3. pc'[p] = "next" /\ \A q \in Pollers : q # p => pc'[q] = pc[q]
    BY <1>t, <2>1
  <2>4. QED
    BY <1>0, <1>in, <1>op, <1>same, <2>1, <2>2, <2>3
<1>7. ASSUME NEW p \in Pollers, Shutdown(p)
      PROVE  PlacesApart'
  <2>1. PICK h \in Handlers :
          /\ at[p] = h /\ h \in alive /\ pc[p] = "dispatch"
          /\ alive' = alive \ {h}
          /\ pc' = [pc EXCEPT ![p] = "next"]
          /\ \/ h \in cut /\ Outstanding' = Outstanding \cup {<<h, "finish">>}
             \/ Outstanding' = Outstanding
          /\ UNCHANGED <<born, status, cut, at, next>>
    BY <1>7, ShutdownEffect
  <2> DEFINE new == <<h, "finish">>
  <2>2. new[1] = h /\ new[2] = "finish"
    OBVIOUS
  <2>3. \A op \in Outstanding' : op \in Outstanding \/ (op = new /\ h \in cut)
    BY <2>1
  <2> HIDE DEF new
  <2>4. /\ \A op \in Outstanding : op[1] # h
        /\ \A q \in Pollers : pc[q] # "next" /\ at[q] = h => q = p
    BY <2>1, InHandle
  <2>5. pc'[p] = "next" /\ \A q \in Pollers : q # p => pc'[q] = pc[q]
    BY <1>t, <2>1
  <2>6. \A op \in Outstanding' :
          /\ op[1] \in 1 .. born
          /\ op[1] \in alive' => op = OpOf(op[1])
          /\ op[1] \notin alive' => op[1] \in cut /\ op[2] # "request"
    BY <1>0, <1>t, <2>1, <2>2, <2>3, <2>4
  <2>7. \A q \in Pollers : pc'[q] # "next" => at[q] \in alive' /\ OpOf(at[q]) \notin Outstanding'
    BY <1>0, <1>in, <1>op, <2>1, <2>2, <2>3, <2>4, <2>5
  <2>8. QED
    BY <1>0, <1>same, <2>1, <2>5, <2>6, <2>7
<1>8. ASSUME NEW h \in Handlers, EarlyShutdown(h)
      PROVE  PlacesApart'
  <2>1. /\ h \in alive /\ status[h] = "PROCESS"
        /\ \A p \in Pollers : pc[p] # "next" => at[p] # h
        /\ alive' = alive \ {h} /\ cut' = cut \cup {h}
        /\ Outstanding' = Outstanding \cup {<<h, "finish">>}
        /\ UNCHANGED <<born, status, pc, at, next>>
    BY <1>8, EarlyShutdownEffect
  <2> DEFINE new == <<h, "finish">>
  <2>2. new[1] = h /\ new[2] = "finish"
    OBVIOUS
  <2>3. \A op \in Outstanding' : op \in Outstanding \/ op = new
    BY <2>1
  <2> HIDE DEF new
  <2>4. OpOf(h)[2] = "write"
    BY <2>1 DEF OpOf
  <2>5. \A op \in Outstanding' :
          /\ op[1] \in 1 .. born
          /\ op[1] \in alive' => op = OpOf(op[1])
          /\ op[1] \notin alive' => op[1] \in cut' /\ op[2] # "request"
    BY <1>0, <1>t, <2>1, <2>2, <2>3, <2>4
  <2>6. \A q \in Pollers : pc[q] # "next" => at[q] \in alive' /\ OpOf(at[q]) \notin Outstanding'
    BY <1>0, <1>in, <1>op, <2>1, <2>2, <2>3
  <2>7. QED
    BY <1>0, <1>same, <2>1, <2>5, <2>6
<1>9. CASE UNCHANGED vars
  BY <1>0, <1>same, <1>9 DEF vars, handlerVars, pollerVars, Outstanding
<1>10. QED
  BY <1>1, <1>2, <1>3, <1>4, <1>5, <1>6, <1>7, <1>8, <1>9 DEF Next, Serve
\* No handler is left without an operation and without a thread.
LEMMA NoneIsForgottenStep ==
  ASSUME IInv, [Next]_vars
  PROVE  NoneIsForgotten'
<1> USE DEF NoneIsForgotten, InHandler
<1>0. NoneIsForgotten /\ TypeOK
  BY DEF IInv
<1>t. /\ pc \in [Pollers -> {"next", "dispatch", "created", "init", "process", "op"}]
      /\ at \in [Pollers -> Handlers \cup {None}]
      /\ flag \in [Pollers -> BOOLEAN]
      /\ status \in [Handlers -> {"STARTUP", "PROCESS", "FINISH"}]
      /\ born \in Nat /\ alive \subseteq 1 .. born /\ 1 .. born \subseteq Handlers
  BY Numbers DEF IInv, TypeOK
<1>op. \A h \in Handlers : OpOf(h)[1] = h
  BY <1>0, OpsDiffer
<1>same. status' = status => \A h : OpOf(h)' = OpOf(h)
  BY DEF OpOf
<1> HIDE DEF OpOf
<1>1. CASE ServerShutdown \/ \E h \in Handlers : ClientCalls(h) \/ \E ok \in BOOLEAN : Sent(h, ok)
  <2>1. Outstanding' = Outstanding /\ UNCHANGED <<alive, status, pc, at>>
    BY <1>1, GrpcEffect
  <2>2. QED
    BY <1>0, <1>same, <2>1
<1>2. ASSUME NEW p \in Pollers, NEW e \in events, Poll(p, e)
      PROVE  NoneIsForgotten'
  <2>1. PICK h \in Handlers :
          /\ pc[p] = "next" /\ pc' = [pc EXCEPT ![p] = "dispatch"] /\ at' = [at EXCEPT ![p] = h]
          /\ Outstanding' = Outstanding \ {OpOf(h)}
          /\ UNCHANGED <<alive, status>>
    BY <1>2, PollEffect
  <2>2. /\ at'[p] = h /\ pc'[p] = "dispatch"
        /\ \A q \in Pollers : pc[q] # "next" => pc'[q] = pc[q] /\ at'[q] = at[q]
    BY <1>t, <2>1
  <2>3. \A g \in alive : OpOf(g) = OpOf(h) => g = h
    BY <1>t, <1>op
  <2>4. QED
    BY <1>0, <1>same, <2>1, <2>2, <2>3
<1>3. ASSUME NEW p \in Pollers, ServeReplace(p)
      PROVE  NoneIsForgotten'
  <2>1. /\ pc[p] = "dispatch" /\ pc' = [pc EXCEPT ![p] = "created"]
        /\ born + 1 \in Handlers /\ alive' = alive \cup {born + 1}
        /\ Outstanding' = Outstanding \cup {<<born + 1, "request">>}
        /\ UNCHANGED <<status, at>>
    BY <1>3, ReplaceEffect
  <2>2. OpOf(born + 1) = <<born + 1, "request">>
    BY <2>1, <1>t DEF IInv, ItemsProgress, OpOf
  <2>3. \A q \in Pollers : pc[q] # "next" => pc'[q] # "next"
    BY <1>t, <2>1
  <2>4. QED
    BY <1>0, <1>same, <2>1, <2>2, <2>3
<1>4. ASSUME NEW p \in Pollers,
             Created(p) \/ \E items \in SUBSET (1 .. Items) : ServeInit(p, items)
      PROVE  NoneIsForgotten'
  <2>1. /\ pc[p] # "next" /\ \E to \in {"init", "process"} : pc' = [pc EXCEPT ![p] = to]
        /\ Outstanding' = Outstanding /\ UNCHANGED <<alive, status, at>>
    BY <1>4, PrepareEffect
  <2>2. \A q \in Pollers : pc[q] # "next" => pc'[q] # "next"
    BY <1>t, <2>1
  <2>3. QED
    BY <1>0, <1>same, <2>1, <2>2
<1>5. ASSUME NEW p \in Pollers, ServeInitFails(p) \/ ServeProcess(p)
      PROVE  NoneIsForgotten'
  <2>1. /\ pc[p] # "next" /\ pc' = [pc EXCEPT ![p] = "op"]
        /\ Outstanding' = Outstanding /\ UNCHANGED <<alive, at>>
    BY <1>5, ServeEffect
  <2>2. \A q \in Pollers : pc[q] # "next" => pc'[q] # "next"
    BY <1>t, <2>1
  <2>3. \A h \in Handlers : h # at[p] => status'[h] = status[h]
    BY <1>t, <1>5, ServeEffect
  <2>4. \A h \in Handlers : h # at[p] => OpOf(h)' = OpOf(h)
    BY <2>3 DEF OpOf
  <2>5. QED
    BY <1>0, <1>t, <2>1, <2>2, <2>4
<1>6. ASSUME NEW p \in Pollers, Start(p)
      PROVE  NoneIsForgotten'
  <2>1. /\ pc' = [pc EXCEPT ![p] = "next"]
        /\ Outstanding' = Outstanding \cup {OpOf(at[p])}
        /\ UNCHANGED <<alive, status, at>>
    BY <1>6, StartEffect
  <2>2. \A q \in Pollers : q # p => pc'[q] = pc[q]
    BY <1>t, <2>1
  <2>3. QED
    BY <1>0, <1>same, <2>1, <2>2
<1>7. ASSUME NEW p \in Pollers, Shutdown(p)
      PROVE  NoneIsForgotten'
  <2>1. PICK h \in Handlers :
          /\ at[p] = h /\ alive' = alive \ {h}
          /\ pc' = [pc EXCEPT ![p] = "next"]
          /\ Outstanding \subseteq Outstanding'
          /\ UNCHANGED <<status, at>>
    BY <1>7, ShutdownEffect
  <2>2. \A q \in Pollers : q # p => pc'[q] = pc[q]
    BY <1>t, <2>1
  <2>3. QED
    BY <1>0, <1>same, <2>1, <2>2
<1>8. ASSUME NEW h \in Handlers, EarlyShutdown(h)
      PROVE  NoneIsForgotten'
  <2>1. /\ alive' = alive \ {h} /\ Outstanding \subseteq Outstanding'
        /\ UNCHANGED <<status, pc, at>>
    BY <1>8, EarlyShutdownEffect
  <2>2. QED
    BY <1>0, <1>same, <2>1
<1>9. CASE UNCHANGED vars
  BY <1>0, <1>same, <1>9 DEF vars, handlerVars, pollerVars, Outstanding
<1>10. QED
  BY <1>1, <1>2, <1>3, <1>4, <1>5, <1>6, <1>7, <1>8, <1>9 DEF Next, Serve

\* A completion is not ok because of the shutdown or of a cut.
LEMMA FailuresStep ==
  ASSUME IInv, [Next]_vars
  PROVE  FailuresAreCuts'
<1> USE DEF FailuresAreCuts
<1>0. FailuresAreCuts /\ PlacesApart
  BY DEF IInv
<1>t. /\ pc \in [Pollers -> {"next", "dispatch", "created", "init", "process", "op"}]
      /\ at \in [Pollers -> Handlers \cup {None}]
      /\ flag \in [Pollers -> BOOLEAN]
      /\ status \in [Handlers -> {"STARTUP", "PROCESS", "FINISH"}]
      /\ born \in Nat /\ alive \subseteq 1 .. born /\ 1 .. born \subseteq Handlers
  BY Numbers DEF IInv, TypeOK
<1>1. CASE ServerShutdown \/ \E h \in Handlers : ClientCalls(h) \/ \E ok \in BOOLEAN : Sent(h, ok)
  <2>1. /\ cut \subseteq cut' /\ (up' => up)
        /\ \A e \in events' :
             \/ e \in events
             \/ e.op[2] = "request" /\ e.ok = FALSE /\ ~up'
             \/ e.op[2] = "request" /\ e.ok = TRUE
             \/ e.op[2] # "request" /\ (e.ok = FALSE => e.op[1] \in cut')
        /\ UNCHANGED <<status, pc, at, flag>>
    BY <1>1, GrpcEffect
  <2>2. QED
    BY <1>0, <2>1
<1>2. ASSUME NEW p \in Pollers, NEW e \in events, Poll(p, e)
      PROVE  FailuresAreCuts'
  <2>1. PICK h \in Handlers :
          /\ e.op[1] = h
          /\ e.op[2] = "request" <=> status[h] = "STARTUP"
          /\ pc' = [pc EXCEPT ![p] = "dispatch"] /\ at' = [at EXCEPT ![p] = h]
          /\ e.ok \in BOOLEAN /\ flag' = [flag EXCEPT ![p] = e.ok]
          /\ events' = events \ {e}
          /\ UNCHANGED <<up, status, cut>>
    BY <1>2, PollEffect
  <2>2. /\ at'[p] = h /\ flag'[p] = e.ok
        /\ \A q \in Pollers : q # p => pc'[q] = pc[q] /\ at'[q] = at[q] /\ flag'[q] = flag[q]
    BY <1>t, <2>1
  <2>3. ~flag'[p] => IF status[h] = "STARTUP" THEN ~up ELSE h \in cut
    BY <1>0, <2>1, <2>2
  <2>4. \A d \in events' : d \in events
    BY <2>1
  <2>5. QED
    BY <1>0, <2>1, <2>2, <2>3, <2>4
<1>3. ASSUME NEW p \in Pollers, ServeReplace(p)
      PROVE  FailuresAreCuts'
  <2>1. /\ pc' = [pc EXCEPT ![p] = "created"]
        /\ \A e \in events' : e \in events \/ (e.op[2] = "request" /\ e.ok = FALSE /\ ~up)
        /\ UNCHANGED <<up, status, cut, at, flag>>
    BY <1>3, ReplaceEffect
  <2>2. \A q \in Pollers : pc'[q] = "dispatch" => pc[q] = "dispatch"
    BY <1>t, <2>1
  <2>3. QED
    BY <1>0, <2>1, <2>2
<1>4. ASSUME NEW p \in Pollers,
             Created(p) \/ \E items \in SUBSET (1 .. Items) : ServeInit(p, items)
      PROVE  FailuresAreCuts'
  <2>1. /\ \E to \in {"init", "process"} : pc' = [pc EXCEPT ![p] = to]
        /\ UNCHANGED <<events, up, status, cut, at, flag>>
    BY <1>4, PrepareEffect
  <2>2. \A q \in Pollers : pc'[q] = "dispatch" => pc[q] = "dispatch"
    BY <1>t, <2>1
  <2>3. QED
    BY <1>0, <2>1, <2>2
<1>5. ASSUME NEW p \in Pollers, ServeInitFails(p) \/ ServeProcess(p)
      PROVE  FailuresAreCuts'
  <2>1. /\ pc[p] # "next" /\ pc' = [pc EXCEPT ![p] = "op"]
        /\ UNCHANGED <<events, up, cut, at, flag>>
    BY <1>5, ServeEffect
  <2>2. \A q \in Pollers : pc'[q] = "dispatch" => pc[q] = "dispatch" /\ q # p
    BY <1>t, <2>1
  <2>3. \A q \in Pollers : pc[q] = "dispatch" /\ q # p => at[q] \in Handlers /\ at[q] # at[p]
    BY <2>1, InHandle
  <2>4. \A h \in Handlers : h # at[p] => status'[h] = status[h]
    BY <1>t, <1>5, ServeEffect
  <2>5. QED
    BY <1>0, <2>1, <2>2, <2>3, <2>4
<1>6. ASSUME NEW p \in Pollers, Start(p)
      PROVE  FailuresAreCuts'
  <2>1. /\ pc' = [pc EXCEPT ![p] = "next"]
        /\ UNCHANGED <<events, up, status, cut, at, flag>>
    BY <1>6, StartEffect
  <2>2. \A q \in Pollers : pc'[q] = "dispatch" => pc[q] = "dispatch"
    BY <1>t, <2>1
  <2>3. QED
    BY <1>0, <2>1, <2>2
<1>7. ASSUME NEW p \in Pollers, Shutdown(p)
      PROVE  FailuresAreCuts'
  <2>1. /\ pc' = [pc EXCEPT ![p] = "next"]
        /\ UNCHANGED <<events, up, status, cut, at, flag>>
    BY <1>7, ShutdownEffect
  <2>2. \A q \in Pollers : pc'[q] = "dispatch" => pc[q] = "dispatch"
    BY <1>t, <2>1
  <2>3. QED
    BY <1>0, <2>1, <2>2
<1>8. ASSUME NEW h \in Handlers, EarlyShutdown(h)
      PROVE  FailuresAreCuts'
  BY <1>0, <1>8, EarlyShutdownEffect
<1>9. CASE UNCHANGED vars
  BY <1>0, <1>9 DEF vars, handlerVars, pollerVars
<1>10. QED
  BY <1>1, <1>2, <1>3, <1>4, <1>5, <1>6, <1>7, <1>8, <1>9 DEF Next, Serve

\* No handler dies unanswered while the server is up.
LEMMA DeadStep ==
  ASSUME IInv, [Next]_vars
  PROVE  DeadAreAnswered'
<1> USE DEF DeadAreAnswered
<1>0. DeadAreAnswered /\ ItemsProgress /\ TypeOK
  BY DEF IInv
<1>t. /\ born \in Nat /\ \A h \in Handlers : h \in Nat
      /\ verdict \in [Handlers -> {"none", "ok", "error", "cancelled"}]
  BY Numbers DEF IInv, TypeOK, Handlers
<1>rest. ASSUME UNCHANGED <<born, alive>>, cut \subseteq cut', up' => up,
                \A h \in Handlers : verdict'[h] = verdict[h] \/ verdict'[h] # "none"
         PROVE  DeadAreAnswered'
  BY <1>0, <1>rest
<1>1. CASE ServerShutdown \/ \E h \in Handlers : ClientCalls(h) \/ \E ok \in BOOLEAN : Sent(h, ok)
  BY <1>rest, <1>1, GrpcEffect
<1>2. ASSUME NEW p \in Pollers, NEW e \in events, Poll(p, e)
      PROVE  DeadAreAnswered'
  BY <1>rest, <1>2 DEF Poll, handlerVars
<1>3. ASSUME NEW p \in Pollers, ServeReplace(p)
      PROVE  DeadAreAnswered'
  <2>1. /\ born' = born + 1 /\ alive' = alive \cup {born + 1}
        /\ UNCHANGED <<up, verdict, cut>>
    BY <1>3, ReplaceEffect
  <2>2. \A h \in Handlers : h <= born + 1 => h <= born \/ h = born + 1
    BY <1>t
  <2>3. QED
    BY <1>0, <2>1, <2>2
<1>4. ASSUME NEW p \in Pollers,
             Created(p) \/ \E items \in SUBSET (1 .. Items) : ServeInit(p, items)
      PROVE  DeadAreAnswered'
  BY <1>rest, <1>4, PrepareEffect
<1>5. ASSUME NEW p \in Pollers, ServeInitFails(p) \/ ServeProcess(p)
      PROVE  DeadAreAnswered'
  <2>1. \A h \in Handlers : verdict'[h] = verdict[h] \/ verdict'[h] # "none"
    BY <1>t, <1>5, ServeEffect
  <2>2. UNCHANGED <<up, born, alive, cut>>
    BY <1>5, ServeEffect
  <2>3. QED
    BY <1>rest, <2>1, <2>2
<1>6. ASSUME NEW p \in Pollers, Start(p)
      PROVE  DeadAreAnswered'
  BY <1>rest, <1>6, StartEffect
<1>7. ASSUME NEW p \in Pollers, Shutdown(p)
      PROVE  DeadAreAnswered'
  <2>1. PICK h \in Handlers :
          /\ alive' = alive \ {h}
          /\ h \in cut \/ status[h] = "FINISH" \/ ~up
          /\ verdict' = verdict \/ verdict' = [verdict EXCEPT ![h] = "cancelled"]
          /\ UNCHANGED <<up, born, cut>>
    BY <1>7, ShutdownEffect
  <2>2. h \in cut \/ verdict'[h] # "none" \/ ~up
    BY <1>0, <1>t, <2>1 DEF ItemsProgress
  <2>3. \A g \in Handlers : g # h => verdict'[g] = verdict[g]
    BY <1>t, <2>1
  <2>4. QED
    BY <1>0, <2>1, <2>2, <2>3
<1>8. ASSUME NEW h \in Handlers, EarlyShutdown(h)
      PROVE  DeadAreAnswered'
  <2>1. /\ alive' = alive \ {h} /\ cut' = cut \cup {h}
        /\ verdict' = [verdict EXCEPT ![h] = "cancelled"]
        /\ UNCHANGED <<up, born>>
    BY <1>8, EarlyShutdownEffect
  <2>2. QED
    BY <1>0, <1>t, <2>1
<1>9. CASE UNCHANGED vars
  BY <1>rest, <1>9 DEF vars, handlerVars, pollerVars
<1>10. QED
  BY <1>1, <1>2, <1>3, <1>4, <1>5, <1>6, <1>7, <1>8, <1>9 DEF Next, Serve

\* A handler begins to listen when the one before it stops, and after the last request
\* nobody is called.
LEMMA ListenerStep ==
  ASSUME IInv, [Next]_vars
  PROVE  ListenerIsNewest'
<1> USE DEF ListenerIsNewest
<1>0. ListenerIsNewest
  BY DEF IInv
<1>t. /\ pc \in [Pollers -> {"next", "dispatch", "created", "init", "process", "op"}]
      /\ at \in [Pollers -> Handlers \cup {None}]
      /\ flag \in [Pollers -> BOOLEAN]
      /\ status \in [Handlers -> {"STARTUP", "PROCESS", "FINISH"}]
      /\ born \in Nat /\ alive \subseteq 1 .. born /\ 1 .. born \subseteq Handlers
  BY Numbers DEF IInv, TypeOK
<1>rest. ASSUME UNCHANGED <<born, pc, at, flag, status>>, up' => up,
                \A h \in Handlers : <<h, "request">> \in Outstanding' <=> <<h, "request">> \in Outstanding,
                \A e \in events' : e \in events \/ ~(e.op[2] = "request" /\ e.ok) \/ born <= MaxRpcs
         PROVE  ListenerIsNewest'
  <2>1. \A h \in Handlers : Listening(h)' <=> Listening(h)
    BY <1>rest DEF Listening
  <2>2. born \in Handlers
    BY DEF IInv, TypeOK
  <2>3. QED
    BY <1>0, <1>rest, <2>1, <2>2
<1>1. CASE ServerShutdown \/ \E h \in Handlers : ClientCalls(h) \/ \E ok \in BOOLEAN : Sent(h, ok)
  <2>1. /\ Outstanding' = Outstanding /\ (up' => up)
        /\ UNCHANGED <<born, pc, at, flag, status>>
        /\ \A e \in events' : e \in events \/ ~(e.op[2] = "request" /\ e.ok) \/ born <= MaxRpcs
    BY <1>1, GrpcEffect
  <2>2. QED
    BY <1>rest, <2>1
<1>2. ASSUME NEW p \in Pollers, NEW e \in events, Poll(p, e)
      PROVE  ListenerIsNewest'
  <2>1. PICK h \in Handlers :
          /\ e.op = OpOf(h) /\ OpOf(h) \in Outstanding /\ e.op[1] = h
          /\ e.op[2] = "request" <=> status[h] = "STARTUP"
          /\ \A q \in Pollers : pc[q] # "next" => at[q] # h
          /\ pc[p] = "next" /\ pc' = [pc EXCEPT ![p] = "dispatch"]
          /\ at' = [at EXCEPT ![p] = h]
          /\ e.ok \in BOOLEAN /\ flag' = [flag EXCEPT ![p] = e.ok]
          /\ events' = events \ {e}
          /\ Outstanding' = Outstanding \ {OpOf(h)}
          /\ UNCHANGED <<up, born, status>>
    BY <1>2, PollEffect
  <2>2. /\ at'[p] = h /\ pc'[p] = "dispatch" /\ flag'[p] = e.ok
        /\ \A q \in Pollers : q # p => pc'[q] = pc[q] /\ at'[q] = at[q] /\ flag'[q] = flag[q]
    BY <1>t, <2>1
  <2>3. ASSUME NEW g \in Handlers
        PROVE  Listening(g)' <=> Listening(g)
    <3>1. CASE g = h
      <4>1. <<h, "request">> = OpOf(h) <=> status[h] = "STARTUP"
        BY <1>t DEF OpOf
      <4>2. <<h, "request">> \in Outstanding <=> status[h] = "STARTUP"
        BY <2>1, <4>1 DEF IInv, PlacesApart
      <4>3. <<h, "request">> \in Outstanding' => FALSE
        BY <2>1, <4>1, <4>2
      <4>4. \A q \in Pollers : ~(at[q] = h /\ pc[q] = "dispatch")
        BY <2>1
      <4>5. \A q \in Pollers : at'[q] = h /\ pc'[q] = "dispatch" => q = p
        BY <2>2, <4>4
      <4>6. QED
        BY <2>1, <2>2, <3>1, <4>2, <4>3, <4>4, <4>5 DEF Listening
    <3>2. CASE g # h
      <4>1. <<g, "request">> # OpOf(h)
        BY <3>2 DEF OpOf
      <4>2. \A q \in Pollers : at'[q] = g /\ pc'[q] = "dispatch" <=> at[q] = g /\ pc[q] = "dispatch"
        BY <2>1, <2>2, <3>2
      <4>3. QED
        BY <2>1, <4>1, <4>2 DEF Listening
    <3>3. QED
      BY <3>1, <3>2
  <2>4. flag'[p] /\ status[h] = "STARTUP" => born <= MaxRpcs
    BY <1>0, <2>1, <2>2
  <2>5. born \in Handlers
    BY DEF IInv, TypeOK
  <2>6. \A d \in events' : d \in events
    BY <2>1
  <2>7. QED
    BY <1>0, <2>1, <2>2, <2>3, <2>4, <2>5, <2>6
<1>3. ASSUME NEW p \in Pollers, ServeReplace(p)
      PROVE  ListenerIsNewest'
  <2>1. /\ at[p] = born /\ pc[p] = "dispatch"
        /\ born + 1 \in Handlers
        /\ \A op \in Outstanding : op[2] # "request"
        /\ pc' = [pc EXCEPT ![p] = "created"]
        /\ born' = born + 1
        /\ \A e \in events' : e \in events \/ (e.op[2] = "request" /\ e.ok = FALSE /\ ~up)
        /\ Outstanding' = Outstanding \cup {<<born + 1, "request">>}
        /\ UNCHANGED <<up, status, at, flag>>
    BY <1>3, ReplaceEffect
  <2>2. pc'[p] = "created" /\ \A q \in Pollers : q # p => pc'[q] = pc[q]
    BY <1>t, <2>1
  <2>3. \A q \in Pollers : q # p /\ pc[q] # "next" => at[q] \in Handlers /\ at[q] # born
    BY <2>1, InHandle
  <2>4. \A q \in Pollers : ~(pc'[q] = "dispatch" /\ status[at[q]] = "STARTUP")
    <3> SUFFICES ASSUME NEW q \in Pollers, pc'[q] = "dispatch", status[at[q]] = "STARTUP"
                 PROVE  FALSE
      OBVIOUS
    <3>1. q # p /\ pc[q] = "dispatch"
      BY <2>2
    <3>2. Listening(at[q]) /\ at[q] \in Handlers /\ at[q] # born
      BY <2>3, <3>1 DEF Listening
    <3>3. QED
      BY <1>0, <3>2
  <2>5. \A h \in Handlers : Listening(h)' <=> h = born + 1
    <3>1. \A h \in Handlers : <<h, "request">> \in Outstanding' <=> h = born + 1
      <4>1. \A h \in Handlers : <<h, "request">> \notin Outstanding
        BY <2>1
      <4>2. QED
        BY <2>1, <4>1
    <3>2. \A h \in Handlers, q \in Pollers : ~(at'[q] = h /\ pc'[q] = "dispatch" /\ status'[h] = "STARTUP")
      BY <2>1, <2>4
    <3>3. QED
      BY <3>1, <3>2 DEF Listening
  <2>6. \A e \in events' : ~(e.op[2] = "request" /\ e.ok)
    BY <2>1 DEF Outstanding
  <2>7. QED
    BY <2>1, <2>4, <2>5, <2>6
<1>4. ASSUME NEW p \in Pollers,
             Created(p) \/ \E items \in SUBSET (1 .. Items) : ServeInit(p, items)
      PROVE  ListenerIsNewest'
  <2>1. /\ pc[p] \in {"created", "init"}
        /\ \E to \in {"init", "process"} : pc' = [pc EXCEPT ![p] = to]
        /\ Outstanding' = Outstanding
        /\ UNCHANGED <<events, up, born, status, at, flag>>
    BY <1>4, PrepareEffect
  <2>2. \A q \in Pollers : pc'[q] = "dispatch" <=> pc[q] = "dispatch"
    BY <1>t, <2>1
  <2>3. \A h : Listening(h)' <=> Listening(h)
    BY <2>1, <2>2 DEF Listening
  <2>4. QED
    BY <1>0, <2>1, <2>2, <2>3
<1>5. ASSUME NEW p \in Pollers, ServeInitFails(p) \/ ServeProcess(p)
      PROVE  ListenerIsNewest'
  <2>1. /\ at[p] \in Handlers /\ pc[p] # "next"
        /\ pc[p] # "dispatch" \/ status[at[p]] # "STARTUP"
        /\ pc' = [pc EXCEPT ![p] = "op"]
        /\ Outstanding' = Outstanding
        /\ UNCHANGED <<events, up, born, at, flag>>
    BY <1>5, ServeEffect
  <2>2. pc'[p] = "op" /\ \A q \in Pollers : q # p => pc'[q] = pc[q]
    BY <1>t, <2>1
  <2>3. \A q \in Pollers : q # p /\ pc[q] # "next" => at[q] \in Handlers /\ at[q] # at[p]
    BY <2>1, InHandle
  <2>4. \A h \in Handlers : h # at[p] => status'[h] = status[h]
    BY <1>t, <1>5, ServeEffect
  <2>5. \A q \in Pollers :
          (pc'[q] = "dispatch" /\ status'[at[q]] = "STARTUP") <=> (pc[q] = "dispatch" /\ status[at[q]] = "STARTUP")
    BY <2>1, <2>2, <2>3, <2>4
  <2>6. \A h : Listening(h)' <=> Listening(h)
    BY <2>1, <2>5 DEF Listening
  <2>7. QED
    BY <1>0, <2>1, <2>5, <2>6
<1>6. ASSUME NEW p \in Pollers, Start(p)
      PROVE  ListenerIsNewest'
  <2>1. /\ pc[p] = "op" /\ pc' = [pc EXCEPT ![p] = "next"]
        /\ OpOf(at[p])[2] # "request"
        /\ Outstanding' = Outstanding \cup {OpOf(at[p])}
        /\ UNCHANGED <<events, up, born, status, at, flag>>
    BY <1>6, StartEffect
  <2>2. \A q \in Pollers : pc'[q] = "dispatch" <=> pc[q] = "dispatch"
    BY <1>t, <2>1
  <2>3. \A h : <<h, "request">> # OpOf(at[p])
    BY <2>1
  <2>4. \A h : Listening(h)' <=> Listening(h)
    BY <2>1, <2>2, <2>3 DEF Listening
  <2>5. QED
    BY <1>0, <2>1, <2>2, <2>4
<1>7. ASSUME NEW p \in Pollers, Shutdown(p)
      PROVE  ListenerIsNewest'
  <2>1. PICK h \in Handlers :
          /\ at[p] = h /\ pc[p] = "dispatch"
          /\ pc' = [pc EXCEPT ![p] = "next"]
          /\ \/ status[h] # "STARTUP" /\ Outstanding' = Outstanding \cup {<<h, "finish">>}
             \/ (status[h] # "STARTUP" \/ ~up) /\ Outstanding' = Outstanding
          /\ UNCHANGED <<events, up, born, status, at, flag>>
    BY <1>7, ShutdownEffect
  <2>2. \A g : <<g, "request">> # <<h, "finish">>
    OBVIOUS
  <2>3. pc'[p] = "next" /\ \A q \in Pollers : q # p => pc'[q] = pc[q]
    BY <1>t, <2>1
  <2>4. \A g : Listening(g)' => Listening(g)
    BY <2>1, <2>2, <2>3 DEF Listening
  <2>5. up => Listening(born)'
    BY <1>0, <2>1, <2>2, <2>3 DEF Listening
  <2>6. QED
    BY <1>0, <2>1, <2>3, <2>4, <2>5
<1>8. ASSUME NEW h \in Handlers, EarlyShutdown(h)
      PROVE  ListenerIsNewest'
  <2>1. /\ Outstanding' = Outstanding \cup {<<h, "finish">>}
        /\ UNCHANGED <<events, up, born, status, pc, at, flag>>
    BY <1>8, EarlyShutdownEffect
  <2>2. \A g : <<g, "request">> # <<h, "finish">>
    OBVIOUS
  <2>3. QED
    BY <1>rest, <2>1, <2>2
<1>9. CASE UNCHANGED vars
  BY <1>rest, <1>9 DEF vars, handlerVars, pollerVars, Outstanding
<1>10. QED
  BY <1>1, <1>2, <1>3, <1>4, <1>5, <1>6, <1>7, <1>8, <1>9 DEF Next, Serve

\* What write_call_ is given next comes after what was written, and when nothing is left
\* everything was written.
LEMMA WriteEffect ==
  ASSUME IInv, NEW p \in Pollers, ServeProcess(p), NEW h, h = at[p]
  PROVE  /\ status'[h] # "STARTUP"
         /\ status'[h] = "FINISH" => verdict'[h] # "none"
         /\ \A i, k \in DOMAIN written'[h] : i < k => written'[h][i] < written'[h][k]
         /\ {written'[h][i] : i \in DOMAIN written'[h]} = {i \in wanted[h] : i <= it'[h]}
         /\ verdict'[h] = "ok" => {i \in wanted[h] : i > it'[h]} = {}
<1>0. h \in Handlers
  BY InHandle DEF ServeProcess
<1>1. /\ status \in [Handlers -> {"STARTUP", "PROCESS", "FINISH"}]
      /\ verdict \in [Handlers -> {"none", "ok", "error", "cancelled"}]
      /\ it \in [Handlers -> 0 .. Items] /\ written \in [Handlers -> Seq(1 .. Items)]
      /\ wanted[h] \in SUBSET (1 .. Items) /\ it[h] \in Nat /\ Items \in Nat
  BY <1>0, BoundsAreNatural DEF IInv, TypeOK
<1>2. /\ \A i, k \in DOMAIN written[h] : i < k => written[h][i] < written[h][k]
      /\ {written[h][i] : i \in DOMAIN written[h]} = {i \in wanted[h] : i <= it[h]}
      /\ verdict[h] = "ok" => Rest(h) = {}
  BY <1>0 DEF IInv, ItemsProgress
<1>3. CASE Rest(h) # {}
  <2> DEFINE m == Min(Rest(h))
  <2>1. /\ status' = [status EXCEPT ![h] = "PROCESS"] /\ it' = [it EXCEPT ![h] = m]
        /\ written' = [written EXCEPT ![h] = Append(@, m)] /\ verdict' = verdict
    BY <1>3 DEF ServeProcess
  <2>2. m \in Rest(h) /\ \A y \in Rest(h) : m <= y
    <3>1. Rest(h) \in SUBSET Nat
      BY <1>1 DEF Rest
    <3>2. QED
      BY <1>3, <3>1, NaturalMin
  <2> HIDE DEF m
  <2>3. /\ m \in wanted[h] /\ m \in Nat /\ m > it[h]
        /\ \A y \in wanted[h] : y > it[h] => m <= y
    BY <1>1, <2>2 DEF Rest
  <2>4. /\ status'[h] = "PROCESS" /\ it'[h] = m /\ written'[h] = Append(written[h], m)
        /\ verdict'[h] = verdict[h]
    BY <1>0, <1>1, <2>1
  <2>5. written[h] \in Seq(1 .. Items) /\ m \in 1 .. Items
    BY <1>0, <1>1, <2>3
  <2>6. \A i \in DOMAIN written[h] : written[h][i] < m
    <3>1. \A i \in DOMAIN written[h] : written[h][i] \in wanted[h] /\ written[h][i] <= it[h]
      BY <1>2
    <3>2. QED
      BY <1>1, <2>3, <3>1
  <2>7. /\ \A i, k \in DOMAIN written'[h] : i < k => written'[h][i] < written'[h][k]
        /\ {written'[h][i] : i \in DOMAIN written'[h]}
             = {written[h][i] : i \in DOMAIN written[h]} \cup {m}
    <3> DEFINE s == written[h]
    <3>1. /\ s \in Seq(1 .. Items) /\ m \in 1 .. Items /\ (1 .. Items) \in SUBSET Nat
          /\ \A i, k \in DOMAIN s : i < k => s[i] < s[k]
          /\ \A i \in DOMAIN s : s[i] < m
      BY <1>2, <2>5, <2>6
    <3> HIDE DEF s
    <3>2. /\ \A i, k \in DOMAIN Append(s, m) : i < k => Append(s, m)[i] < Append(s, m)[k]
          /\ {Append(s, m)[i] : i \in DOMAIN Append(s, m)} = {s[i] : i \in DOMAIN s} \cup {m}
      BY <3>1, AppendInOrder
    <3>3. written'[h] = Append(s, m)
      BY <2>4 DEF s
    <3>4. QED
      BY Zenon, <3>2, <3>3 DEF s
  <2>8. {i \in wanted[h] : i <= it[h]} \cup {m} = {i \in wanted[h] : i <= m}
    <3>1. ASSUME NEW i \in wanted[h]
          PROVE  (i <= it[h] \/ i = m) <=> i <= m
      <4>1. i \in Nat /\ it[h] \in Nat /\ m \in Nat /\ m > it[h]
        BY <1>1, <2>3
      <4>2. i > it[h] => m <= i
        BY <2>3
      <4>3. QED
        BY <4>1, <4>2
    <3>2. QED
      BY <2>3, <3>1
  <2>9. verdict'[h] # "ok"
    BY <1>2, <1>3, <2>4
  <2>10. QED
    BY <1>2, <2>4, <2>7, <2>8, <2>9
<1>4. CASE Rest(h) = {}
  <2>1. /\ status'[h] = "FINISH" /\ verdict'[h] = "ok" /\ it'[h] = Items
        /\ written' = written
    BY <1>0, <1>1, <1>4 DEF ServeProcess, Finish
  <2>2. {i \in wanted[h] : i <= it[h]} = {i \in wanted[h] : i <= Items}
    BY <1>1, <1>4 DEF Rest
  <2>3. {i \in wanted[h] : i > Items} = {}
    BY <1>1
  <2>4. QED
    BY <1>2, <2>1, <2>2, <2>3
<1>5. QED
  BY <1>3, <1>4

\* it_ and the written items go on together, whoever serves the handler.
LEMMA ItemsStep ==
  ASSUME IInv, [Next]_vars
  PROVE  ItemsProgress'
<1>0. ItemsProgress
  BY DEF IInv
<1>t. /\ born \in Nat /\ \A h \in Handlers : h \in Nat
      /\ status \in [Handlers -> {"STARTUP", "PROCESS", "FINISH"}]
      /\ verdict \in [Handlers -> {"none", "ok", "error", "cancelled"}]
      /\ wanted \in [Handlers -> SUBSET (1 .. Items)]
      /\ it \in [Handlers -> 0 .. Items]
  BY Numbers DEF IInv, TypeOK, Handlers
<1>frame. ASSUME NEW h \in Handlers, h > born' => h > born,
                 status'[h] = status[h], wanted'[h] = wanted[h], it'[h] = it[h],
                 written'[h] = written[h],
                 verdict'[h] = verdict[h] \/ (verdict'[h] = "cancelled" /\ status[h] # "STARTUP")
          PROVE  ItemsProgress!(h)'
  BY <1>0, <1>frame DEF ItemsProgress, Rest
<1>rest. ASSUME born' = born \/ born' = born + 1, UNCHANGED <<status, wanted, it, written>>,
                \A h \in Handlers : verdict'[h] = verdict[h]
                                    \/ (verdict'[h] = "cancelled" /\ status[h] # "STARTUP")
         PROVE  ItemsProgress'
  <2> SUFFICES ASSUME NEW h \in Handlers
               PROVE  ItemsProgress!(h)'
    BY Zenon DEF ItemsProgress
  <2>1. h > born' => h > born
    BY <1>t, <1>rest
  <2>2. QED
    BY <1>rest, <1>frame, <2>1
<1>1. CASE ServerShutdown \/ \E h \in Handlers : ClientCalls(h) \/ \E ok \in BOOLEAN : Sent(h, ok)
  BY <1>rest, <1>1, GrpcEffect
<1>2. ASSUME NEW p \in Pollers, NEW e \in events, Poll(p, e)
      PROVE  ItemsProgress'
  BY <1>rest, <1>2 DEF Poll, handlerVars
<1>3. ASSUME NEW p \in Pollers, ServeReplace(p)
      PROVE  ItemsProgress'
  BY <1>rest, <1>3, ReplaceEffect
<1>4. ASSUME NEW p \in Pollers,
             Created(p) \/ \E items \in SUBSET (1 .. Items) : ServeInit(p, items)
      PROVE  ItemsProgress'
  <2>1. /\ status[at[p]] = "STARTUP"
        /\ \/ wanted' = wanted
           \/ \E items \in SUBSET (1 .. Items) : wanted' = [wanted EXCEPT ![at[p]] = items]
        /\ UNCHANGED <<born, status, it, written, verdict>>
    BY <1>4, PrepareEffect
  <2> SUFFICES ASSUME NEW h \in Handlers
               PROVE  ItemsProgress!(h)'
    BY Zenon DEF ItemsProgress
  <2>2. CASE wanted'[h] = wanted[h]
    BY <1>frame, <2>1, <2>2
  <2>3. CASE wanted'[h] # wanted[h]
    <3>1. status[h] = "STARTUP" /\ wanted'[h] \in SUBSET (1 .. Items)
      BY <1>t, <2>1, <2>3
    <3>2. it[h] = 0 /\ written[h] = <<>> /\ verdict[h] = "none"
      BY <1>0, <3>1 DEF ItemsProgress
    <3>3. \A i \in wanted'[h] : ~(i <= 0)
      BY <3>1
    <3>4. DOMAIN written'[h] = {}
      BY <2>1, <3>2
    <3>5. {written'[h][i] : i \in DOMAIN written'[h]} = {i \in wanted'[h] : i <= it'[h]}
      BY <2>1, <3>2, <3>3, <3>4
    <3>6. QED
      BY <2>1, <3>1, <3>2, <3>4, <3>5 DEF ItemsProgress
  <2>4. QED
    BY <2>2, <2>3
<1>5. ASSUME NEW p \in Pollers, ServeInitFails(p) \/ ServeProcess(p)
      PROVE  ItemsProgress'
  <2>1. /\ pc[p] # "next" /\ UNCHANGED <<born, wanted>>
        /\ \/ status' = [status EXCEPT ![at[p]] = "PROCESS"] /\ verdict' = verdict
           \/ /\ status' = [status EXCEPT ![at[p]] = "FINISH"]
              /\ \E v \in {"ok", "error"} : verdict' = [verdict EXCEPT ![at[p]] = v]
    BY <1>5, ServeEffect
  <2>2. at[p] \in Handlers /\ ~(at[p] > born)
    BY <1>t, <2>1, InHandle
  <2> SUFFICES ASSUME NEW h \in Handlers
               PROVE  ItemsProgress!(h)'
    BY Zenon DEF ItemsProgress
  <2>3. CASE h # at[p]
    <3>1. status'[h] = status[h] /\ verdict'[h] = verdict[h]
      BY <1>t, <2>1, <2>3
    <3>2. it'[h] = it[h] /\ written'[h] = written[h]
      BY <1>t, <1>5, <2>3 DEF ServeInitFails, ServeProcess, IInv, TypeOK
    <3>3. QED
      BY <1>frame, <2>1, <3>1, <3>2
  <2>4. CASE h = at[p] /\ ServeInitFails(p)
    <3>1. /\ status'[h] = "FINISH" /\ verdict'[h] = "error" /\ it' = it /\ written' = written
      BY <1>t, <2>4 DEF ServeInitFails, Finish
    <3>2. QED
      BY <1>0, <2>1, <2>2, <2>4, <3>1 DEF ItemsProgress
  <2>5. CASE h = at[p] /\ ServeProcess(p)
    <3>1. /\ status'[h] # "STARTUP"
          /\ status'[h] = "FINISH" => verdict'[h] # "none"
          /\ \A i, k \in DOMAIN written'[h] : i < k => written'[h][i] < written'[h][k]
          /\ {written'[h][i] : i \in DOMAIN written'[h]} = {i \in wanted[h] : i <= it'[h]}
          /\ verdict'[h] = "ok" => {i \in wanted[h] : i > it'[h]} = {}
      BY <2>5, WriteEffect
    <3>2. QED
      BY <2>1, <2>2, <2>5, <3>1 DEF ItemsProgress, Rest
  <2>6. QED
    BY <1>5, <2>3, <2>4, <2>5
<1>6. ASSUME NEW p \in Pollers, Start(p)
      PROVE  ItemsProgress'
  BY <1>rest, <1>6, StartEffect
<1>7. ASSUME NEW p \in Pollers, Shutdown(p)
      PROVE  ItemsProgress'
  <2>1. PICK h \in Handlers :
          /\ \/ status[h] = "PROCESS" /\ verdict' = [verdict EXCEPT ![h] = "cancelled"]
             \/ verdict' = verdict
          /\ UNCHANGED <<born, status, wanted, it, written>>
    BY <1>7, ShutdownEffect
  <2>2. \A g \in Handlers : verdict'[g] = verdict[g]
                            \/ (verdict'[g] = "cancelled" /\ status[g] # "STARTUP")
    BY <1>t, <2>1
  <2>3. QED
    BY <1>rest, <2>1, <2>2
<1>8. ASSUME NEW h \in Handlers, EarlyShutdown(h)
      PROVE  ItemsProgress'
  <2>1. /\ status[h] = "PROCESS" /\ verdict' = [verdict EXCEPT ![h] = "cancelled"]
        /\ UNCHANGED <<born, status, wanted, it, written>>
    BY <1>8, EarlyShutdownEffect
  <2>2. \A g \in Handlers : verdict'[g] = verdict[g]
                            \/ (verdict'[g] = "cancelled" /\ status[g] # "STARTUP")
    BY <1>t, <2>1
  <2>3. QED
    BY <1>rest, <2>1, <2>2
<1>9. CASE UNCHANGED vars
  BY <1>rest, <1>9 DEF vars, handlerVars, pollerVars
<1>10. QED
  BY <1>1, <1>2, <1>3, <1>4, <1>5, <1>6, <1>7, <1>8, <1>9 DEF Next, Serve

-------------------------------------------------------------------------------

\* The program starts with one handler, which grpc has.
LEMMA InitInv == Init => IInv
<1> SUFFICES ASSUME Init
             PROVE  IInv
  OBVIOUS
<1>1. 1 \in Handlers /\ 1 .. 1 = {1} /\ 1 <= MaxRpcs + 1 /\ 0 \in 0 .. Items
  BY BoundsAreNatural DEF Handlers
<1>2. Outstanding = {<<1, "request">>}
  BY DEF Init, Outstanding
<1>3. OpOf(1) = <<1, "request">>
  BY <1>1 DEF Init, OpOf
<1>4. TypeOK /\ QueueOK(Ops)
  BY <1>1 DEF Init, TypeOK, QueueOK, Ops, Kinds
<1>5. PlacesApart /\ NoneIsForgotten
  BY <1>1, <1>2, <1>3 DEF Init, PlacesApart, NoneIsForgotten
<1>6. FailuresAreCuts /\ DeadAreAnswered
  BY <1>1 DEF Init, FailuresAreCuts, DeadAreAnswered, Handlers
<1>7. ListenerIsNewest
  BY <1>1, <1>2 DEF Init, ListenerIsNewest, Listening
<1>8. ItemsProgress
  BY <1>1 DEF Init, ItemsProgress, Rest
<1>9. QED
  BY <1>4, <1>5, <1>6, <1>7, <1>8 DEF IInv

\* IInv holds in every state: whatever the threads, the clients and both kinds of
\* shutdown do, serve() and shutdown() leave each handler in one place, and the writes
\* of its stream follow each other (server_async_stream.hpp:57-127).
THEOREM Invariance == Spec => []IInv
<1>1. IInv /\ [Next]_vars => IInv'
  BY TypeStep, QueueStep, PlacesStep, NoneIsForgottenStep, FailuresStep, DeadStep,
     ListenerStep, ItemsStep DEF IInv
<1>2. QED
  BY <1>1, InitInv, PTL DEF Spec

\* Every variable has its type; in particular only items of the range are written and no
\* more handlers are constructed than there are calls and one (server_async_stream.hpp:37-127).
THEOREM TypeCorrect == Spec => []TypeOK
<1>1. IInv => TypeOK
  BY DEF IInv
<1>2. QED
  BY <1>1, Invariance, PTL

\* The client gets the items in order, none twice, and all of them before an OK, whichever
\* threads serve the stream and wherever it is cut (server_async_stream.hpp:80-127).
THEOREM ItemsStayInOrder == Spec => []ItemsInOrder
<1>1. IInv => ItemsInOrder
  <2> SUFFICES ASSUME IInv, NEW h \in Handlers
               PROVE  ItemsInOrder!(h)
    BY Zenon DEF ItemsInOrder
  <2>1. /\ \A i, k \in DOMAIN written[h] : i < k => written[h][i] < written[h][k]
        /\ {written[h][i] : i \in DOMAIN written[h]} = {i \in wanted[h] : i <= it[h]}
        /\ verdict[h] = "ok" => Rest(h) = {}
    BY DEF IInv, ItemsProgress
  <2>2. wanted[h] \in SUBSET Nat /\ it[h] \in Nat
    BY BoundsAreNatural DEF IInv, TypeOK
  <2>3. Rest(h) = {} => wanted[h] = {i \in wanted[h] : i <= it[h]}
    BY <2>2 DEF Rest
  <2>4. QED
    BY <2>1, <2>3 DEF ItemsInOrder
<1>2. QED
  BY <1>1, Invariance, PTL

\* Places that exclude each other are one place.
LEMMA OneHolder == IInv => HandlerHasOneHolder
<1> SUFFICES ASSUME IInv, NEW h \in Handlers \ cut
             PROVE  HandlerHasOneHolder!(h)
  BY DEF HandlerHasOneHolder
<1> DEFINE ops == {op \in Outstanding : op[1] = h}
           threads == {p \in Pollers : InHandler(p, h)}
<1>0. PlacesApart /\ NoneIsForgotten
  BY DEF IInv
<1>1. CASE h \in alive
  <2>0. \A op \in Outstanding : op[1] = h => op = OpOf(h)
    BY <1>0, <1>1 DEF PlacesApart
  <2>o. OpOf(h)[1] = h
    BY OpsDiffer DEF IInv
  <2>1. CASE OpOf(h) \in Outstanding
    <3>1. ops = {OpOf(h)}
      BY <2>0, <2>o, <2>1
    <3>2. threads = {}
      BY <1>0, <2>1 DEF PlacesApart, InHandler
    <3>3. QED
      BY <1>1, <3>1, <3>2
  <2>2. CASE \E p \in Pollers : InHandler(p, h)
    <3>1. ops = {} /\ \E p \in threads : threads = {p}
      BY <1>0, <2>0, <2>2 DEF PlacesApart, InHandler
    <3>2. QED
      BY <1>1, <3>1
  <2>3. QED
    BY <1>0, <1>1, <2>1, <2>2 DEF NoneIsForgotten
<1>2. CASE h \notin alive
  <2>1. ops = {} /\ threads = {}
    BY <1>0, <1>2 DEF PlacesApart, InHandler
  <2>2. ASSUME NEW p \in Pollers, builds[p] = h
        PROVE  verdict[h] # "none" \/ ~up
    <3>1. h \in 1 .. born
      BY <2>2, NoneIsNoHandler DEF IInv, TypeOK
    <3>2. h <= born
      BY <3>1, Numbers
    <3>3. QED
      BY <1>2, <3>2 DEF IInv, DeadAreAnswered
  <2>3. QED
    BY <1>2, <2>1, <2>2
<1>3. QED
  BY <1>1, <1>2

\* While the server is up, the newest handler listens and no other does.
LEMMA OneListens == IInv => OneListener
<1> SUFFICES ASSUME IInv, up
             PROVE  \E h \in {h \in alive : Listening(h)} : {g \in alive : Listening(g)} = {h}
  BY Zenon DEF OneListener, Listening
<1>1. Listening(born) /\ \A h \in alive : Listening(h) => h = born
  BY Numbers DEF IInv, ListenerIsNewest
<1>2. born \in alive
  <2>1. CASE <<born, "request">> \in Outstanding
    BY <2>1 DEF IInv, PlacesApart
  <2>2. CASE \E p \in Pollers : at[p] = born /\ pc[p] = "dispatch"
    BY <2>2 DEF IInv, PlacesApart
  <2>3. QED
    BY <1>1, <2>1, <2>2 DEF Listening
<1>3. QED
  BY <1>1, <1>2

\* No two threads or tags meet in a handler, none is forgotten, and one handler waits for
\* the next request while the server is up, cut streams and all
\* (server_async_stream.hpp:57-127).
THEOREM HandlersStayInPlace == Spec => []HandlersAreInPlace
<1>1. IInv => HandlersAreInPlace
  BY OneHolder, OneListens DEF HandlersAreInPlace
<1>2. QED
  BY <1>1, Invariance, PTL
===============================================================================
