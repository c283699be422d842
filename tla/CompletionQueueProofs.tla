------------------------ MODULE CompletionQueueProofs -------------------------
(***************************************************************************)
(* What the operations on a completion queue do to the operations that are   *)
(* outstanding, for the proofs about the handlers that share the queue. As   *)
(* long as nobody starts an operation that is still outstanding, an          *)
(* operation is never completed twice (QueueOK), and then starting, completing *)
(* and taking it add it, keep it and remove it.                              *)
(***************************************************************************)
EXTENDS CompletionQueue, TLAPS

\* S has all the operations; one that is outstanding is either with grpc or in the
\* queue, once.
QueueOK(S) ==
  /\ started \subseteq S
  /\ events \subseteq [op : S, ok : BOOLEAN]
  /\ \A d, e \in events : d.op = e.op => d = e
  /\ \A e \in events : e.op \notin started

\* Only operations of S are outstanding.
LEMMA OutstandingOps ==
  ASSUME NEW S, QueueOK(S)
  PROVE  Outstanding \subseteq S
BY DEF QueueOK, Outstanding

\* A step that leaves the queue alone leaves what is outstanding alone.
LEMMA Resting ==
  ASSUME NEW S, QueueOK(S), UNCHANGED cqVars
  PROVE  QueueOK(S)' /\ Outstanding' = Outstanding
BY DEF QueueOK, Outstanding, cqVars

\* A handler that hands its address to grpc has the operation outstanding from then on.
LEMMA StartingOp ==
  ASSUME NEW S, QueueOK(S), NEW op \in S, op \notin Outstanding, StartOp(op), UNCHANGED events
  PROVE  QueueOK(S)' /\ Outstanding' = Outstanding \cup {op}
BY DEF QueueOK, StartOp, Outstanding

\* The thread whose cq.Next() returns has taken the one completion of an operation.
LEMMA Taking ==
  ASSUME NEW S, QueueOK(S), NEW e, TakeEvent(e), UNCHANGED started
  PROVE  /\ QueueOK(S)'
         /\ e \in [op : S, ok : BOOLEAN]
         /\ e.op \in Outstanding
         /\ Outstanding' = Outstanding \ {e.op}
BY DEF QueueOK, TakeEvent, Outstanding

\* A completion that enters the queue, whether grpc had started its operation or
\* answers at once.
LEMMA Answering ==
  ASSUME NEW S, QueueOK(S), NEW op \in S, NEW ok \in BOOLEAN,
         events' = events \cup {[op |-> op, ok |-> ok]},
         \/ op \notin Outstanding /\ started' = started
         \/ op \in started /\ started' = started \ {op}
  PROVE  /\ QueueOK(S)'
         /\ Outstanding' = Outstanding \cup {op}
         /\ \A e \in events' : e \in events \/ (e.op = op /\ e.ok = ok)
<1> DEFINE new == [op |-> op, ok |-> ok]
<1>1. new.op = op /\ new.ok = ok /\ new \in [op : S, ok : BOOLEAN] /\ events' = events \cup {new}
  OBVIOUS
<1> HIDE DEF new
<1>2. \A e \in events' : e \in events \/ (e.op = op /\ e.ok = ok)
  BY <1>1
<1>3. Outstanding' = Outstanding \cup {op}
  BY <1>1 DEF Outstanding
<1>4. \A e \in events : e.op # op
  BY DEF QueueOK, Outstanding
<1>5. \A d, e \in events' : d.op = e.op => d = e
  BY <1>1, <1>4 DEF QueueOK
<1>6. \A e \in events' : e.op \notin started'
  BY <1>1, <1>4 DEF QueueOK, Outstanding
<1>7. QED
  BY <1>1, <1>2, <1>3, <1>5, <1>6 DEF QueueOK

\* grpc puts the completion of a started operation into the queue: it stays outstanding.
LEMMA Completing ==
  ASSUME NEW S, QueueOK(S), NEW op, NEW ok \in BOOLEAN, CompleteOp(op, ok)
  PROVE  /\ QueueOK(S)'
         /\ op \in started
         /\ Outstanding' = Outstanding
         /\ \A e \in events' : e \in events \/ (e.op = op /\ e.ok = ok)
<1>1. op \in S /\ op \in Outstanding
  BY DEF QueueOK, CompleteOp, Outstanding
<1>2. QED
  BY <1>1, Answering DEF CompleteOp

\* A queue that gives up the operations in R.
LEMMA Failing ==
  ASSUME NEW S, QueueOK(S), NEW R \in SUBSET started,
         started' = started \ R,
         events' = events \cup {[op |-> op, ok |-> FALSE] : op \in R}
  PROVE  /\ QueueOK(S)'
         /\ Outstanding' = Outstanding
         /\ \A e \in events' : e \in events \/ (e.op \in R /\ e.ok = FALSE)
<1> DEFINE failed == {[op |-> op, ok |-> FALSE] : op \in R}
<1>1. ASSUME NEW e \in failed
      PROVE  /\ e.op \in R /\ e.ok = FALSE
             /\ e \in [op : S, ok : BOOLEAN]
             /\ e = [op |-> e.op, ok |-> FALSE]
  <2>1. PICK op \in R : e = [op |-> op, ok |-> FALSE]
    OBVIOUS
  <2>2. op \in S
    BY DEF QueueOK
  <2>3. QED
    BY <2>1, <2>2
<1>2. \A op \in R : \E e \in failed : e.op = op
  <2> TAKE op \in R
  <2> WITNESS [op |-> op, ok |-> FALSE] \in failed
  <2> QED
    OBVIOUS
<1>3. events' = events \cup failed
  OBVIOUS
<1> HIDE DEF failed
<1>4. Outstanding' = Outstanding
  BY <1>1, <1>2, <1>3 DEF Outstanding
<1>5. \A e \in events' : e \in events \/ (e.op \in R /\ e.ok = FALSE)
  BY <1>1, <1>3
<1>6. \A d, e \in events' : d.op = e.op => d = e
  <2> SUFFICES ASSUME NEW d \in events', NEW e \in events', d.op = e.op
               PROVE  d = e
    OBVIOUS
  <2>1. CASE d \in events /\ e \in events
    BY <2>1 DEF QueueOK
  <2>2. CASE d \in failed /\ e \in failed
    BY <1>1, <2>2
  <2>3. QED
    BY <1>1, <1>3, <2>1, <2>2 DEF QueueOK
<1>7. \A e \in events' : e.op \notin started'
  BY <1>1, <1>3 DEF QueueOK
<1>8. QED
  BY <1>1, <1>3, <1>4, <1>5, <1>6, <1>7 DEF QueueOK
===============================================================================
