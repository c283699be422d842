--------------------------- MODULE ManagedJobProofs ---------------------------
(***************************************************************************)
(* Theorems about ManagedJob, for any handles, callers and constructions.    *)
(* The argument: the members of a handle move together, so the promise, the  *)
(* future and the thread of one construction stay in one handle, and what a  *)
(* handle gives up without moving it is a thread that has ended or was asked *)
(* to stop just before.                                                      *)
(***************************************************************************)
EXTENDS ManagedJob, TLAPS

\* A call is on a handle.
CallsHaveHandles == \A c \in Callers : pc[c] # "idle" => obj[c] \in Handles

\* A handle has the thread of a construction only together with its promise, and the
\* promise only together with its future.
MembersAgree ==
  \A h \in Handles :
    /\ signal[h] # None => future[h] = signal[h]
    /\ job[h] # None => signal[h] = job[h]

\* No two handles have anything of one construction.
OwnersApart == \A g, h \in Handles : future[g] # None /\ future[g] = future[h] => g = h

\* What is not constructed has nothing.
DeadAreEmpty == \A h \in Handles : h \notin live => future[h] = None

\* A state is new until a handle has it, a thread ends only when it was asked, and
\* before that a handle has it.
StatesProgress ==
  \A s \in States :
    /\ state[s] = "unused" => thread[s] = "none" /\ \A h \in Handles : future[h] # s
    /\ thread[s] = "ended" => state[s] = "ready"
    /\ Running(s) /\ state[s] = "pending" => \E h \in Handles : job[h] = s

\* The inductive invariant.
IInv ==
  /\ TypeOK
  /\ CallsHaveHandles
  /\ MembersAgree
  /\ OwnersApart
  /\ DeadAreEmpty
  /\ StatesProgress
-------------------------------------------------------------------------------

\* A state that is used becomes ready, or none changes.
Readied ==
  \/ state' = state
  \/ \E s \in States : state[s] # "unused" /\ state' = [state EXCEPT ![s] = "ready"]

\* The promise of a handle belongs to a construction that took place.
LEMMA SignalIsUsed ==
  ASSUME IInv, NEW h \in Handles
  PROVE  /\ signal[h] # None => signal[h] \in States /\ state[signal[h]] # "unused"
         /\ job[h] # None => /\ job[h] \in States /\ state[job[h]] # "unused"
                             /\ signal[h] = job[h] /\ future[h] = job[h]
<1>1. signal[h] # None => signal[h] \in States /\ future[h] = signal[h]
  BY DEF IInv, TypeOK, MembersAgree
<1>2. \A s \in States : future[h] = s => state[s] # "unused"
  BY DEF IInv, StatesProgress
<1>3. job[h] # None => job[h] \in States /\ signal[h] = job[h]
  BY DEF IInv, TypeOK, MembersAgree
<1>4. QED
  BY <1>1, <1>2, <1>3

\* Giving up a promise touches at most a state that is used (managed_job.hpp:64-78).
LEMMA Abandoning ==
  ASSUME IInv, NEW h \in Handles, state' = Abandon(signal[h])
  PROVE  Readied
BY SignalIsUsed DEF Abandon, Readied

\* stop() only makes the handle's own state ready (managed_job.hpp:105-111).
LEMMA StopEffect ==
  ASSUME IInv, NEW c \in Callers, StopSet(c)
  PROVE  Readied /\ UNCHANGED <<live, signal, future, job, thread, fate>>
<1>1. obj[c] \in Handles
  BY DEF StopSet, IInv, CallsHaveHandles
<1>2. QED
  BY <1>1, SignalIsUsed DEF StopSet, CanSetValue, SetValue, Readied, handleVars

\* The destructor begins as stop() does and waits with its members intact (managed_job.hpp:44-51).
LEMMA DestroyBeginEffect ==
  ASSUME IInv, NEW c \in Callers, NEW h \in Handles, DestroyBegin(c, h)
  PROVE  Readied /\ UNCHANGED <<live, signal, future, job, thread>>
<1>1. MustSignal(h) => signal[h] # None
  BY SignalIsUsed DEF MustSignal, joinable
<1>2. state' = state \/ (signal[h] # None /\ state' = SetValue(signal[h]))
  BY <1>1 DEF DestroyBegin
<1>3. QED
  BY <1>2, SignalIsUsed DEF DestroyBegin, SetValue, Readied, handleVars

\* The destructor ends with the thread.
LEMMA DestroyEndEffect ==
  ASSUME IInv, NEW c \in Callers, DestroyEnd(c)
  PROVE  \E h \in Handles :
           /\ Readied
           /\ live' = live \ {h}
           /\ signal' = [signal EXCEPT ![h] = None]
           /\ future' = [future EXCEPT ![h] = None]
           /\ job' = [job EXCEPT ![h] = None]
           /\ job[h] # None => thread[job[h]] = "ended"
           /\ UNCHANGED thread
<1>1. obj[c] \in Handles
  BY DEF DestroyEnd, IInv, CallsHaveHandles
<1>2. Readied
  BY <1>1, Abandoning DEF DestroyEnd
<1>3. QED
  BY <1>1, <1>2 DEF DestroyEnd, DestroyMayEnd, joinable

\* join() ends with the thread.
LEMMA JoinEndEffect ==
  ASSUME IInv, NEW c \in Callers, JoinEnd(c)
  PROVE  \E h \in Handles :
           /\ job' = [job EXCEPT ![h] = None]
           /\ thread[job[h]] = "ended"
           /\ UNCHANGED <<live, signal, future, state, thread>>
<1>1. obj[c] \in Handles
  BY DEF JoinEnd, IInv, CallsHaveHandles
<1>2. QED
  BY <1>1 DEF JoinEnd

\* Who is assigned to asks its thread to stop.
LEMMA AssignEffect ==
  ASSUME IInv, NEW c \in Callers, NEW h \in Handles, NEW g \in Handles, MoveAssign(c, h, g)
  PROVE  /\ Readied
         /\ {h, g} \subseteq live /\ h # g
         /\ signal' = [signal EXCEPT ![h] = signal[g], ![g] = None]
         /\ future' = [future EXCEPT ![h] = future[g], ![g] = None]
         /\ job' = [job EXCEPT ![h] = job[g], ![g] = None]
         /\ job[h] # None => state'[job[h]] = "ready"
         /\ UNCHANGED <<live, thread>>
<1>1. job[h] # None => MustSignal(h) /\ signal[h] = job[h] /\ job[h] \in States
  BY SignalIsUsed, NoneIsNothing DEF MustSignal, joinable
<1>2. job[h] # None => state' = [state EXCEPT ![job[h]] = "ready"]
  BY <1>1 DEF MoveAssign, SetValue
<1>3. Readied
  <2>1. CASE job[h] # None
    BY <1>2, <2>1, SignalIsUsed DEF Readied
  <2>2. CASE job[h] = None
    BY <2>2, Abandoning DEF MoveAssign, MustSignal, joinable
  <2>3. QED
    BY <2>1, <2>2
<1>4. job[h] # None => state'[job[h]] = "ready"
  BY <1>1, <1>2 DEF IInv, TypeOK
<1>5. QED
  BY <1>3, <1>4 DEF MoveAssign, Moved

\* The failing move constructor takes the promise of a handle that has no thread.
LEMMA MoveConstructEffect ==
  ASSUME IInv, NEW c \in Callers, NEW g \in Handles, MoveConstruct(c, g)
  PROVE  /\ Readied
         /\ signal' = signal \/ (job[g] = None /\ signal' = [signal EXCEPT ![g] = None])
         /\ UNCHANGED <<live, future, job, thread>>
<1>1. Readied
  BY Abandoning DEF MoveConstruct, Readied
<1>2. QED
  BY <1>1 DEF MoveConstruct, joinable

\* A construction uses a new state, and what is not constructed has nothing.
LEMMA ConstructEffect ==
  ASSUME IInv, NEW c \in Callers, NEW h \in Handles, NEW s \in States,
         ConstructEmpty(c, h, s) \/ Construct(c, h, s)
  PROVE  /\ h \notin live /\ live' = live \cup {h}
         /\ signal[h] = None /\ future[h] = None /\ job[h] = None
         /\ signal' = [signal EXCEPT ![h] = s]
         /\ future' = [future EXCEPT ![h] = s]
         /\ state[s] = "unused" /\ state' = [state EXCEPT ![s] = "pending"]
         /\ thread[s] = "none" /\ \A g \in Handles : future[g] # s
         /\ \/ UNCHANGED <<job, thread>>
            \/ job' = [job EXCEPT ![h] = s] /\ thread' = [thread EXCEPT ![s] = "first"]
<1>1. h \notin live /\ state[s] = "unused"
  BY DEF ConstructEmpty, Construct
<1>2. signal[h] = None /\ future[h] = None /\ job[h] = None
  BY <1>1 DEF IInv, DeadAreEmpty, MembersAgree
<1>3. thread[s] = "none" /\ \A g \in Handles : future[g] # s
  BY <1>1 DEF IInv, StatesProgress
<1>4. QED
  BY <1>1, <1>2, <1>3 DEF ConstructEmpty, Construct, FirstStep

\* A thread goes round or ends, as it was asked to.
LEMMA ThreadEffect ==
  ASSUME NEW s \in States, JobReturns(s) \/ Poll(s)
  PROVE  /\ \/ thread[s] \in {"first", "job"} /\ thread' = [thread EXCEPT ![s] = "poll"]
            \/ thread[s] = "poll" /\ thread' = [thread EXCEPT ![s] = "job"]
            \/ /\ thread[s] = "poll" /\ state[s] = "ready"
               /\ thread' = [thread EXCEPT ![s] = "ended"]
         /\ UNCHANGED <<live, signal, future, job, state, pc, obj, fate>>
BY DEF JobReturns, Poll, LoopEnds, handleVars

-------------------------------------------------------------------------------

\* The types, and with them that a call is on a handle.
LEMMA TypeStep ==
  ASSUME IInv, [Next]_vars
  PROVE  TypeOK' /\ CallsHaveHandles'
<1> USE DEF TypeOK, CallsHaveHandles
<1>0. TypeOK /\ CallsHaveHandles
  BY DEF IInv
<1>1. Readied => state' \in [States -> {"unused", "pending", "ready"}]
  BY <1>0 DEF Readied
<1>2. ASSUME NEW c \in Callers, NEW h \in Handles, NEW s \in States,
             ConstructEmpty(c, h, s) \/ Construct(c, h, s)
      PROVE  TypeOK' /\ CallsHaveHandles'
  <2>1. UNCHANGED <<pc, obj, fate>>
    BY <1>2 DEF ConstructEmpty, Construct
  <2>2. /\ live' = live \cup {h}
        /\ signal' = [signal EXCEPT ![h] = s]
        /\ future' = [future EXCEPT ![h] = s]
        /\ state' = [state EXCEPT ![s] = "pending"]
        /\ job' = job \/ job' = [job EXCEPT ![h] = s]
        /\ thread' = thread \/ thread' = [thread EXCEPT ![s] = "first"]
    BY <1>2, ConstructEffect
  <2>3. job' \in [Handles -> States \cup {None}]
    BY <1>0, <2>2
  <2>4. thread' \in [States -> {"none", "first", "job", "poll", "ended"}]
    BY <1>0, <2>2
  <2>5. QED
    BY <1>0, <2>1, <2>2, <2>3, <2>4
<1>3. ASSUME NEW c \in Callers, NEW h \in Handles, StopCheck(c, h) \/ JoinBegin(c, h)
      PROVE  TypeOK' /\ CallsHaveHandles'
  BY <1>0, <1>3 DEF StopCheck, JoinBegin, handleVars
<1>4. ASSUME NEW c \in Callers, StopSet(c)
      PROVE  TypeOK' /\ CallsHaveHandles'
  BY <1>0, <1>1, <1>4, StopEffect DEF StopSet
<1>5. ASSUME NEW c \in Callers, JoinEnd(c)
      PROVE  TypeOK' /\ CallsHaveHandles'
  BY <1>0, <1>5 DEF JoinEnd
<1>6. ASSUME NEW c \in Callers, NEW h \in Handles, DestroyBegin(c, h)
      PROVE  TypeOK' /\ CallsHaveHandles'
  BY <1>0, <1>1, <1>6, DestroyBeginEffect DEF DestroyBegin
<1>7. ASSUME NEW c \in Callers, DestroyEnd(c)
      PROVE  TypeOK' /\ CallsHaveHandles'
  BY <1>0, <1>1, <1>7, DestroyEndEffect DEF DestroyEnd
<1>8. ASSUME NEW c \in Callers, NEW h \in Handles, NEW g \in Handles, MoveAssign(c, h, g)
      PROVE  TypeOK' /\ CallsHaveHandles'
  <2>1. /\ Readied
        /\ signal' = [signal EXCEPT ![h] = signal[g], ![g] = None]
        /\ future' = [future EXCEPT ![h] = future[g], ![g] = None]
        /\ job' = [job EXCEPT ![h] = job[g], ![g] = None]
        /\ UNCHANGED <<live, thread>>
    BY <1>8, AssignEffect
  <2>2. UNCHANGED <<pc, obj, fate>>
    BY <1>8 DEF MoveAssign
  <2>3. QED
    BY <1>0, <1>1, <2>1, <2>2
<1>9. ASSUME NEW c \in Callers, NEW g \in Handles, MoveConstruct(c, g)
      PROVE  TypeOK' /\ CallsHaveHandles'
  BY <1>0, <1>1, <1>9, MoveConstructEffect DEF MoveConstruct
<1>10. ASSUME NEW s \in States, JobReturns(s) \/ Poll(s)
       PROVE  TypeOK' /\ CallsHaveHandles'
  BY <1>0, <1>10, ThreadEffect
<1>11. CASE UNCHANGED vars
  BY <1>0, <1>11 DEF vars
<1>12. QED
  BY <1>2, <1>3, <1>4, <1>5, <1>6, <1>7, <1>8, <1>9, <1>10, <1>11 DEF Next, Return, Call, Thread

\* The members of a handle stay together, and of a construction in one handle.
LEMMA MembersStep ==
  ASSUME IInv, [Next]_vars
  PROVE  MembersAgree' /\ OwnersApart' /\ DeadAreEmpty'
<1> DEFINE Goal == MembersAgree' /\ OwnersApart' /\ DeadAreEmpty'
<1> USE DEF MembersAgree, OwnersApart, DeadAreEmpty
<1>0. MembersAgree /\ OwnersApart /\ DeadAreEmpty
  BY DEF IInv
<1>t. /\ signal \in [Handles -> States \cup {None}]
      /\ future \in [Handles -> States \cup {None}]
      /\ job \in [Handles -> States \cup {None}]
  BY DEF IInv, TypeOK
<1>rest. ASSUME UNCHANGED <<live, signal, future, job>>
         PROVE  Goal
  BY <1>0, <1>rest
<1>1. ASSUME NEW c \in Callers, NEW h \in Handles, NEW s \in States,
             ConstructEmpty(c, h, s) \/ Construct(c, h, s)
      PROVE  Goal
  <2>1. /\ live' = live \cup {h} /\ job[h] = None
        /\ signal' = [signal EXCEPT ![h] = s]
        /\ future' = [future EXCEPT ![h] = s]
        /\ \A g \in Handles : future[g] # s
        /\ job' = job \/ job' = [job EXCEPT ![h] = s]
    BY <1>1, ConstructEffect
  <2>2. MembersAgree'
    BY <1>0, <1>t, <2>1
  <2>3. OwnersApart'
    BY <1>0, <1>t, <2>1
  <2>4. DeadAreEmpty'
    BY <1>0, <1>t, <2>1
  <2>5. QED
    BY <2>2, <2>3, <2>4
<1>2. ASSUME NEW c \in Callers, NEW h \in Handles, StopCheck(c, h) \/ JoinBegin(c, h)
      PROVE  Goal
  BY <1>2, <1>rest DEF StopCheck, JoinBegin, handleVars
<1>3. ASSUME NEW c \in Callers, StopSet(c)
      PROVE  Goal
  BY <1>3, <1>rest, StopEffect
<1>4. ASSUME NEW c \in Callers, JoinEnd(c)
      PROVE  Goal
  BY <1>0, <1>t, <1>4, JoinEndEffect
<1>5. ASSUME NEW c \in Callers, NEW h \in Handles, DestroyBegin(c, h)
      PROVE  Goal
  BY <1>5, <1>rest, DestroyBeginEffect
<1>6. ASSUME NEW c \in Callers, DestroyEnd(c)
      PROVE  Goal
  <2>1. PICK h \in Handles :
          /\ live' = live \ {h}
          /\ signal' = [signal EXCEPT ![h] = None]
          /\ future' = [future EXCEPT ![h] = None]
          /\ job' = [job EXCEPT ![h] = None]
    BY <1>6, DestroyEndEffect
  <2>2. QED
    BY <1>0, <1>t, <2>1
<1>7. ASSUME NEW c \in Callers, NEW h \in Handles, NEW g \in Handles, MoveAssign(c, h, g)
      PROVE  Goal
  <2>1. /\ {h, g} \subseteq live /\ live' = live
        /\ signal' = [signal EXCEPT ![h] = signal[g], ![g] = None]
        /\ future' = [future EXCEPT ![h] = future[g], ![g] = None]
        /\ job' = [job EXCEPT ![h] = job[g], ![g] = None]
    BY <1>7, AssignEffect
  <2>2. MembersAgree'
    BY <1>0, <1>t, <2>1
  <2>3. OwnersApart'
    BY <1>0, <1>t, <2>1
  <2>4. DeadAreEmpty'
    BY <1>0, <1>t, <2>1
  <2>5. QED
    BY <2>2, <2>3, <2>4
<1>8. ASSUME NEW c \in Callers, NEW g \in Handles, MoveConstruct(c, g)
      PROVE  Goal
  BY <1>0, <1>t, <1>8, MoveConstructEffect
<1>9. ASSUME NEW s \in States, JobReturns(s) \/ Poll(s)
      PROVE  Goal
  BY <1>9, <1>rest, ThreadEffect
<1>10. CASE UNCHANGED vars
  BY <1>10, <1>rest DEF vars
<1>11. QED
  BY <1>1, <1>2, <1>3, <1>4, <1>5, <1>6, <1>7, <1>8, <1>9, <1>10 DEF Next, Return, Call, Thread

\* A thread that nobody asked keeps its handle.
LEMMA StatesStep ==
  ASSUME IInv, [Next]_vars
  PROVE  StatesProgress'
<1> USE DEF StatesProgress, Running
<1>0. StatesProgress /\ TypeOK
  BY DEF IInv
<1>t. /\ signal \in [Handles -> States \cup {None}]
      /\ future \in [Handles -> States \cup {None}]
      /\ job \in [Handles -> States \cup {None}]
      /\ state \in [States -> {"unused", "pending", "ready"}]
      /\ thread \in [States -> {"none", "first", "job", "poll", "ended"}]
  BY DEF IInv, TypeOK
<1>ready. ASSUME Readied, NEW s \in States
          PROVE  /\ state'[s] = "unused" <=> state[s] = "unused"
                 /\ state[s] = "ready" => state'[s] = "ready"
                 /\ state'[s] = "pending" => state[s] = "pending"
  BY <1>t, <1>ready DEF Readied
<1>rest. ASSUME Readied, UNCHANGED <<future, job, thread>>
         PROVE  StatesProgress'
  BY <1>0, <1>ready, <1>rest
<1>1. ASSUME NEW c \in Callers, NEW h \in Handles, NEW s \in States,
             ConstructEmpty(c, h, s) \/ Construct(c, h, s)
      PROVE  StatesProgress'
  <2>1. /\ job[h] = None
        /\ future' = [future EXCEPT ![h] = s]
        /\ state' = [state EXCEPT ![s] = "pending"]
        /\ thread[s] = "none"
        /\ \/ UNCHANGED <<job, thread>>
           \/ job' = [job EXCEPT ![h] = s] /\ thread' = [thread EXCEPT ![s] = "first"]
    BY <1>1, ConstructEffect
  <2> SUFFICES ASSUME NEW r \in States
               PROVE  StatesProgress!(r)'
    BY Zenon DEF StatesProgress
  <2>2. StatesProgress!(r)
    BY <1>0
  <2>3. r # s => state'[r] = state[r] /\ thread'[r] = thread[r]
    BY <1>t, <2>1
  <2>4. \A g \in Handles : job[g] \in States /\ job'[g] # job[g] => FALSE
    BY <1>t, <2>1, NoneIsNothing
  <2>5. \A g \in Handles : future'[g] = future[g] \/ future'[g] = s
    BY <1>t, <2>1
  <2>6. state'[s] = "pending" /\ thread'[s] \in {"none", "first"}
    BY <1>t, <2>1
  <2>7. thread'[s] = "first" => job'[h] = s
    BY <1>t, <2>1
  <2>8. QED
    BY <2>2, <2>3, <2>4, <2>5, <2>6, <2>7
<1>2. ASSUME NEW c \in Callers, NEW h \in Handles, StopCheck(c, h) \/ JoinBegin(c, h)
      PROVE  StatesProgress'
  BY <1>2, <1>rest DEF StopCheck, JoinBegin, handleVars, Readied
<1>3. ASSUME NEW c \in Callers, StopSet(c)
      PROVE  StatesProgress'
  BY <1>3, <1>rest, StopEffect
<1>4. ASSUME NEW c \in Callers, JoinEnd(c)
      PROVE  StatesProgress'
  <2>1. PICK h \in Handles :
          /\ job' = [job EXCEPT ![h] = None]
          /\ thread[job[h]] = "ended"
          /\ UNCHANGED <<future, state, thread>>
    BY <1>4, JoinEndEffect
  <2>2. QED
    BY <1>0, <1>t, <2>1
<1>5. ASSUME NEW c \in Callers, NEW h \in Handles, DestroyBegin(c, h)
      PROVE  StatesProgress'
  BY <1>5, <1>rest, DestroyBeginEffect
<1>6. ASSUME NEW c \in Callers, DestroyEnd(c)
      PROVE  StatesProgress'
  <2>1. PICK h \in Handles :
          /\ Readied
          /\ future' = [future EXCEPT ![h] = None]
          /\ job' = [job EXCEPT ![h] = None]
          /\ job[h] # None => thread[job[h]] = "ended"
          /\ UNCHANGED thread
    BY <1>6, DestroyEndEffect
  <2>2. QED
    BY <1>0, <1>t, <1>ready, <2>1, NoneIsNothing
<1>7. ASSUME NEW c \in Callers, NEW h \in Handles, NEW g \in Handles, MoveAssign(c, h, g)
      PROVE  StatesProgress'
  <2>1. /\ Readied
        /\ future' = [future EXCEPT ![h] = future[g], ![g] = None]
        /\ job' = [job EXCEPT ![h] = job[g], ![g] = None]
        /\ job[h] # None => state'[job[h]] = "ready"
        /\ h # g /\ UNCHANGED thread
    BY <1>7, AssignEffect
  <2> SUFFICES ASSUME NEW s \in States
               PROVE  StatesProgress!(s)'
    BY Zenon DEF StatesProgress
  <2>2. StatesProgress!(s)
    BY <1>0
  <2>3. /\ state'[s] = "unused" <=> state[s] = "unused"
        /\ state[s] = "ready" => state'[s] = "ready"
        /\ state'[s] = "pending" => state[s] = "pending"
    BY <1>ready, <2>1
  <2>4. job'[h] = job[g] /\ \A f \in Handles \ {h, g} : job'[f] = job[f]
    BY <1>t, <2>1
  <2>5. \A f \in Handles : future'[f] = None \/ \E e \in Handles : future'[f] = future[e]
    BY <1>t, <2>1
  <2>6. s # None
    BY NoneIsNothing
  <2>7. QED
    BY <2>1, <2>2, <2>3, <2>4, <2>5, <2>6
<1>8. ASSUME NEW c \in Callers, NEW g \in Handles, MoveConstruct(c, g)
      PROVE  StatesProgress'
  BY <1>8, <1>rest, MoveConstructEffect
<1>9. ASSUME NEW s \in States, JobReturns(s) \/ Poll(s)
      PROVE  StatesProgress'
  BY <1>0, <1>t, <1>9, ThreadEffect
<1>10. CASE UNCHANGED vars
  BY <1>10, <1>rest DEF vars, Readied
<1>11. QED
  BY <1>1, <1>2, <1>3, <1>4, <1>5, <1>6, <1>7, <1>8, <1>9, <1>10 DEF Next, Return, Call, Thread

-------------------------------------------------------------------------------

\* Nothing is constructed at first.
LEMMA InitInv == Init => IInv
<1> SUFFICES ASSUME Init
             PROVE  IInv
  OBVIOUS
<1>1. TypeOK /\ CallsHaveHandles
  BY DEF Init, TypeOK, CallsHaveHandles
<1>2. MembersAgree /\ OwnersApart /\ DeadAreEmpty
  BY DEF Init, MembersAgree, OwnersApart, DeadAreEmpty
<1>3. StatesProgress
  BY NoneIsNothing DEF Init, StatesProgress, Running
<1>4. QED
  BY <1>1, <1>2, <1>3 DEF IInv

\* IInv holds in every state: the promise, the future and the thread of a construction
\* travel together (managed_job.hpp:27-78).
THEOREM Invariance == Spec => []IInv
<1>1. IInv /\ [Next]_vars => IInv'
  BY TypeStep, MembersStep, StatesStep DEF IInv
<1>2. QED
  BY <1>1, InitInv, PTL DEF Spec

\* Every variable has its type.
THEOREM TypeCorrect == Spec => []TypeOK
<1>1. IInv => TypeOK
  BY DEF IInv
<1>2. QED
  BY <1>1, Invariance, PTL

\* No sequence of constructions, moves and destructions by any number of callers loses a
\* thread: one that runs unasked has one handle, which lives and has its promise and its
\* future (managed_job.hpp:55-78).
THEOREM OneOwner == Spec => []RunningThreadHasOneOwner
<1>1. IInv => RunningThreadHasOneOwner
  <2> SUFFICES ASSUME IInv, NEW s \in States, Running(s), state[s] = "pending"
               PROVE  \E h \in live :
                        /\ job[h] = s /\ signal[h] = s /\ future[h] = s
                        /\ \A g \in Handles \ {h} : s \notin {job[g], signal[g], future[g]}
    BY DEF RunningThreadHasOneOwner
  <2>1. s # None
    BY NoneIsNothing
  <2>2. PICK h \in Handles : job[h] = s
    BY DEF IInv, StatesProgress
  <2>3. signal[h] = s /\ future[h] = s
    BY <2>1, <2>2, SignalIsUsed
  <2>4. h \in live
    BY <2>1, <2>3 DEF IInv, DeadAreEmpty
  <2>5. ASSUME NEW g \in Handles \ {h}
        PROVE  s \notin {job[g], signal[g], future[g]}
    <3>1. future[g] # s
      BY <2>1, <2>3, <2>5 DEF IInv, OwnersApart
    <3>2. QED
      BY <2>1, <3>1 DEF IInv, MembersAgree
  <2>6. QED
    BY <2>2, <2>3, <2>4, <2>5
<1>2. QED
  BY <1>1, Invariance, PTL

\* Nothing takes a running thread from its handle but a move to another live handle, or
\* an assignment to the handle, which asks the thread to stop: destructors and join()
\* leave none behind (managed_job.hpp:44-51, :64-78, :96-102).
THEOREM NotDropped == Spec => RunningThreadIsNotDropped
<1> DEFINE Kept == \A h \in Handles, s \in States :
             (job[h] = s /\ job'[h] # s /\ Running(s)) =>
               \/ \E g \in live' : job'[g] = s
               \/ state'[s] = "ready" /\ h \in live'
<1>1. ASSUME IInv, [Next]_vars
      PROVE  Kept
  <2> SUFFICES ASSUME NEW h \in Handles, NEW s \in States,
                      job[h] = s, job'[h] # s, Running(s)
               PROVE  \/ \E g \in live' : job'[g] = s
                      \/ state'[s] = "ready" /\ h \in live'
    OBVIOUS
  <2>1. /\ job \in [Handles -> States \cup {None}] /\ s # None
        /\ thread[s] # "ended"
    BY <1>1, NoneIsNothing DEF IInv, TypeOK, Running
  <2>2. ASSUME NEW c \in Callers, NEW g \in Handles, NEW r \in States,
               ConstructEmpty(c, g, r) \/ Construct(c, g, r)
        PROVE  FALSE
    <3>1. job[g] = None /\ (job' = job \/ job' = [job EXCEPT ![g] = r])
      BY <1>1, <2>2, ConstructEffect
    <3>2. QED
      BY <2>1, <3>1
  <2>3. ASSUME NEW c \in Callers, JoinEnd(c)
        PROVE  FALSE
    BY <1>1, <2>1, <2>3, JoinEndEffect
  <2>4. ASSUME NEW c \in Callers, DestroyEnd(c)
        PROVE  FALSE
    BY <1>1, <2>1, <2>4, DestroyEndEffect
  <2>5. ASSUME NEW c \in Callers, NEW f \in Handles, NEW g \in Handles, MoveAssign(c, f, g)
        PROVE  \/ \E e \in live' : job'[e] = s
               \/ state'[s] = "ready" /\ h \in live'
    <3>1. /\ {f, g} \subseteq live /\ live' = live
          /\ job' = [job EXCEPT ![f] = job[g], ![g] = None]
          /\ job[f] # None => state'[job[f]] = "ready"
          /\ f # g
      BY <1>1, <2>5, AssignEffect
    <3>2. h = f \/ h = g
      BY <2>1, <3>1
    <3>3. job'[f] = job[g]
      BY <2>1, <3>1
    <3>4. QED
      BY <2>1, <3>1, <3>2, <3>3
  <2>6. ASSUME NEW c \in Callers, NEW g \in Handles,
               StopCheck(c, g) \/ JoinBegin(c, g) \/ DestroyBegin(c, g) \/ MoveConstruct(c, g)
        PROVE  FALSE
    BY <2>6 DEF StopCheck, JoinBegin, DestroyBegin, MoveConstruct, handleVars
  <2>7. ASSUME NEW r \in States, JobReturns(r) \/ Poll(r)
        PROVE  FALSE
    BY <2>7, ThreadEffect
  <2>8. ASSUME NEW c \in Callers, StopSet(c)
        PROVE  FALSE
    BY <2>8 DEF StopSet, handleVars
  <2>9. CASE UNCHANGED vars
    BY <2>9 DEF vars
  <2>10. QED
    BY <1>1, <2>2, <2>3, <2>4, <2>5, <2>6, <2>7, <2>8, <2>9 DEF Next, Return, Call, Thread
<1>2. IInv /\ [Next]_vars => [Kept]_vars
  BY <1>1
<1>3. QED
  BY <1>2, Invariance, PTL DEF Spec, RunningThreadIsNotDropped

-------------------------------------------------------------------------------

\* The refinement mapping.
phaseBar == [s \in States |-> Phase(s)]
askedBar == {s \in States : thread[s] # "none" /\ state[s] = "ready"}

\* To who only sees the threads, making a state ready asks its thread or nobody.
LEMMA ReadiedIsAsked ==
  ASSUME IInv, Readied, UNCHANGED thread
  PROVE  MT!Next \/ UNCHANGED MT!vars
<1>1. phaseBar' = phaseBar
  BY DEF phaseBar, Phase
<1>2. CASE state' = state
  <2>1. askedBar' = askedBar
    BY <1>2 DEF askedBar
  <2>2. QED
    BY <1>1, <2>1 DEF MT!vars, phaseBar, askedBar
<1>3. ASSUME NEW s \in States, state' = [state EXCEPT ![s] = "ready"]
      PROVE  MT!Next \/ UNCHANGED MT!vars
  <2>1. \A r \in States : state'[r] = IF r = s THEN "ready" ELSE state[r]
    BY <1>3 DEF IInv, TypeOK
  <2>2. CASE thread[s] = "none"
    <3>1. askedBar' = askedBar
      BY <2>1, <2>2 DEF askedBar
    <3>2. QED
      BY <1>1, <3>1 DEF MT!vars, phaseBar, askedBar
  <2>3. CASE thread[s] # "none"
    <3>1. askedBar' = askedBar \cup {s}
      BY <2>1, <2>3 DEF askedBar
    <3>2. phaseBar[s] # "unborn"
      BY <2>3 DEF phaseBar, Phase, IInv, TypeOK
    <3>3. MT!Ask(s)
      BY <1>1, <3>1, <3>2 DEF MT!Ask, phaseBar, askedBar
    <3>4. QED
      BY <3>3 DEF MT!Next
  <2>4. QED
    BY <2>2, <2>3
<1>4. QED
  BY <1>2, <1>3 DEF Readied

\* Every step starts a thread, asks one, is a round of one or its end, or is invisible.
LEMMA StepRefines ==
  ASSUME IInv, [Next]_vars
  PROVE  [MT!Next]_(MT!vars)
<1>t. /\ state \in [States -> {"unused", "pending", "ready"}]
      /\ thread \in [States -> {"none", "first", "job", "poll", "ended"}]
  BY DEF IInv, TypeOK
<1>phase. \A s \in States : phaseBar[s] = Phase(s) /\ phaseBar'[s] = Phase(s)'
  BY DEF phaseBar
<1>1. ASSUME UNCHANGED <<thread, state>>
      PROVE  UNCHANGED MT!vars
  BY <1>1 DEF MT!vars, Phase
<1>2. ASSUME NEW c \in Callers, NEW h \in Handles, NEW s \in States,
             ConstructEmpty(c, h, s) \/ Construct(c, h, s)
      PROVE  MT!Next \/ UNCHANGED MT!vars
  <2>1. /\ state[s] = "unused" /\ state' = [state EXCEPT ![s] = "pending"]
        /\ thread[s] = "none"
        /\ thread' = thread \/ thread' = [thread EXCEPT ![s] = "first"]
    BY <1>2, ConstructEffect
  <2>2. \A r \in States : /\ state'[r] = IF r = s THEN "pending" ELSE state[r]
                          /\ r # s => thread'[r] = thread[r]
    BY <1>t, <2>1
  <2>3. askedBar' = askedBar
    BY <2>1, <2>2 DEF askedBar
  <2>4. CASE thread' = thread
    <3>1. phaseBar' = phaseBar
      BY <2>4 DEF phaseBar, Phase
    <3>2. QED
      BY <2>3, <3>1 DEF MT!vars, phaseBar, askedBar
  <2>5. CASE thread' = [thread EXCEPT ![s] = "first"]
    <3>1. Phase(s) = "unborn" /\ phaseBar' = [phaseBar EXCEPT ![s] = "fresh"]
      BY <1>t, <2>1, <2>5 DEF phaseBar, Phase
    <3>2. MT!Start(s)
      BY <2>3, <3>1, <1>phase DEF MT!Start, MT!Go, phaseBar, askedBar
    <3>3. QED
      BY <3>2 DEF MT!Next
  <2>6. QED
    BY <2>1, <2>4, <2>5
<1>3. ASSUME NEW s \in States, JobReturns(s) \/ Poll(s)
      PROVE  MT!Next
  <2>1. state' = state
    BY <1>3, ThreadEffect
  <2>2. ASSUME NEW to \in {"poll", "job"}, thread[s] \in {"first", "job", "poll"},
               thread' = [thread EXCEPT ![s] = to]
        PROVE  MT!Next
    <3>1. Phase(s) \in {"fresh", "running"} /\ phaseBar' = [phaseBar EXCEPT ![s] = "running"]
      BY <1>t, <2>2 DEF phaseBar, Phase
    <3>2. askedBar' = askedBar
      BY <1>t, <2>1, <2>2 DEF askedBar
    <3>3. MT!Round(s)
      BY <1>phase, <3>1, <3>2 DEF MT!Round, MT!Go, phaseBar, askedBar
    <3>4. QED
      BY <3>3 DEF MT!Next
  <2>3. ASSUME thread[s] = "poll", state[s] = "ready", thread' = [thread EXCEPT ![s] = "ended"]
        PROVE  MT!Next
    <3>1. Phase(s) = "running" /\ phaseBar' = [phaseBar EXCEPT ![s] = "gone"]
      BY <1>t, <2>3 DEF phaseBar, Phase
    <3>2. askedBar' = askedBar /\ s \in askedBar
      BY <1>t, <2>1, <2>3 DEF askedBar
    <3>3. MT!End(s)
      BY <1>phase, <3>1, <3>2 DEF MT!End, MT!Go, phaseBar, askedBar
    <3>4. QED
      BY <3>3 DEF MT!Next
  <2>4. QED
    BY <1>3, <2>2, <2>3, ThreadEffect
<1>4. ASSUME NEW c \in Callers, StopSet(c) \/ DestroyEnd(c)
      PROVE  MT!Next \/ UNCHANGED MT!vars
  BY <1>4, StopEffect, DestroyEndEffect, ReadiedIsAsked
<1>5. ASSUME NEW c \in Callers, NEW h \in Handles, NEW g \in Handles,
             DestroyBegin(c, h) \/ MoveAssign(c, h, g) \/ MoveConstruct(c, h)
      PROVE  MT!Next \/ UNCHANGED MT!vars
  BY <1>5, DestroyBeginEffect, AssignEffect, MoveConstructEffect, ReadiedIsAsked
<1>6. ASSUME NEW c \in Callers, JoinEnd(c)
      PROVE  UNCHANGED MT!vars
  BY <1>1, <1>6, JoinEndEffect
<1>7. ASSUME NEW c \in Callers, NEW h \in Handles, StopCheck(c, h) \/ JoinBegin(c, h)
      PROVE  UNCHANGED MT!vars
  BY <1>1, <1>7 DEF StopCheck, JoinBegin
<1>8. CASE UNCHANGED vars
  BY <1>1, <1>8 DEF vars
<1>9. QED
  BY <1>2, <1>3, <1>4, <1>5, <1>6, <1>7, <1>8 DEF Next, Return, Call, Thread

\* No thread is born at first.
LEMMA InitRefines == Init => MT!Init
BY DEF Init, MT!Init, Phase

\* Every thread calls its job at least once and ends only when it was asked, whichever
\* calls are made on handles (managed_job.hpp:19, :34-39).
THEOREM Refinement == Spec => ImplementsManagedThreads
<1>1. IInv /\ [Next]_vars => [MT!Next]_(MT!vars)
  BY StepRefines
<1>2. QED
  BY <1>1, InitRefines, Invariance, PTL DEF Spec, ImplementsManagedThreads, MT!Spec
===============================================================================
