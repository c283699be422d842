-------------------------- MODULE JobSequenceProofs --------------------------
(***************************************************************************)
(* Theorems about JobSequence, for any set of jobs, any clients and either  *)
(* kind of logger. The argument: IInv is an invariant (one lemma per         *)
(* conjunct, one case per action), each safety property follows from it,    *)
(* and under it every step is a step of SerialJobs or changes nothing there. *)
(***************************************************************************)
EXTENDS JobSequence, TLAPS


\* Every step keeps the types. The job a client brings and the job in the task
\* thread are jobs by AttachingInv and RunningInv.
LEMMA TypeStep ==
  ASSUME TypeOK, AttachingInv, RunningInv, [Next]_vars
  PROVE  TypeOK'
<1> USE NoneIsNoJob, FatalThrowsIsBoolean DEF Clients, Usable, Constructing, QueueLocked, masterVars, clientVars, TypeOK, ClientPcs, OwnerPcs, MasterPcs, JobStates, AttachingInv, LateBound, RunningInv, TaskPcs
<1>1. CASE ConstructMoveSignal
  BY <1>1 DEF ConstructMoveSignal
<1>2. CASE ConstructMoveFuture
  BY <1>2 DEF ConstructMoveFuture
<1>3. ASSUME NEW c \in Clients, NEW j \in Jobs, AttachPrepare(c, j)
      PROVE  TypeOK'
  BY <1>3 DEF AttachPrepare
<1>4. ASSUME NEW c \in Clients, AttachPush(c)
      PROVE  TypeOK'
  <2>1. /\ pc[c] = "attach"
        /\ arg[c] \in Jobs
        /\ st[arg[c]] = "attaching"
        /\ arg' = [arg EXCEPT ![c] = None]
        /\ UNCHANGED <<last, stopped, mpc, cur, saw, late, stopSig, exitSig>>
    BY <1>4 DEF AttachPush
  <2>2. CASE Refused
    <3>1. /\ st' = [st EXCEPT ![arg[c]] = "rejected"]
          /\ pc' = [pc EXCEPT ![c] = "idle"]
          /\ tasks' = tasks
      BY <1>4, <2>2, Zenon DEF AttachPush
    <3>2. QED
      BY <2>1, <3>1
  <2>3. CASE ~Refused
    <3>1. /\ st' = [st EXCEPT ![arg[c]] = "queued"]
          /\ pc' = [pc EXCEPT ![c] = "notify"]
          /\ tasks' = Append(tasks, arg[c])
      BY <1>4, <2>3, Zenon DEF AttachPush
    <3>2. /\ Len(tasks) \in Nat
          /\ Len(tasks') = Len(tasks) + 1
          /\ tasks' \in Seq(Jobs)
          /\ tasks'[Len(tasks) + 1] = arg[c]
          /\ \A i \in 1 .. Len(tasks) : tasks'[i] = tasks[i]
      BY <2>1, <3>1
    <3>3. QED
      BY <2>1, <3>1, <3>2
  <2>4. QED
    BY <2>2, <2>3
<1>5. ASSUME NEW c \in Clients, AttachNotify(c)
      PROVE  TypeOK'
  BY <1>5 DEF AttachNotify, NotifyOne
<1>6. ASSUME NEW c \in Clients, StopCall(c)
      PROVE  TypeOK'
  BY <1>6 DEF StopCall, StopBody, NotifyOne, CancelQueued
<1>7. CASE JoinBegin
  BY <1>7 DEF JoinBegin
<1>8. CASE JoinReturn
  BY <1>8 DEF JoinReturn, JoinReady, Settled
<1>9. CASE DestroyBegin
  BY <1>9 DEF DestroyBegin
<1>10. CASE DestroyStop
  BY <1>10 DEF DestroyStop, StopBody, NotifyOne, CancelQueued
<1>11. CASE DestroySignal
  BY <1>11 DEF DestroySignal
<1>12. CASE DestroyJoin
  BY <1>12 DEF DestroyJoin, CancelQueued, MasterJoinable
<1>13. CASE MasterLock
  BY <1>13 DEF MasterLock
<1>14. CASE MasterProceed
  <2>1. CASE tasks = <<>>
    BY <1>14, <2>1 DEF MasterProceed
  <2>2. CASE tasks # <<>>
    <3>1. /\ tasks' = Tail(tasks)
          /\ st' = [st EXCEPT ![Head(tasks)] = "running"]
          /\ cur' = Head(tasks)
          /\ mpc' = "spawn"
      BY <1>14, <2>2 DEF MasterProceed, MasterTake
    <3>2. /\ Head(tasks) = tasks[1]
          /\ Head(tasks) \in Jobs
          /\ tasks' \in Seq(Jobs)
          /\ Len(tasks) \in Nat \ {0}
          /\ Len(tasks') = Len(tasks) - 1
          /\ \A i \in 1 .. Len(tasks') : tasks'[i] = tasks[i + 1]
      BY <2>2, <3>1
    <3>3. QED
      BY <1>14, <3>1, <3>2 DEF MasterProceed
  <2>3. QED
    BY <2>1, <2>2
<1>15. CASE MasterWait
  BY <1>15 DEF MasterWait
<1>16. CASE MasterJoinsTask
  BY <1>16 DEF MasterJoinsTask
<1>17. CASE MasterPoll
  BY <1>17 DEF MasterPoll, LoopEnds
<1>18. CASE TaskStart
  BY <1>18 DEF TaskStart, CountLateCall, LateBound
<1>19. CASE CallEnds
  BY <1>19 DEF CallEnds, TaskEnds
<1>20. CASE CallUnfinished
  BY <1>20 DEF CallUnfinished
<1>21. CASE TaskCheck
  BY <1>21 DEF TaskCheck, TaskEnds, TaskMayGoOn, CountLateCall, LateBound
<1>22. CASE SpuriousWake
  BY <1>22 DEF SpuriousWake
<1>23. CASE UNCHANGED vars
  BY <1>23 DEF vars
<1>24. QED
  BY <1>1, <1>2, <1>3, <1>4, <1>5, <1>6, <1>7, <1>8, <1>9, <1>10, <1>11, <1>12, <1>13, <1>14, <1>15, <1>16, <1>17, <1>18, <1>19, <1>20, <1>21, <1>22, <1>23 DEF Next, Construct, Attach, Destroy, Master, Task

\* Every step keeps AttachingInv: AttachPrepare takes a fresh job, so the new
\* client is apart from the others, and nothing else touches a job on its way.
LEMMA AttachingStep ==
  ASSUME TypeOK, AttachingInv, QueueInv, RunningInv, [Next]_vars
  PROVE  AttachingInv'
<1> USE NoneIsNoJob, FatalThrowsIsBoolean DEF Clients, Usable, Constructing, QueueLocked, masterVars, clientVars, TypeOK, ClientPcs, OwnerPcs, MasterPcs, JobStates, AttachingInv, QueueInv, RunningInv, TaskPcs
<1>1. CASE ConstructMoveSignal
  BY <1>1 DEF ConstructMoveSignal
<1>2. CASE ConstructMoveFuture
  BY <1>2 DEF ConstructMoveFuture
<1>3. ASSUME NEW c \in Clients, NEW j \in Jobs, AttachPrepare(c, j)
      PROVE  AttachingInv'
  BY <1>3 DEF AttachPrepare
<1>4. ASSUME NEW c \in Clients, AttachPush(c)
      PROVE  AttachingInv'
  <2>1. /\ pc[c] = "attach"
        /\ arg[c] \in Jobs
        /\ st[arg[c]] = "attaching"
        /\ arg' = [arg EXCEPT ![c] = None]
        /\ UNCHANGED <<last, stopped, mpc, cur, saw, late, stopSig, exitSig>>
    BY <1>4 DEF AttachPush
  <2>2. CASE Refused
    <3>1. /\ st' = [st EXCEPT ![arg[c]] = "rejected"]
          /\ pc' = [pc EXCEPT ![c] = "idle"]
          /\ tasks' = tasks
      BY <1>4, <2>2, Zenon DEF AttachPush
    <3>2. QED
      BY <2>1, <3>1
  <2>3. CASE ~Refused
    <3>1. /\ st' = [st EXCEPT ![arg[c]] = "queued"]
          /\ pc' = [pc EXCEPT ![c] = "notify"]
          /\ tasks' = Append(tasks, arg[c])
      BY <1>4, <2>3, Zenon DEF AttachPush
    <3>2. /\ Len(tasks) \in Nat
          /\ Len(tasks') = Len(tasks) + 1
          /\ tasks' \in Seq(Jobs)
          /\ tasks'[Len(tasks) + 1] = arg[c]
          /\ \A i \in 1 .. Len(tasks) : tasks'[i] = tasks[i]
      BY <2>1, <3>1
    <3>3. QED
      BY <2>1, <3>1, <3>2
  <2>4. QED
    BY <2>2, <2>3
<1>5. ASSUME NEW c \in Clients, AttachNotify(c)
      PROVE  AttachingInv'
  BY <1>5 DEF AttachNotify, NotifyOne
<1>6. ASSUME NEW c \in Clients, StopCall(c)
      PROVE  AttachingInv'
  BY <1>6 DEF StopCall, StopBody, NotifyOne, CancelQueued
<1>7. CASE JoinBegin
  BY <1>7 DEF JoinBegin
<1>8. CASE JoinReturn
  BY <1>8 DEF JoinReturn, JoinReady, Settled
<1>9. CASE DestroyBegin
  BY <1>9 DEF DestroyBegin
<1>10. CASE DestroyStop
  BY <1>10 DEF DestroyStop, StopBody, NotifyOne, CancelQueued
<1>11. CASE DestroySignal
  BY <1>11 DEF DestroySignal
<1>12. CASE DestroyJoin
  BY <1>12 DEF DestroyJoin, CancelQueued, MasterJoinable
<1>13. CASE MasterLock
  BY <1>13 DEF MasterLock
<1>14. CASE MasterProceed
  BY <1>14 DEF MasterProceed, MasterTake, ExitReady, ExitTimedOut
<1>15. CASE MasterWait
  BY <1>15 DEF MasterWait
<1>16. CASE MasterJoinsTask
  BY <1>16 DEF MasterJoinsTask
<1>17. CASE MasterPoll
  BY <1>17 DEF MasterPoll, LoopEnds
<1>18. CASE TaskStart
  BY <1>18 DEF TaskStart, CountLateCall, LateBound
<1>19. CASE CallEnds
  BY <1>19 DEF CallEnds, TaskEnds
<1>20. CASE CallUnfinished
  BY <1>20 DEF CallUnfinished
<1>21. CASE TaskCheck
  BY <1>21 DEF TaskCheck, TaskEnds, TaskMayGoOn, CountLateCall, LateBound
<1>22. CASE SpuriousWake
  BY <1>22 DEF SpuriousWake
<1>23. CASE UNCHANGED vars
  BY <1>23 DEF vars
<1>24. QED
  BY <1>1, <1>2, <1>3, <1>4, <1>5, <1>6, <1>7, <1>8, <1>9, <1>10, <1>11, <1>12, <1>13, <1>14, <1>15, <1>16, <1>17, <1>18, <1>19, <1>20, <1>21, <1>22, <1>23 DEF Next, Construct, Attach, Destroy, Master, Task

\* Every step keeps QueueInv: the job that is appended was not queued, and the
\* job that is taken is in tasks only once.
LEMMA QueueStep ==
  ASSUME TypeOK, AttachingInv, QueueInv, RunningInv, [Next]_vars
  PROVE  QueueInv'
<1> USE NoneIsNoJob, FatalThrowsIsBoolean DEF Clients, Usable, Constructing, QueueLocked, masterVars, clientVars, TypeOK, ClientPcs, OwnerPcs, MasterPcs, JobStates, AttachingInv, QueueInv, RunningInv, TaskPcs
<1>1. CASE ConstructMoveSignal
  BY <1>1 DEF ConstructMoveSignal
<1>2. CASE ConstructMoveFuture
  BY <1>2 DEF ConstructMoveFuture
<1>3. ASSUME NEW c \in Clients, NEW j \in Jobs, AttachPrepare(c, j)
      PROVE  QueueInv'
  BY <1>3 DEF AttachPrepare
<1>4. ASSUME NEW c \in Clients, AttachPush(c)
      PROVE  QueueInv'
  <2>1. /\ pc[c] = "attach"
        /\ arg[c] \in Jobs
        /\ st[arg[c]] = "attaching"
        /\ arg' = [arg EXCEPT ![c] = None]
        /\ UNCHANGED <<last, stopped, mpc, cur, saw, late, stopSig, exitSig>>
    BY <1>4 DEF AttachPush
  <2>2. CASE Refused
    <3>1. /\ st' = [st EXCEPT ![arg[c]] = "rejected"]
          /\ pc' = [pc EXCEPT ![c] = "idle"]
          /\ tasks' = tasks
      BY <1>4, <2>2, Zenon DEF AttachPush
    <3>2. QED
      BY <2>1, <3>1
  <2>3. CASE ~Refused
    <3>1. /\ st' = [st EXCEPT ![arg[c]] = "queued"]
          /\ pc' = [pc EXCEPT ![c] = "notify"]
          /\ tasks' = Append(tasks, arg[c])
      BY <1>4, <2>3, Zenon DEF AttachPush
    <3>2. /\ Len(tasks) \in Nat
          /\ Len(tasks') = Len(tasks) + 1
          /\ tasks' \in Seq(Jobs)
          /\ tasks'[Len(tasks) + 1] = arg[c]
          /\ \A i \in 1 .. Len(tasks) : tasks'[i] = tasks[i]
      BY <2>1, <3>1
    <3>3. QED
      BY <2>1, <3>1, <3>2
  <2>4. QED
    BY <2>2, <2>3
<1>5. ASSUME NEW c \in Clients, AttachNotify(c)
      PROVE  QueueInv'
  BY <1>5 DEF AttachNotify, NotifyOne
<1>6. ASSUME NEW c \in Clients, StopCall(c)
      PROVE  QueueInv'
  BY <1>6 DEF StopCall, StopBody, NotifyOne, CancelQueued
<1>7. CASE JoinBegin
  BY <1>7 DEF JoinBegin
<1>8. CASE JoinReturn
  BY <1>8 DEF JoinReturn, JoinReady, Settled
<1>9. CASE DestroyBegin
  BY <1>9 DEF DestroyBegin
<1>10. CASE DestroyStop
  BY <1>10 DEF DestroyStop, StopBody, NotifyOne, CancelQueued
<1>11. CASE DestroySignal
  BY <1>11 DEF DestroySignal
<1>12. CASE DestroyJoin
  BY <1>12 DEF DestroyJoin, CancelQueued, MasterJoinable
<1>13. CASE MasterLock
  BY <1>13 DEF MasterLock
<1>14. CASE MasterProceed
  <2>1. CASE tasks = <<>>
    BY <1>14, <2>1 DEF MasterProceed
  <2>2. CASE tasks # <<>>
    <3>1. /\ tasks' = Tail(tasks)
          /\ st' = [st EXCEPT ![Head(tasks)] = "running"]
          /\ cur' = Head(tasks)
          /\ mpc' = "spawn"
      BY <1>14, <2>2 DEF MasterProceed, MasterTake
    <3>2. /\ Head(tasks) = tasks[1]
          /\ Head(tasks) \in Jobs
          /\ tasks' \in Seq(Jobs)
          /\ Len(tasks) \in Nat \ {0}
          /\ Len(tasks') = Len(tasks) - 1
          /\ \A i \in 1 .. Len(tasks') : tasks'[i] = tasks[i + 1]
      BY <2>2, <3>1
    <3>3. \A i \in 1 .. Len(tasks') : i + 1 \in 1 .. Len(tasks) /\ i + 1 # 1
      BY <3>2
    <3>4. \A i \in 1 .. Len(tasks') : st'[tasks'[i]] = "queued"
      BY <3>1, <3>2, <3>3
    <3>5. ASSUME NEW i \in 1 .. Len(tasks'), NEW k \in 1 .. Len(tasks'),
                 tasks'[i] = tasks'[k]
          PROVE  i = k
      <4>1. tasks[i + 1] = tasks[k + 1]
        BY <3>2, <3>5
      <4>2. i + 1 = k + 1
        BY <3>3, <4>1
      <4>3. QED
        BY <4>2
    <3>6. ASSUME NEW j \in Jobs, st'[j] = "queued"
          PROVE  \E i \in 1 .. Len(tasks') : tasks'[i] = j
      <4>1. j # Head(tasks) /\ st[j] = "queued"
        BY <3>1, <3>2, <3>6
      <4>2. PICK i \in 1 .. Len(tasks) : tasks[i] = j
        BY <4>1
      <4>3. i - 1 \in 1 .. Len(tasks') /\ tasks'[i - 1] = j
        BY <3>2, <4>1, <4>2
      <4>4. QED
        BY <4>3
    <3>7. QED
      BY <3>4, <3>5, <3>6
  <2>3. QED
    BY <2>1, <2>2
<1>15. CASE MasterWait
  BY <1>15 DEF MasterWait
<1>16. CASE MasterJoinsTask
  BY <1>16 DEF MasterJoinsTask
<1>17. CASE MasterPoll
  BY <1>17 DEF MasterPoll, LoopEnds
<1>18. CASE TaskStart
  BY <1>18 DEF TaskStart, CountLateCall, LateBound
<1>19. CASE CallEnds
  BY <1>19 DEF CallEnds, TaskEnds
<1>20. CASE CallUnfinished
  BY <1>20 DEF CallUnfinished
<1>21. CASE TaskCheck
  BY <1>21 DEF TaskCheck, TaskEnds, TaskMayGoOn, CountLateCall, LateBound
<1>22. CASE SpuriousWake
  BY <1>22 DEF SpuriousWake
<1>23. CASE UNCHANGED vars
  BY <1>23 DEF vars
<1>24. QED
  BY <1>1, <1>2, <1>3, <1>4, <1>5, <1>6, <1>7, <1>8, <1>9, <1>10, <1>11, <1>12, <1>13, <1>14, <1>15, <1>16, <1>17, <1>18, <1>19, <1>20, <1>21, <1>22, <1>23 DEF Next, Construct, Attach, Destroy, Master, Task

\* Every step keeps RunningInv: the master takes a job only when it has none.
LEMMA RunningStep ==
  ASSUME TypeOK, AttachingInv, QueueInv, RunningInv, [Next]_vars
  PROVE  RunningInv'
<1> USE NoneIsNoJob, FatalThrowsIsBoolean DEF Clients, Usable, Constructing, QueueLocked, masterVars, clientVars, TypeOK, ClientPcs, OwnerPcs, MasterPcs, JobStates, AttachingInv, QueueInv, RunningInv, TaskPcs
<1>1. CASE ConstructMoveSignal
  BY <1>1 DEF ConstructMoveSignal
<1>2. CASE ConstructMoveFuture
  BY <1>2 DEF ConstructMoveFuture
<1>3. ASSUME NEW c \in Clients, NEW j \in Jobs, AttachPrepare(c, j)
      PROVE  RunningInv'
  BY <1>3 DEF AttachPrepare
<1>4. ASSUME NEW c \in Clients, AttachPush(c)
      PROVE  RunningInv'
  BY <1>4 DEF AttachPush, Refused
<1>5. ASSUME NEW c \in Clients, AttachNotify(c)
      PROVE  RunningInv'
  BY <1>5 DEF AttachNotify, NotifyOne
<1>6. ASSUME NEW c \in Clients, StopCall(c)
      PROVE  RunningInv'
  BY <1>6 DEF StopCall, StopBody, NotifyOne, CancelQueued
<1>7. CASE JoinBegin
  BY <1>7 DEF JoinBegin
<1>8. CASE JoinReturn
  BY <1>8 DEF JoinReturn, JoinReady, Settled
<1>9. CASE DestroyBegin
  BY <1>9 DEF DestroyBegin
<1>10. CASE DestroyStop
  BY <1>10 DEF DestroyStop, StopBody, NotifyOne, CancelQueued
<1>11. CASE DestroySignal
  BY <1>11 DEF DestroySignal
<1>12. CASE DestroyJoin
  BY <1>12 DEF DestroyJoin, CancelQueued, MasterJoinable
<1>13. CASE MasterLock
  BY <1>13 DEF MasterLock
<1>14. CASE MasterProceed
  BY <1>14 DEF MasterProceed, MasterTake, ExitReady, ExitTimedOut
<1>15. CASE MasterWait
  BY <1>15 DEF MasterWait
<1>16. CASE MasterJoinsTask
  BY <1>16 DEF MasterJoinsTask
<1>17. CASE MasterPoll
  BY <1>17 DEF MasterPoll, LoopEnds
<1>18. CASE TaskStart
  BY <1>18 DEF TaskStart, CountLateCall, LateBound
<1>19. CASE CallEnds
  BY <1>19 DEF CallEnds, TaskEnds
<1>20. CASE CallUnfinished
  BY <1>20 DEF CallUnfinished
<1>21. CASE TaskCheck
  BY <1>21 DEF TaskCheck, TaskEnds, TaskMayGoOn, CountLateCall, LateBound
<1>22. CASE SpuriousWake
  BY <1>22 DEF SpuriousWake
<1>23. CASE UNCHANGED vars
  BY <1>23 DEF vars
<1>24. QED
  BY <1>1, <1>2, <1>3, <1>4, <1>5, <1>6, <1>7, <1>8, <1>9, <1>10, <1>11, <1>12, <1>13, <1>14, <1>15, <1>16, <1>17, <1>18, <1>19, <1>20, <1>21, <1>22, <1>23 DEF Next, Construct, Attach, Destroy, Master, Task

\* Every step keeps LateInv: after stop_signal_ is set TaskCheck ends the task, so
\* only the first call of a job can be late.
LEMMA LateStep ==
  ASSUME TypeOK, AttachingInv, QueueInv, RunningInv, LateInv, [Next]_vars
  PROVE  LateInv'
<1> USE NoneIsNoJob, FatalThrowsIsBoolean DEF Clients, Usable, Constructing, QueueLocked, masterVars, clientVars, TypeOK, ClientPcs, OwnerPcs, MasterPcs, JobStates, AttachingInv, QueueInv, RunningInv, LateInv, TaskPcs
<1>1. CASE ConstructMoveSignal
  BY <1>1 DEF ConstructMoveSignal
<1>2. CASE ConstructMoveFuture
  BY <1>2 DEF ConstructMoveFuture
<1>3. ASSUME NEW c \in Clients, NEW j \in Jobs, AttachPrepare(c, j)
      PROVE  LateInv'
  BY <1>3 DEF AttachPrepare
<1>4. ASSUME NEW c \in Clients, AttachPush(c)
      PROVE  LateInv'
  BY <1>4 DEF AttachPush, Refused
<1>5. ASSUME NEW c \in Clients, AttachNotify(c)
      PROVE  LateInv'
  BY <1>5 DEF AttachNotify, NotifyOne
<1>6. ASSUME NEW c \in Clients, StopCall(c)
      PROVE  LateInv'
  BY <1>6 DEF StopCall, StopBody, NotifyOne, CancelQueued
<1>7. CASE JoinBegin
  BY <1>7 DEF JoinBegin
<1>8. CASE JoinReturn
  BY <1>8 DEF JoinReturn, JoinReady, Settled
<1>9. CASE DestroyBegin
  BY <1>9 DEF DestroyBegin
<1>10. CASE DestroyStop
  BY <1>10 DEF DestroyStop, StopBody, NotifyOne, CancelQueued
<1>11. CASE DestroySignal
  BY <1>11 DEF DestroySignal
<1>12. CASE DestroyJoin
  BY <1>12 DEF DestroyJoin, CancelQueued, MasterJoinable
<1>13. CASE MasterLock
  BY <1>13 DEF MasterLock
<1>14. CASE MasterProceed
  BY <1>14 DEF MasterProceed, MasterTake, ExitReady, ExitTimedOut
<1>15. CASE MasterWait
  BY <1>15 DEF MasterWait
<1>16. CASE MasterJoinsTask
  BY <1>16 DEF MasterJoinsTask
<1>17. CASE MasterPoll
  BY <1>17 DEF MasterPoll, LoopEnds
<1>18. CASE TaskStart
  BY <1>18 DEF TaskStart, CountLateCall, LateBound
<1>19. CASE CallEnds
  BY <1>19 DEF CallEnds, TaskEnds
<1>20. CASE CallUnfinished
  BY <1>20 DEF CallUnfinished
<1>21. CASE TaskCheck
  BY <1>21 DEF TaskCheck, TaskEnds, TaskMayGoOn, CountLateCall, LateBound
<1>22. CASE SpuriousWake
  BY <1>22 DEF SpuriousWake
<1>23. CASE UNCHANGED vars
  BY <1>23 DEF vars
<1>24. QED
  BY <1>1, <1>2, <1>3, <1>4, <1>5, <1>6, <1>7, <1>8, <1>9, <1>10, <1>11, <1>12, <1>13, <1>14, <1>15, <1>16, <1>17, <1>18, <1>19, <1>20, <1>21, <1>22, <1>23 DEF Next, Construct, Attach, Destroy, Master, Task

\* Every step keeps DestructionInv: once stopped_ is set an attach_job that has
\* not pushed its job yet is refused, so tasks stays as stop() left it.
LEMMA DestructionStep ==
  ASSUME TypeOK, AttachingInv, QueueInv, DestructionInv, [Next]_vars
  PROVE  DestructionInv'
<1> USE NoneIsNoJob, FatalThrowsIsBoolean DEF Clients, Usable, Constructing, QueueLocked, masterVars, clientVars, TypeOK, ClientPcs, OwnerPcs, MasterPcs, JobStates, AttachingInv, QueueInv, DestructionInv, DestructorAdmitsNoJob
<1>1. CASE ConstructMoveSignal
  BY <1>1 DEF ConstructMoveSignal
<1>2. CASE ConstructMoveFuture
  BY <1>2 DEF ConstructMoveFuture
<1>3. ASSUME NEW c \in Clients, NEW j \in Jobs, AttachPrepare(c, j)
      PROVE  DestructionInv'
  BY <1>3 DEF AttachPrepare
<1>4. ASSUME NEW c \in Clients, AttachPush(c)
      PROVE  DestructionInv'
  BY <1>4 DEF AttachPush, Refused
<1>5. ASSUME NEW c \in Clients, AttachNotify(c)
      PROVE  DestructionInv'
  BY <1>5 DEF AttachNotify, NotifyOne
<1>6. ASSUME NEW c \in Clients, StopCall(c)
      PROVE  DestructionInv'
  BY <1>6 DEF StopCall, StopBody, NotifyOne, CancelQueued
<1>7. CASE JoinBegin
  BY <1>7 DEF JoinBegin
<1>8. CASE JoinReturn
  BY <1>8 DEF JoinReturn, JoinReady, Settled
<1>9. CASE DestroyBegin
  BY <1>9 DEF DestroyBegin
<1>10. CASE DestroyStop
  BY <1>10 DEF DestroyStop, StopBody, NotifyOne, CancelQueued
<1>11. CASE DestroySignal
  BY <1>11 DEF DestroySignal
<1>12. CASE DestroyJoin
  BY <1>12 DEF DestroyJoin, CancelQueued, MasterJoinable
<1>13. CASE MasterLock
  BY <1>13 DEF MasterLock
<1>14. CASE MasterProceed
  BY <1>14 DEF MasterProceed, MasterTake, ExitReady, ExitTimedOut
<1>15. CASE MasterWait
  BY <1>15 DEF MasterWait
<1>16. CASE MasterJoinsTask
  BY <1>16 DEF MasterJoinsTask
<1>17. CASE MasterPoll
  BY <1>17 DEF MasterPoll, LoopEnds
<1>18. CASE TaskStart
  BY <1>18 DEF TaskStart, CountLateCall, LateBound
<1>19. CASE CallEnds
  BY <1>19 DEF CallEnds, TaskEnds
<1>20. CASE CallUnfinished
  BY <1>20 DEF CallUnfinished
<1>21. CASE TaskCheck
  BY <1>21 DEF TaskCheck, TaskEnds, TaskMayGoOn, CountLateCall, LateBound
<1>22. CASE SpuriousWake
  BY <1>22 DEF SpuriousWake
<1>23. CASE UNCHANGED vars
  BY <1>23 DEF vars
<1>24. QED
  BY <1>1, <1>2, <1>3, <1>4, <1>5, <1>6, <1>7, <1>8, <1>9, <1>10, <1>11, <1>12, <1>13, <1>14, <1>15, <1>16, <1>17, <1>18, <1>19, <1>20, <1>21, <1>22, <1>23 DEF Next, Construct, Attach, Destroy, Master, Task

\* Every step keeps NoLostWakeup: the master goes to sleep with tasks empty, and a
\* push is followed by its notify.
LEMMA NoLostWakeupStep ==
  ASSUME TypeOK, NoLostWakeup, [Next]_vars
  PROVE  NoLostWakeup'
<1> USE NoneIsNoJob, FatalThrowsIsBoolean DEF Clients, Usable, Constructing, QueueLocked, masterVars, clientVars, TypeOK, ClientPcs, OwnerPcs, MasterPcs, JobStates, NoLostWakeup
<1>1. CASE ConstructMoveSignal
  BY <1>1 DEF ConstructMoveSignal
<1>2. CASE ConstructMoveFuture
  BY <1>2 DEF ConstructMoveFuture
<1>3. ASSUME NEW c \in Clients, NEW j \in Jobs, AttachPrepare(c, j)
      PROVE  NoLostWakeup'
  BY <1>3 DEF AttachPrepare
<1>4. ASSUME NEW c \in Clients, AttachPush(c)
      PROVE  NoLostWakeup'
  BY <1>4 DEF AttachPush, Refused
<1>5. ASSUME NEW c \in Clients, AttachNotify(c)
      PROVE  NoLostWakeup'
  BY <1>5 DEF AttachNotify, NotifyOne
<1>6. ASSUME NEW c \in Clients, StopCall(c)
      PROVE  NoLostWakeup'
  BY <1>6 DEF StopCall, StopBody, NotifyOne, CancelQueued
<1>7. CASE JoinBegin
  BY <1>7 DEF JoinBegin
<1>8. CASE JoinReturn
  BY <1>8 DEF JoinReturn, JoinReady, Settled
<1>9. CASE DestroyBegin
  BY <1>9 DEF DestroyBegin
<1>10. CASE DestroyStop
  BY <1>10 DEF DestroyStop, StopBody, NotifyOne, CancelQueued
<1>11. CASE DestroySignal
  BY <1>11 DEF DestroySignal
<1>12. CASE DestroyJoin
  BY <1>12 DEF DestroyJoin, CancelQueued, MasterJoinable
<1>13. CASE MasterLock
  BY <1>13 DEF MasterLock
<1>14. CASE MasterProceed
  BY <1>14 DEF MasterProceed, MasterTake, ExitReady, ExitTimedOut
<1>15. CASE MasterWait
  BY <1>15 DEF MasterWait
<1>16. CASE MasterJoinsTask
  BY <1>16 DEF MasterJoinsTask
<1>17. CASE MasterPoll
  BY <1>17 DEF MasterPoll, LoopEnds
<1>18. CASE TaskStart
  BY <1>18 DEF TaskStart, CountLateCall, LateBound
<1>19. CASE CallEnds
  BY <1>19 DEF CallEnds, TaskEnds
<1>20. CASE CallUnfinished
  BY <1>20 DEF CallUnfinished
<1>21. CASE TaskCheck
  BY <1>21 DEF TaskCheck, TaskEnds, TaskMayGoOn, CountLateCall, LateBound
<1>22. CASE SpuriousWake
  BY <1>22 DEF SpuriousWake
<1>23. CASE UNCHANGED vars
  BY <1>23 DEF vars
<1>24. QED
  BY <1>1, <1>2, <1>3, <1>4, <1>5, <1>6, <1>7, <1>8, <1>9, <1>10, <1>11, <1>12, <1>13, <1>14, <1>15, <1>16, <1>17, <1>18, <1>19, <1>20, <1>21, <1>22, <1>23 DEF Next, Construct, Attach, Destroy, Master, Task

-------------------------------------------------------------------------------

\* The constructor leaves a sequence that satisfies the invariant.
LEMMA InitIInv == Init => IInv
<1> SUFFICES ASSUME Init PROVE IInv
  OBVIOUS
<1>1. TypeOK
  <2>1. pc \in [Clients -> OwnerPcs] /\ \A c \in Clients \ {Owner} : pc[c] \in ClientPcs
    BY DEF Init, ClientPcs, OwnerPcs
  <2>2. arg \in [Clients -> Jobs \cup {None}] /\ st \in [Jobs -> JobStates]
    BY DEF Init, JobStates
  <2>3. tasks \in Seq(Jobs) /\ late \in [Jobs -> 0 .. LateBound]
    BY DEF Init, LateBound
  <2>4. QED
    BY <2>1, <2>2, <2>3 DEF Init, TypeOK, MasterPcs
<1>2. AttachingInv /\ QueueInv /\ RunningInv
  BY DEF Init, AttachingInv, QueueInv, RunningInv, TaskPcs
<1>3. LateInv /\ DestructionInv /\ NoLostWakeup
  BY DEF Init, LateInv, DestructionInv, DestructorAdmitsNoJob, NoLostWakeup, Clients
<1>4. QED
  BY <1>1, <1>2, <1>3 DEF IInv

\* The inductive invariant holds in every reachable state.
THEOREM Invariance == Spec => []IInv
<1>1. IInv /\ [Next]_vars => IInv'
  BY TypeStep, AttachingStep, QueueStep, RunningStep, LateStep, DestructionStep,
     NoLostWakeupStep DEF IInv
<1>2. QED
  BY InitIInv, <1>1, PTL DEF Spec

\* Type correctness.
THEOREM TypeCorrect == Spec => []TypeOK
<1>1. IInv => TypeOK
  BY DEF IInv
<1>2. QED
  BY Invariance, <1>1, PTL

\* attach_job never loses the master's wakeup (sequence.hpp:91-100), whatever
\* number of clients attach.
THEOREM AttachWakesMaster == Spec => []NoLostWakeup
<1>1. IInv => NoLostWakeup
  BY DEF IInv
<1>2. QED
  BY Invariance, <1>1, PTL

\* No job is called twice after stop() (sequence.hpp:77-88).
THEOREM StopEndsCalls == Spec => []StopIsPrompt
<1>1. IInv => StopIsPrompt
  BY DEF IInv, LateInv, StopIsPrompt
<1>2. QED
  BY Invariance, <1>1, PTL

\* With a logger whose fatal throws, the destructor's stop() is the last word on
\* tasks_ (sequence.hpp:62-63 against :93-97).
THEOREM DestructorEmptiesQueue ==
  ASSUME FatalThrows
  PROVE  Spec => []DestructorAdmitsNoJob
<1>1. IInv => DestructorAdmitsNoJob
  BY FatalThrows DEF IInv, DestructionInv
<1>2. QED
  BY Invariance, <1>1, PTL

\* When the destructor has returned no thread runs and no future is pending.
THEOREM DestructionIsQuiet == Spec => []QuietAfterDestruction
<1>1. ASSUME IInv, pc[Owner] = "dead"
      PROVE  mpc = "exited" /\ \A j \in Jobs : st[j] = "fresh" \/ Settled(j)
  <2>1. /\ mpc = "exited"
        /\ \A j \in Jobs : st[j] # "queued"
        /\ \A c \in Clients : pc[c] # "attach"
    BY <1>1 DEF IInv, DestructionInv
  <2>2. \A j \in Jobs : st[j] # "attaching" /\ st[j] # "running"
    BY <1>1, <2>1 DEF IInv, AttachingInv, RunningInv, TaskPcs
  <2>3. \A j \in Jobs : st[j] \in JobStates
    BY <1>1 DEF IInv, TypeOK
  <2>4. QED
    BY <2>1, <2>2, <2>3 DEF JobStates, Settled
<1>2. IInv => QuietAfterDestruction
  BY <1>1 DEF QuietAfterDestruction
<1>3. QED
  BY Invariance, <1>2, PTL

-------------------------------------------------------------------------------
\* join() with the owner as the only attacher.

\* Until somebody stops the sequence, the job attached last is the last in the queue,
\* or runs if the queue is empty, unless it is still on its way there.
JoinInv ==
  /\ stopped => pc[Owner] \in {"dtor_stop", "dtor_signal", "dtor_join", "dead"}
  /\ \A c \in Clients \ {Owner} : pc[c] # "attach"
  /\ ~stopSig /\ ~stopped =>
       /\ \A j \in Jobs : st[j] \notin {"cancelled", "rejected"}
       /\ pc[Owner] = "attach" => arg[Owner] = last
       /\ pc[Owner] # "attach" /\ tasks # <<>> => tasks[Len(tasks)] = last
       /\ pc[Owner] # "attach" /\ tasks = <<>> /\ mpc \in TaskPcs => cur = last

\* Every step keeps JoinInv: only the end of the queue is where jobs are appended, and
\* only its front is where they are taken.
LEMMA JoinStep ==
  ASSUME Attachers \subseteq {Owner}, IInv, JoinInv, [Next]_vars
  PROVE  JoinInv'
<1> USE DEF JoinInv, TaskPcs
<1>0. /\ Owner \in Clients /\ pc \in [Clients -> OwnerPcs] /\ arg \in [Clients -> Jobs \cup {None}]
      /\ tasks \in Seq(Jobs) /\ st \in [Jobs -> JobStates]
  BY DEF IInv, TypeOK, Clients
\* What the master and its task do without touching the queue.
<1>master. ASSUME UNCHANGED <<pc, arg, last, stopped, stopSig, tasks>>,
                  \A j \in Jobs : st'[j] \in {"cancelled", "rejected"} => st'[j] = st[j],
                  mpc' \in TaskPcs => mpc \in TaskPcs /\ cur' = cur
           PROVE  JoinInv'
  BY <1>master
\* What clients do elsewhere.
<1>client. ASSUME UNCHANGED <<arg, last, stopped, stopSig, tasks, st, cur>>,
                  mpc' \in TaskPcs => mpc \in TaskPcs,
                  \A c \in Clients : pc'[c] # "attach",
                  pc[Owner] # "attach",
                  stopped => pc'[Owner] \in {"dtor_stop", "dtor_signal", "dtor_join", "dead"}
           PROVE  JoinInv'
  BY <1>0, <1>client
\* When the sequence is stopped nothing is left to show.
<1>stop. ASSUME stopSig' \/ stopped', \A c \in Clients \ {Owner} : pc'[c] = pc[c],
                stopped' => pc'[Owner] \in {"dtor_stop", "dtor_signal", "dtor_join", "dead"}
         PROVE  JoinInv'
  BY <1>stop
<1>1. CASE ConstructMoveSignal \/ ConstructMoveFuture \/ JoinBegin \/ JoinReturn \/ DestroySignal
  <2>1. /\ UNCHANGED <<arg, last, stopped, stopSig, tasks, st, cur, mpc>>
        /\ \E to \in {"ctor_future", "idle", "join", "dtor_join"} : pc' = [pc EXCEPT ![Owner] = to]
        /\ pc[Owner] \in {"ctor_signal", "ctor_future", "idle", "join", "dtor_signal"}
        /\ pc[Owner] = "dtor_signal" => pc' = [pc EXCEPT ![Owner] = "dtor_join"]
    BY <1>1 DEF ConstructMoveSignal, ConstructMoveFuture, JoinBegin, JoinReturn, DestroySignal,
                masterVars
  <2>2. /\ pc'[Owner] \in {"ctor_future", "idle", "join", "dtor_join"}
        /\ pc[Owner] = "dtor_signal" => pc'[Owner] = "dtor_join"
        /\ \A c \in Clients \ {Owner} : pc'[c] = pc[c]
    BY <1>0, <2>1
  <2>3. \A c \in Clients : pc'[c] # "attach"
    BY <2>2
  <2>4. QED
    BY <1>client, <2>1, <2>2, <2>3
<1>2. ASSUME NEW c \in Clients, NEW j \in Jobs, AttachPrepare(c, j)
      PROVE  JoinInv'
  <2>1. /\ c = Owner /\ pc[Owner] = "idle" /\ pc' = [pc EXCEPT ![Owner] = "attach"]
        /\ arg' = [arg EXCEPT ![Owner] = j] /\ last' = j
        /\ st' = [st EXCEPT ![j] = "attaching"]
        /\ UNCHANGED <<stopped, stopSig, tasks, mpc, cur>>
    BY <1>2 DEF AttachPrepare, masterVars
  <2>2. /\ pc'[Owner] = "attach" /\ arg'[Owner] = j
        /\ \A d \in Clients \ {Owner} : pc'[d] = pc[d]
        /\ \A i \in Jobs : st'[i] \in {"cancelled", "rejected"} => st'[i] = st[i]
    BY <1>0, <2>1
  <2>3. QED
    BY <2>1, <2>2
<1>3. ASSUME NEW c \in Clients, AttachPush(c)
      PROVE  JoinInv'
  <2>1. /\ c = Owner /\ pc[Owner] = "attach"
        /\ UNCHANGED <<last, stopped, stopSig, mpc, cur>>
    BY <1>3 DEF AttachPush, masterVars
  <2>2. ~stopped /\ ~Refused
    BY <2>1 DEF Refused
  <2>3. /\ pc' = [pc EXCEPT ![Owner] = "notify"]
        /\ st' = [st EXCEPT ![arg[Owner]] = "queued"]
        /\ tasks' = Append(tasks, arg[Owner])
    BY <1>3, <2>1, <2>2, Zenon DEF AttachPush
  <2>4. arg[Owner] \in Jobs
    BY <2>1 DEF IInv, AttachingInv, Clients
  <2>5. tasks' # <<>> /\ tasks'[Len(tasks')] = arg[Owner]
    BY <1>0, <2>3, <2>4
  <2>6. /\ pc'[Owner] = "notify" /\ \A d \in Clients \ {Owner} : pc'[d] = pc[d]
        /\ \A i \in Jobs : st'[i] \in {"cancelled", "rejected"} => st'[i] = st[i]
    BY <1>0, <2>3
  <2>7. QED
    BY <2>1, <2>2, <2>5, <2>6
<1>4. ASSUME NEW c \in Clients, AttachNotify(c)
      PROVE  JoinInv'
  <2>1. /\ pc[c] = "notify" /\ pc' = [pc EXCEPT ![c] = "idle"]
        /\ mpc' = (IF mpc = "wait" THEN "woken" ELSE mpc)
        /\ UNCHANGED <<arg, last, stopped, stopSig, tasks, st, cur>>
    BY <1>4 DEF AttachNotify, NotifyOne
  <2>2. mpc' \in TaskPcs => mpc \in TaskPcs
    BY <2>1
  <2>3. /\ \A d \in Clients : pc'[d] = "attach" <=> pc[d] = "attach"
        /\ pc'[Owner] = pc[Owner] \/ (c = Owner /\ pc[Owner] = "notify")
    BY <1>0, <2>1
  <2>4. QED
    BY <2>1, <2>2, <2>3
<1>5. ASSUME NEW c \in Clients, StopCall(c)
      PROVE  JoinInv'
  BY <1>stop, <1>5 DEF StopCall, StopBody, clientVars
<1>6. CASE DestroyBegin \/ DestroyStop \/ DestroyJoin
  <2>1. /\ stopped'
        /\ \E to \in {"dtor_stop", "dtor_signal", "dead"} : pc' = [pc EXCEPT ![Owner] = to]
    BY <1>6 DEF DestroyBegin, DestroyStop, DestroyJoin, IInv, DestructionInv
  <2>2. /\ pc'[Owner] \in {"dtor_stop", "dtor_signal", "dead"}
        /\ \A c \in Clients \ {Owner} : pc'[c] = pc[c]
    BY <1>0, <2>1
  <2>3. QED
    BY <1>stop, <2>1, <2>2
<1>7. CASE MasterLock \/ MasterWait \/ MasterJoinsTask \/ MasterPoll \/ SpuriousWake
  BY <1>master, <1>7 DEF MasterLock, MasterWait, MasterJoinsTask, MasterPoll, SpuriousWake,
                         clientVars
<1>8. CASE MasterProceed
  <2>1. CASE tasks = <<>>
    BY <1>master, <1>8, <2>1 DEF MasterProceed, clientVars
  <2>2. CASE tasks # <<>>
    <3>1. /\ cur' = Head(tasks) /\ tasks' = Tail(tasks)
          /\ st' = [st EXCEPT ![Head(tasks)] = "running"]
          /\ UNCHANGED <<pc, arg, last, stopped, stopSig>>
      BY <1>8, <2>2 DEF MasterProceed, MasterTake, clientVars
    <3>2. /\ Len(tasks) \in Nat \ {0} /\ Head(tasks) = tasks[1]
          /\ Len(tasks') = Len(tasks) - 1
          /\ \A i \in 1 .. Len(tasks') : tasks'[i] = tasks[i + 1]
      BY <1>0, <2>2, <3>1
    <3>3. tasks' # <<>> => tasks'[Len(tasks')] = tasks[Len(tasks)]
      <4>1. tasks' \in Seq(Jobs)
        BY <1>0, <2>2, <3>1
      <4>2. tasks' # <<>> => Len(tasks') \in 1 .. Len(tasks')
        BY <4>1
      <4>3. QED
        BY <3>2, <4>2
    <3>4. tasks' = <<>> => cur' = tasks[Len(tasks)]
      <4>1. tasks' = <<>> => Len(tasks') = 0
        OBVIOUS
      <4>2. tasks' = <<>> => Len(tasks) = 1
        BY <3>2, <4>1
      <4>3. QED
        BY <3>1, <3>2, <4>2
    <3>5. \A j \in Jobs : st'[j] \in {"cancelled", "rejected"} => st'[j] = st[j]
      BY <1>0, <3>1
    <3>6. QED
      BY <2>2, <3>1, <3>3, <3>4, <3>5
  <2>3. QED
    BY <2>1, <2>2
<1>9. CASE TaskStart \/ CallEnds \/ CallUnfinished \/ TaskCheck
  <2>1. /\ UNCHANGED <<pc, arg, last, stopped, stopSig, tasks, cur>>
        /\ st' = st \/ st' = [st EXCEPT ![cur] = "done"]
        /\ mpc \in TaskPcs
    BY <1>9 DEF TaskStart, CallEnds, CallUnfinished, TaskCheck, TaskEnds, clientVars
  <2>2. \A j \in Jobs : st'[j] \in {"cancelled", "rejected"} => st'[j] = st[j]
    BY <1>0, <2>1
  <2>3. QED
    BY <1>master, <2>1, <2>2
<1>10. CASE UNCHANGED vars
  BY <1>10 DEF vars
<1>11. QED
  BY <1>1, <1>2, <1>3, <1>4, <1>5, <1>6, <1>7, <1>8, <1>9, <1>10
  DEF Next, Construct, Attach, Destroy, Master, Task

\* If only the owner attaches and nobody stops the sequence, join() returns when no job is
\* waiting or running (sequence.hpp:110-117).
THEOREM JoinIsComplete ==
  ASSUME Attachers \subseteq {Owner}
  PROVE  Spec => JoinWaitsForAll
<1>1. Init => JoinInv
  BY DEF Init, JoinInv, TaskPcs, Clients
<1>2. IInv /\ JoinInv /\ [Next]_vars => JoinInv'
  BY Attachers \subseteq {Owner}, JoinStep
<1>3. ASSUME IInv, JoinInv, [Next]_vars,
             pc[Owner] = "join" /\ pc'[Owner] = "idle" /\ ~stopSig
      PROVE  \A j \in Jobs : st[j] = "fresh" \/ Settled(j)
  <2>1. JoinReturn
    <3>1. Owner \in Clients /\ pc \in [Clients -> OwnerPcs]
      BY <1>3 DEF IInv, TypeOK, Clients
    <3>2. \A c \in Clients : pc[c] \in {"idle", "attach", "notify"} => c # Owner
      BY <1>3
    <3>3. ASSUME NEW c \in Clients, Attach(c) \/ StopCall(c)
          PROVE  pc'[Owner] = pc[Owner]
      <4>1. c # Owner
        BY <3>2, <3>3 DEF Attach, AttachPrepare, AttachPush, AttachNotify, StopCall
      <4>2. pc' = pc \/ \E to : pc' = [pc EXCEPT ![c] = to]
        BY <3>3 DEF Attach, AttachPrepare, AttachPush, AttachNotify, StopCall, clientVars
      <4>3. QED
        BY <3>1, <4>1, <4>2
    <3>4. Master \/ Task \/ SpuriousWake \/ UNCHANGED vars => pc' = pc
      BY DEF Master, MasterLock, MasterProceed, MasterWait, MasterJoinsTask, MasterPoll, Task,
             TaskStart, CallEnds, CallUnfinished, TaskCheck, SpuriousWake, vars, clientVars
    <3>5. ~Construct /\ ~JoinBegin /\ ~Destroy
      BY <1>3 DEF Construct, ConstructMoveSignal, ConstructMoveFuture, JoinBegin, Destroy,
                  DestroyBegin, DestroyStop, DestroySignal, DestroyJoin
    <3>6. QED
      BY <1>3, <3>3, <3>4, <3>5 DEF Next
  <2>2. Settled(last)
    BY <2>1 DEF JoinReturn, JoinReady
  <2>3. ~stopped /\ pc[Owner] # "attach"
    BY <1>3 DEF JoinInv
  <2>4. \A c \in Clients : pc[c] # "attach"
    BY <1>3, <2>3 DEF JoinInv
  <2>5. \A j \in Jobs : st[j] # "attaching"
    BY <1>3, <2>4 DEF IInv, AttachingInv
  <2>6. tasks = <<>>
    <3>1. tasks # <<>> => Len(tasks) \in 1 .. Len(tasks)
      BY <1>3 DEF IInv, TypeOK
    <3>2. tasks # <<>> => st[last] = "queued"
      BY <1>3, <2>3, <3>1 DEF JoinInv, IInv, QueueInv
    <3>3. QED
      BY <2>2, <3>2 DEF Settled
  <2>7. \A j \in Jobs : st[j] # "queued"
    BY <1>3, <2>6 DEF IInv, QueueInv
  <2>8. \A j \in Jobs : st[j] # "running"
    BY <1>3, <2>2, <2>3, <2>6 DEF JoinInv, IInv, RunningInv, Settled
  <2>9. QED
    BY <1>3, <2>5, <2>7, <2>8 DEF IInv, TypeOK, JobStates, Settled
<1>4. IInv /\ JoinInv /\ [Next]_vars
        => [(pc[Owner] = "join" /\ pc'[Owner] = "idle" /\ ~stopSig)
              => \A j \in Jobs : st[j] = "fresh" \/ Settled(j)]_vars
  BY <1>3
<1>5. QED
  BY <1>1, <1>2, <1>4, Invariance, PTL DEF Spec, JoinWaitsForAll

-------------------------------------------------------------------------------
\* JobSequence implements SerialJobs.

\* A job that has not been pushed is unknown to SerialJobs.
LEMMA AttachingIsUnknown ==
  ASSUME IInv, NEW j \in Jobs, st[j] = "attaching"
  PROVE  j \notin SJ!Known
<1>1. j \notin SJ!Members(tasks)
  BY DEF IInv, TypeOK, QueueInv, SJ!Members
<1>2. j # Active
  BY NoneIsNoJob DEF IInv, RunningInv, Active
<1>3. j \notin Completed /\ j \notin Dropped
  BY DEF Completed, Dropped
<1>4. QED
  BY <1>1, <1>2, <1>3 DEF SJ!Known

\* Dropping tasks_ is DropWaiting: the queued jobs are the members of tasks.
LEMMA CancelIsDrop ==
  ASSUME IInv, tasks' = <<>>, st' = CancelQueued, UNCHANGED Active
  PROVE  SJ!DropWaiting
<1>1. SJ!Members(tasks) = {j \in Jobs : st[j] = "queued"}
  BY DEF IInv, TypeOK, QueueInv, SJ!Members
<1>2. st' \in [Jobs -> JobStates] /\ \A j \in Jobs : st'[j] = CancelQueued[j]
  BY DEF IInv, TypeOK, CancelQueued, JobStates
<1>3. Dropped' = Dropped \cup SJ!Members(tasks) /\ Completed' = Completed
  BY <1>1, <1>2 DEF Dropped, Completed, CancelQueued
<1>4. QED
  BY <1>3 DEF SJ!DropWaiting

\* The end of a task is End.
LEMMA TaskEndsIsEnd ==
  ASSUME IInv, mpc \in TaskPcs, TaskEnds, UNCHANGED tasks
  PROVE  SJ!End
<1>1. cur \in Jobs /\ st[cur] = "running" /\ Active = cur /\ Active # None
  BY NoneIsNoJob DEF IInv, RunningInv, Active
<1>2. Active' = None
  BY DEF TaskEnds, Active, TaskPcs
<1>3. Completed' = Completed \cup {Active} /\ Dropped' = Dropped
  BY <1>1 DEF IInv, TypeOK, TaskEnds, Completed, Dropped
<1>4. QED
  BY <1>1, <1>2, <1>3 DEF SJ!End

\* Every step is a step of SerialJobs or leaves its variables alone.
LEMMA StepRefines ==
  ASSUME IInv, [Next]_vars
  PROVE  [SJ!Next]_(SJ!vars)
<1> DEFINE Same == UNCHANGED <<tasks, Active, Completed, Dropped>>
<1>0. Same => UNCHANGED SJ!vars
  BY DEF SJ!vars
<1>1. ASSUME UNCHANGED <<tasks, st, mpc, cur>>
      PROVE  Same
  BY <1>1 DEF Active, Completed, Dropped
<1>2. ASSUME UNCHANGED <<tasks, st, cur>>, mpc \notin TaskPcs, mpc' \notin TaskPcs
      PROVE  Same
  BY <1>2 DEF Active, Completed, Dropped
<1>3. ASSUME UNCHANGED <<tasks, st, cur>>, mpc \in TaskPcs, mpc' \in TaskPcs
      PROVE  Same
  BY <1>3 DEF Active, Completed, Dropped
<1>4. ASSUME NotifyOne
      PROVE  (mpc \in TaskPcs /\ mpc' = mpc) \/ (mpc \notin TaskPcs /\ mpc' \notin TaskPcs)
  BY <1>4 DEF NotifyOne, TaskPcs
<1>5. ASSUME Construct \/ JoinBegin \/ JoinReturn \/ DestroyBegin \/ DestroySignal
      PROVE  Same
  BY <1>1, <1>5 DEF Construct, ConstructMoveSignal, ConstructMoveFuture, JoinBegin,
     JoinReturn, DestroyBegin, DestroySignal, masterVars
<1>6. ASSUME NEW c \in Clients, NEW j \in Jobs, AttachPrepare(c, j)
      PROVE  Same
  BY <1>6 DEF AttachPrepare, masterVars, Active, Completed, Dropped, IInv, TypeOK
<1>7. ASSUME NEW c \in Clients, AttachPush(c)
      PROVE  SJ!Next
  <2>1. /\ arg[c] \in Jobs
        /\ st[arg[c]] = "attaching"
        /\ UNCHANGED <<mpc, cur, Active>>
    BY <1>7 DEF AttachPush, masterVars, IInv, AttachingInv, Active
  <2>2. arg[c] \notin SJ!Known
    BY <2>1, AttachingIsUnknown
  <2>3. CASE Refused
    <3>1. tasks' = tasks /\ st' = [st EXCEPT ![arg[c]] = "rejected"]
      BY <1>7, <2>3, Zenon DEF AttachPush
    <3>2. Dropped' = Dropped \cup {arg[c]} /\ Completed' = Completed
      BY <2>1, <3>1 DEF Dropped, Completed, IInv, TypeOK
    <3>3. SJ!Refuse(arg[c])
      BY <2>1, <2>2, <3>1, <3>2 DEF SJ!Refuse
    <3>4. QED
      BY <2>1, <3>3 DEF SJ!Next
  <2>4. CASE ~Refused
    <3>1. tasks' = Append(tasks, arg[c]) /\ st' = [st EXCEPT ![arg[c]] = "queued"]
      BY <1>7, <2>4, Zenon DEF AttachPush
    <3>2. Dropped' = Dropped /\ Completed' = Completed
      BY <2>1, <3>1 DEF Dropped, Completed, IInv, TypeOK
    <3>3. SJ!Submit(arg[c])
      BY <2>1, <2>2, <3>1, <3>2 DEF SJ!Submit
    <3>4. QED
      BY <2>1, <3>3 DEF SJ!Next
  <2>5. QED
    BY <2>3, <2>4
<1>8. ASSUME NEW c \in Clients, AttachNotify(c)
      PROVE  Same
  BY <1>1, <1>2, <1>4, <1>8 DEF AttachNotify
<1>9. ASSUME StopBody
      PROVE  SJ!Next
  <2>1. UNCHANGED Active
    BY <1>4, <1>9 DEF StopBody, Active
  <2>2. SJ!DropWaiting
    BY <1>9, <2>1, CancelIsDrop DEF StopBody
  <2>3. QED
    BY <2>2 DEF SJ!Next
<1>10. ASSUME DestroyJoin
       PROVE  SJ!Next
  <2>1. UNCHANGED Active
    BY <1>10 DEF DestroyJoin, masterVars, Active
  <2>2. SJ!DropWaiting
    BY <1>10, <2>1, CancelIsDrop DEF DestroyJoin
  <2>3. QED
    BY <2>2 DEF SJ!Next
<1>11. ASSUME MasterLock \/ MasterWait \/ MasterPoll \/ SpuriousWake
       PROVE  Same
  BY <1>2, <1>11 DEF MasterLock, MasterWait, MasterPoll, SpuriousWake, TaskPcs
<1>12. ASSUME MasterProceed
       PROVE  SJ!Next \/ Same
  <2>1. CASE tasks = <<>>
    BY <1>2, <1>12, <2>1 DEF MasterProceed, TaskPcs
  <2>2. CASE tasks # <<>>
    <3>1. MasterTake /\ mpc = "pred"
      BY <1>12, <2>2 DEF MasterProceed
    <3>2. Head(tasks) \in Jobs /\ st[Head(tasks)] = "queued"
      BY <2>2 DEF IInv, TypeOK, QueueInv
    <3>3. Active = None /\ Active' = Head(tasks)
      BY <3>1 DEF MasterTake, Active, TaskPcs
    <3>4. Completed' = Completed /\ Dropped' = Dropped
      BY <3>1, <3>2 DEF MasterTake, Completed, Dropped, IInv, TypeOK
    <3>5. SJ!Begin
      BY <2>2, <3>1, <3>3, <3>4 DEF MasterTake, SJ!Begin
    <3>6. QED
      BY <3>5 DEF SJ!Next
  <2>3. QED
    BY <2>1, <2>2
<1>13. ASSUME MasterJoinsTask
       PROVE  Same
  BY <1>13 DEF MasterJoinsTask, TaskPcs, Active, Completed, Dropped
<1>14. ASSUME TaskStart \/ CallUnfinished
       PROVE  Same
  BY <1>3, <1>14 DEF TaskStart, CallUnfinished, TaskPcs
<1>15. ASSUME CallEnds
       PROVE  SJ!Next
  BY <1>15, TaskEndsIsEnd DEF CallEnds, TaskPcs, SJ!Next
<1>16. ASSUME TaskCheck
       PROVE  SJ!Next \/ Same
  <2>1. CASE TaskMayGoOn
    BY <1>3, <1>16, <2>1 DEF TaskCheck, TaskPcs
  <2>2. CASE ~TaskMayGoOn
    <3>1. TaskEnds /\ mpc = "check" /\ UNCHANGED tasks
      BY <1>16, <2>2, Zenon DEF TaskCheck
    <3>2. QED
      BY <3>1, TaskEndsIsEnd DEF TaskPcs, SJ!Next
  <2>3. QED
    BY <2>1, <2>2
<1>17. CASE Next
  BY <1>17, <1>0, <1>5, <1>6, <1>7, <1>8, <1>9, <1>10, <1>11, <1>12, <1>13, <1>14,
     <1>15, <1>16 DEF Next, Attach, StopCall, Destroy, DestroyStop, Master, Task
<1>18. CASE UNCHANGED vars
  BY <1>0, <1>1, <1>18 DEF vars
<1>19. QED
  BY <1>17, <1>18

\* jobs::Sequence keeps the promise of SerialJobs: jobs run one at a time and in
\* attach order, however its threads interleave.
THEOREM Refinement == Spec => ImplementsSerialJobs
<1>1. Init => SJ!Init
  BY DEF Init, SJ!Init, Active, Completed, Dropped, TaskPcs
<1>2. QED
  BY <1>1, Invariance, StepRefines, PTL DEF Spec, ImplementsSerialJobs, SJ!Spec

===============================================================================
