----------------------------- MODULE JobSequence ------------------------------
(***************************************************************************)
(* jobs::Sequence (jobs/sequence.hpp): a queue of jobs that one master      *)
(* thread, a ManagedJob, takes one by one and runs each in a thread of its   *)
(* own, joining it before it takes the next.                                *)
(*                                                                         *)
(* The threads:                                                            *)
(*   Owner       constructs the sequence, attaches, joins, destroys it      *)
(*   Attachers   may call attach_job (the owner is usually the only one)    *)
(*   Stoppers    may call stop()                                            *)
(*   the master  the ManagedJob's loop around the lambda of the constructor *)
(*   the task    the thread that runs one job; the master is blocked in     *)
(*               thd.join() while it exists, so one counter serves both     *)
(*                                                                         *)
(* A step is a stretch of code between two points where another thread can  *)
(* interfere: a critical section of queue_mutex_ is one step unless it       *)
(* blocks, and only the master's does (the predicate waits up to 1 ms for    *)
(* the exit future with the mutex held).                                    *)
(*                                                                         *)
(* Not part of the contract, so excluded by guards: a call on a sequence     *)
(* that is not yet constructed or already destroyed, a destructor that       *)
(* returns while another thread is inside a call, and an attach_job that     *)
(* assigns last_future_ while the owner waits on it.                        *)
(***************************************************************************)
EXTENDS Naturals, Sequences

CONSTANTS
  Jobs,         \* the functions given to attach_job, each at most once
  Owner,        \* the thread that owns the sequence
  Attachers,    \* the threads that attach jobs
  Stoppers,     \* the threads that call stop()
  FatalThrows,  \* whether logs::fatal throws, as the default logger does
  None          \* no job

Clients == {Owner} \cup Attachers \cup Stoppers

ASSUME NoneIsNoJob == None \notin Jobs

ASSUME FatalThrowsIsBoolean == FatalThrows \in BOOLEAN

VARIABLES
  pc,       \* where each client is in its current call
  arg,      \* the job each client is attaching
  mpc,      \* where the master and its task thread are
  cur,      \* the job the master took from the queue
  saw,      \* the exit future the master's predicate read: "own" or "stale"
  tasks,    \* tasks_
  st,       \* what became of each job; it stands for the job's future as well
  last,     \* the job whose future last_future_ is
  stopSig,  \* stop_signal_ has its value
  stopped,  \* stopped_
  exitSig,  \* master_.exit_signal_ has its value
  late     \* history: calls of each job that began after stopSig was set

vars == <<pc, arg, mpc, cur, saw, tasks, st, last, stopSig, stopped, exitSig, late>>

masterVars == <<mpc, cur, saw, late>>
clientVars == <<pc, arg, last, stopped>>

-------------------------------------------------------------------------------

\* The owner is still inside the constructor.
Constructing == pc[Owner] \in {"ctor_signal", "ctor_future"}

\* Clients other than the owner may call the sequence.
Usable == ~Constructing /\ pc[Owner] # "dead"

\* The master holds queue_mutex_ across a blocking wait; no other holder blocks.
QueueLocked == mpc = "pred"

\* A job whose future is ready: it ended, or its task was destroyed unrun.
Settled(j) == st[j] \in {"done", "cancelled", "rejected"}

\* A bug: the dropped tasks keep their promises.
MutCancelNothing == st

\* Destroying the packaged_tasks of tasks_ breaks their promises.
CancelQueued == [j \in Jobs |-> IF st[j] = "queued" THEN "cancelled" ELSE st[j]]

\* A bug: no notification is sent.
MutNotifyLost == UNCHANGED mpc

\* condition_.notify_one(): the master is the only thread that ever waits.
NotifyOne == mpc' = IF mpc = "wait" THEN "woken" ELSE mpc

-------------------------------------------------------------------------------
\* The constructor's last statement move-assigns the ManagedJob whose thread
\* is running already: first the promise, then the future the master reads.

ConstructMoveSignal ==
  /\ pc[Owner] = "ctor_signal"
  /\ pc' = [pc EXCEPT ![Owner] = "ctor_future"]
  /\ UNCHANGED <<arg, last, stopped, masterVars, tasks, st, stopSig, exitSig>>

ConstructMoveFuture ==
  /\ pc[Owner] = "ctor_future"
  /\ pc' = [pc EXCEPT ![Owner] = "idle"]
  /\ UNCHANGED <<arg, last, stopped, masterVars, tasks, st, stopSig, exitSig>>

-------------------------------------------------------------------------------
\* attach_job: last_future_ is assigned before the lock is taken.

AttachPrepare(c, j) ==
  /\ c \in Attachers
  /\ Usable
  /\ pc[c] = "idle"
  /\ pc[Owner] # "join"
  /\ st[j] = "fresh"
  /\ st' = [st EXCEPT ![j] = "attaching"]
  /\ last' = j
  /\ arg' = [arg EXCEPT ![c] = j]
  /\ pc' = [pc EXCEPT ![c] = "attach"]
  /\ UNCHANGED <<stopped, masterVars, tasks, stopSig, exitSig>>

\* A bug: the stop signal is looked at where stopped_ should be.
MutRefused == stopSig /\ ~stopped /\ FatalThrows

\* The locked section refuses the job: fatal throws while stopped_ is set.
Refused == stopped /\ FatalThrows

AttachPush(c) ==
  /\ pc[c] = "attach"
  /\ ~QueueLocked
  /\ IF Refused
       THEN /\ st' = [st EXCEPT ![arg[c]] = "rejected"]
            /\ pc' = [pc EXCEPT ![c] = "idle"]
            /\ tasks' = tasks
       ELSE /\ st' = [st EXCEPT ![arg[c]] = "queued"]
            /\ pc' = [pc EXCEPT ![c] = "notify"]
            /\ tasks' = Append(tasks, arg[c])
  /\ arg' = [arg EXCEPT ![c] = None]
  /\ UNCHANGED <<last, stopped, masterVars, stopSig, exitSig>>

AttachNotify(c) ==
  /\ pc[c] = "notify"
  /\ pc' = [pc EXCEPT ![c] = "idle"]
  /\ NotifyOne
  /\ UNCHANGED <<arg, last, stopped, cur, saw, late, tasks, st, stopSig, exitSig>>

-------------------------------------------------------------------------------
\* stop(): one critical section that drops the queue, sets the stop signal
\* (a second set_value throws and is swallowed) and notifies.

StopBody ==
  /\ ~QueueLocked
  /\ tasks' = <<>>
  /\ st' = CancelQueued
  /\ stopSig' = TRUE
  /\ NotifyOne
  /\ UNCHANGED <<cur, saw, late, exitSig>>

StopCall(c) ==
  /\ c \in Stoppers
  /\ Usable
  /\ pc[c] = "idle"
  /\ StopBody
  /\ UNCHANGED clientVars

\* join(): waits on the future of the job attached last.
JoinBegin ==
  /\ pc[Owner] = "idle"
  /\ last # None
  /\ pc' = [pc EXCEPT ![Owner] = "join"]
  /\ UNCHANGED <<arg, last, stopped, masterVars, tasks, st, stopSig, exitSig>>

\* A bug: a job still in tasks_ counts as over.
MutJoinReady == Settled(last) \/ (st[last] = "queued" /\ mpc = "poll")

\* The future join() waits on is ready.
JoinReady == Settled(last)

JoinReturn ==
  /\ pc[Owner] = "join"
  /\ JoinReady
  /\ pc' = [pc EXCEPT ![Owner] = "idle"]
  /\ UNCHANGED <<arg, last, stopped, masterVars, tasks, st, stopSig, exitSig>>

-------------------------------------------------------------------------------
\* ~Sequence: stopped_ = true; stop(); master_.stop(); master_.join().

DestroyBegin ==
  /\ pc[Owner] = "idle"
  /\ stopped' = TRUE
  /\ pc' = [pc EXCEPT ![Owner] = "dtor_stop"]
  /\ UNCHANGED <<arg, last, masterVars, tasks, st, stopSig, exitSig>>

DestroyStop ==
  /\ pc[Owner] = "dtor_stop"
  /\ StopBody
  /\ pc' = [pc EXCEPT ![Owner] = "dtor_signal"]
  /\ UNCHANGED <<arg, last, stopped>>

DestroySignal ==
  /\ pc[Owner] = "dtor_signal"
  /\ exitSig' = TRUE
  /\ pc' = [pc EXCEPT ![Owner] = "dtor_join"]
  /\ UNCHANGED <<arg, last, stopped, masterVars, tasks, st, stopSig>>

\* A bug: the thread is taken for ended once it was signalled.
MutMasterJoinable == exitSig

\* master_.join() can return: the master's thread has ended.
MasterJoinable == mpc = "exited"

\* After the join the members go, tasks_ with them.
DestroyJoin ==
  /\ pc[Owner] = "dtor_join"
  /\ MasterJoinable
  /\ \A c \in Clients \ {Owner} : pc[c] = "idle"
  /\ pc' = [pc EXCEPT ![Owner] = "dead"]
  /\ tasks' = <<>>
  /\ st' = CancelQueued
  /\ UNCHANGED <<arg, last, stopped, masterVars, stopSig, exitSig>>

-------------------------------------------------------------------------------
\* The master: one round of the ManagedJob loop calls the lambda once.

\* The lambda takes queue_mutex_ and the predicate reads seq->master_'s exit
\* future. Until the constructor's assignment is over that member still names
\* the state of the default-constructed ManagedJob.
MasterLock ==
  /\ mpc \in {"top", "woken"}
  /\ mpc' = "pred"
  /\ saw' = IF Constructing THEN "stale" ELSE "own"
  /\ UNCHANGED <<clientVars, cur, late, tasks, st, stopSig, exitSig>>

\* The stale state is broken once its promise was assigned over, and freed once
\* the future was: a predicate still waiting on it then may see either answer.
ExitReady ==
  \/ saw = "own" /\ exitSig
  \/ saw = "stale" /\ pc[Owner] # "ctor_signal"

ExitTimedOut ==
  \/ saw = "own" /\ ~exitSig
  \/ saw = "stale" /\ pc[Owner] # "ctor_future"

\* A bug: the back of tasks_ is taken.
MutMasterTake ==
  /\ cur' = tasks[Len(tasks)]
  /\ tasks' = SubSeq(tasks, 1, Len(tasks) - 1)
  /\ st' = [st EXCEPT ![tasks[Len(tasks)]] = "running"]
  /\ mpc' = "spawn"

\* The job the lambda takes: the front of tasks_.
MasterTake ==
  /\ cur' = Head(tasks)
  /\ tasks' = Tail(tasks)
  /\ st' = [st EXCEPT ![Head(tasks)] = "running"]
  /\ mpc' = "spawn"

\* The predicate is true: the lambda takes a task, or returns if there is none.
MasterProceed ==
  /\ mpc = "pred"
  /\ ExitReady \/ (ExitTimedOut /\ tasks # <<>>)
  /\ IF tasks = <<>>
       THEN mpc' = "poll" /\ UNCHANGED <<cur, tasks, st>>
       ELSE MasterTake
  /\ UNCHANGED <<clientVars, saw, late, stopSig, exitSig>>

\* The predicate is false: condition_.wait releases the mutex and blocks.
MasterWait ==
  /\ mpc = "pred"
  /\ ExitTimedOut
  /\ tasks = <<>>
  /\ mpc' = "wait"
  /\ UNCHANGED <<clientVars, cur, saw, late, tasks, st, stopSig, exitSig>>

\* A condition variable may wake without a notification.
SpuriousWake ==
  /\ mpc = "wait"
  /\ mpc' = "woken"
  /\ UNCHANGED <<clientVars, cur, saw, late, tasks, st, stopSig, exitSig>>

\* The bound of the history counter: one more than StopIsPrompt allows.
LateBound == 2

CountLateCall ==
  IF stopSig /\ late[cur] < LateBound
    THEN [late EXCEPT ![cur] = @ + 1]
    ELSE late

\* The thread of the task starts and calls job(0).
TaskStart ==
  /\ mpc = "spawn"
  /\ mpc' = "call"
  /\ late' = CountLateCall
  /\ UNCHANGED <<clientVars, cur, saw, tasks, st, stopSig, exitSig>>

\* The task ends and its future becomes ready.
TaskEnds ==
  /\ st' = [st EXCEPT ![cur] = "done"]
  /\ mpc' = "joining"

\* job(i) returns true, or throws into the packaged_task: either way it ends.
CallEnds ==
  /\ mpc = "call"
  /\ TaskEnds
  /\ UNCHANGED <<clientVars, cur, saw, late, tasks, stopSig, exitSig>>

\* job(i) returns false: it is called again unless the sequence was stopped.
CallUnfinished ==
  /\ mpc = "call"
  /\ mpc' = "check"
  /\ UNCHANGED <<clientVars, cur, saw, late, tasks, st, stopSig, exitSig>>

\* A bug: the task looks at stopped_, which stop() does not set.
MutTaskMayGoOn == ~stopped

\* stop_future_.wait_for returned ready / timed out.
TaskMayGoOn == ~stopSig

TaskCheck ==
  /\ mpc = "check"
  /\ IF TaskMayGoOn
       THEN /\ mpc' = "call"
            /\ late' = CountLateCall
            /\ st' = st
       ELSE TaskEnds /\ late' = late
  /\ UNCHANGED <<clientVars, cur, saw, tasks, stopSig, exitSig>>

\* thd.join() returns and the lambda is over.
MasterJoinsTask ==
  /\ mpc = "joining"
  /\ mpc' = "poll"
  /\ cur' = None
  /\ UNCHANGED <<clientVars, saw, late, tasks, st, stopSig, exitSig>>

\* A bug: stop_it was copied from the wrong promise and never gets ready.
MutLoopEnds == FALSE

\* The ManagedJob loop: stop_it is its own copy of the right exit future.
LoopEnds == exitSig

MasterPoll ==
  /\ mpc = "poll"
  /\ mpc' = IF LoopEnds THEN "exited" ELSE "top"
  /\ UNCHANGED <<clientVars, cur, saw, late, tasks, st, stopSig, exitSig>>

-------------------------------------------------------------------------------

Init ==
  /\ pc = [c \in Clients |-> IF c = Owner THEN "ctor_signal" ELSE "idle"]
  /\ arg = [c \in Clients |-> None]
  /\ mpc = "top"
  /\ cur = None
  /\ saw = "stale"
  /\ tasks = <<>>
  /\ st = [j \in Jobs |-> "fresh"]
  /\ last = None
  /\ stopSig = FALSE
  /\ stopped = FALSE
  /\ exitSig = FALSE
  /\ late = [j \in Jobs |-> 0]

Construct == ConstructMoveSignal \/ ConstructMoveFuture

Attach(c) == (\E j \in Jobs : AttachPrepare(c, j)) \/ AttachPush(c) \/ AttachNotify(c)

Destroy == DestroyBegin \/ DestroyStop \/ DestroySignal \/ DestroyJoin

Master == MasterLock \/ MasterProceed \/ MasterWait \/ MasterJoinsTask \/ MasterPoll

Task == TaskStart \/ CallEnds \/ CallUnfinished \/ TaskCheck

Next ==
  \/ Construct
  \/ \E c \in Clients : Attach(c) \/ StopCall(c)
  \/ JoinBegin
  \/ JoinReturn
  \/ Destroy
  \/ Master
  \/ Task
  \/ SpuriousWake

Spec == Init /\ [][Next]_vars

\* Every thread that can go on goes on, a thread that waits for queue_mutex_ gets
\* it in the end if it is released again and again, a call once begun is carried
\* on, and a job's call returns. Nobody has to attach, stop, join or destroy, and
\* a waiting thread need not wake without a notification.
Fairness ==
  /\ WF_vars(Construct)
  /\ \A c \in Clients : SF_vars(AttachPush(c)) /\ WF_vars(AttachNotify(c))
  /\ WF_vars(JoinReturn)
  /\ SF_vars(DestroyStop) /\ WF_vars(DestroySignal) /\ WF_vars(DestroyJoin)
  /\ WF_vars(Master)
  /\ WF_vars(Task)

FairSpec == Spec /\ Fairness

\* A premise of JoinReturns: no job returns false forever.
JobsEnd == SF_vars(CallEnds)

-------------------------------------------------------------------------------

ClientPcs == {"idle", "attach", "notify"}
OwnerPcs == ClientPcs \cup {"ctor_signal", "ctor_future", "join", "dtor_stop",
                            "dtor_signal", "dtor_join", "dead"}
MasterPcs == {"top", "pred", "wait", "woken", "spawn", "call", "check",
              "joining", "poll", "exited"}
JobStates == {"fresh", "attaching", "queued", "running", "done", "cancelled",
              "rejected"}

\* Type invariant.
TypeOK ==
  /\ pc \in [Clients -> OwnerPcs]
  /\ \A c \in Clients \ {Owner} : pc[c] \in ClientPcs
  /\ arg \in [Clients -> Jobs \cup {None}]
  /\ mpc \in MasterPcs
  /\ cur \in Jobs \cup {None}
  /\ saw \in {"own", "stale"}
  /\ tasks \in Seq(Jobs)
  /\ st \in [Jobs -> JobStates]
  /\ last \in Jobs \cup {None}
  /\ stopSig \in BOOLEAN
  /\ stopped \in BOOLEAN
  /\ exitSig \in BOOLEAN
  /\ late \in [Jobs -> 0 .. LateBound]

\* No lost wakeup of an attached job: while the master sleeps in
\* condition_.wait with work in tasks_, an attach_job that has released the
\* mutex still has its notify_one to come (sequence.hpp:91-100).
NoLostWakeup ==
  (mpc = "wait" /\ tasks # <<>>) => \E c \in Clients : pc[c] = "notify"

\* stop() is prompt: however it interleaves with the job thread's 1 ms polls of
\* stop_future_, no job is called more than once after stop_signal_ was set
\* (sequence.hpp:77-88).
StopIsPrompt == \A j \in Jobs : late[j] <= 1

\* The destructor admits no job: once its stop() has emptied tasks_, stopped_
\* makes every attach_job still in flight throw instead of queueing a job that
\* nobody would run (sequence.hpp:62-63 against :93-97).
DestructorAdmitsNoJob ==
  pc[Owner] \in {"dtor_signal", "dtor_join", "dead"} => tasks = <<>>

\* A destroyed sequence leaves no thread and no waiter behind: the master has
\* ended, no job runs, and every attached job's future is ready.
QuietAfterDestruction ==
  pc[Owner] = "dead" =>
    /\ mpc = "exited"
    /\ \A j \in Jobs : st[j] = "fresh" \/ Settled(j)

\* join() joins all jobs (sequence.hpp:110), unless stop() broke the promise it
\* waits on while an earlier job runs. With the owner as the only attacher and no
\* stop, no attached job is waiting or running when join() returns.
JoinWaitsForAll ==
  [][(pc[Owner] = "join" /\ pc'[Owner] = "idle" /\ ~stopSig)
       => \A j \in Jobs : st[j] = "fresh" \/ Settled(j)]_vars

\* The master's program points at which a job has begun and not ended.
TaskPcs == {"spawn", "call", "check"}

Active == IF mpc \in TaskPcs THEN cur ELSE None
Completed == {j \in Jobs : st[j] = "done"}
Dropped == {j \in Jobs : st[j] \in {"cancelled", "rejected"}}

SJ == INSTANCE SerialJobs WITH
        waiting <- tasks, active <- Active, completed <- Completed, dropped <- Dropped

\* The promise to the caller, however attachers, stop() and the destructor
\* interleave: jobs run one at a time and in attach order (sequence.hpp:68).
ImplementsSerialJobs == SJ!Spec

-------------------------------------------------------------------------------
\* The inductive invariant behind the safety properties.

\* A client inside attach_job brings a job that nobody else has.
AttachingInv ==
  /\ \A c \in Clients : pc[c] = "attach" => arg[c] \in Jobs /\ st[arg[c]] = "attaching"
  /\ \A c, d \in Clients :
       pc[c] = "attach" /\ pc[d] = "attach" /\ arg[c] = arg[d] => c = d
  /\ \A j \in Jobs :
       st[j] = "attaching" => \E c \in Clients : pc[c] = "attach" /\ arg[c] = j

\* tasks_ holds the queued jobs, each once.
QueueInv ==
  /\ \A i \in 1 .. Len(tasks) : st[tasks[i]] = "queued"
  /\ \A i, k \in 1 .. Len(tasks) : tasks[i] = tasks[k] => i = k
  /\ \A j \in Jobs : st[j] = "queued" => \E i \in 1 .. Len(tasks) : tasks[i] = j

\* The job in the task thread, and no other, is running.
RunningInv ==
  /\ mpc \in TaskPcs => cur \in Jobs /\ st[cur] = "running"
  /\ \A j \in Jobs : st[j] = "running" => mpc \in TaskPcs /\ cur = j

\* No job that has not begun was ever called.
LateInv ==
  /\ ~stopSig => \A j \in Jobs : late[j] = 0
  /\ \A j \in Jobs : st[j] \in {"fresh", "attaching", "queued"} => late[j] = 0
  /\ mpc = "spawn" => late[cur] = 0
  /\ \A j \in Jobs : late[j] <= 1

\* How far the destructor is, and what that rules out.
DestructionInv ==
  /\ pc[Owner] \in {"dtor_stop", "dtor_signal", "dtor_join", "dead"} => stopped
  /\ FatalThrows => DestructorAdmitsNoJob
  /\ pc[Owner] = "dead" =>
       /\ mpc = "exited"
       /\ \A c \in Clients \ {Owner} : pc[c] = "idle"
       /\ \A j \in Jobs : st[j] # "queued"

\* The inductive invariant.
IInv ==
  /\ TypeOK
  /\ AttachingInv
  /\ QueueInv
  /\ RunningInv
  /\ LateInv
  /\ DestructionInv
  /\ NoLostWakeup

-------------------------------------------------------------------------------

\* stop() brings the sequence to rest: every job that was queued or running
\* ends or is dropped, even one that never returns true (sequence.hpp:119).
StopSettlesAll ==
  stopSig ~> \A j \in Jobs : st[j] \notin {"queued", "running"}

\* If no job goes on forever, join() returns.
JoinReturns == JobsEnd => ((pc[Owner] = "join") ~> (pc[Owner] = "idle"))

\* A destructor that does not return has lost its wakeup: the master is back
\* in condition_.wait although the exit signal is set, because it evaluated the
\* predicate after stop()'s notify_one and before master_.stop(), and nothing
\* notifies it again (sequence.hpp:36-47 against :63-65).
DestructorHangsOnlyAsleep ==
  (pc[Owner] = "dtor_stop") ~> (pc[Owner] = "dead" \/ (mpc = "wait" /\ exitSig))

-------------------------------------------------------------------------------
\* A statement of the repository that the code does not keep.

\* managed_job.hpp:6 "thread wrapper that can terminate underlying thread",
\* and every test that lets a Sequence go out of scope: the destructor returns.
DestructorReturns == (pc[Owner] = "dtor_stop") ~> (pc[Owner] = "dead")
===============================================================================
