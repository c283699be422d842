----------------------------- MODULE ManagedJob -------------------------------
(***************************************************************************)
(* jobs::ManagedJob (jobs/managed_job.hpp): a handle that owns a thread, the *)
(* promise that asks the thread to stop and a shared future of that promise. *)
(* Handles are constructed, moved, stopped, joined and destroyed by several  *)
(* callers; the threads outlive handles that are assigned over.             *)
(*                                                                         *)
(* Every construction makes one shared state; the thread that a construction *)
(* starts, if it starts one, has the name of its state. A state whose        *)
(* promise was destroyed unset is ready as well (broken_promise), and its    *)
(* promise can no longer be reached, so "ready" stands for both.            *)
(*                                                                         *)
(* Not part of the contract, so excluded by guards: a destructor or a move   *)
(* of a handle while another call on it is under way, two joins of a handle  *)
(* at once, and a job that throws (it leaves the thread and terminates).    *)
(***************************************************************************)
EXTENDS Naturals

CONSTANTS
  Handles,  \* the storage of ManagedJob objects
  States,   \* the shared states, one for each construction
  Callers,  \* the threads that use the handles
  None      \* no state, no thread, no handle

ASSUME NoneIsNothing == None \notin States \cup Handles

VARIABLES
  live,    \* the handles that are constructed and not yet destroyed
  signal,  \* exit_signal_ of each handle: its state, or None if moved from
  future,  \* exit_future_ of each handle
  job,     \* job_ of each handle: the thread, or None if not joinable
  state,   \* each shared state: "unused", "pending" or "ready"
  thread,  \* each thread: "none", "first" or "job" (calling it), "poll", "ended"
  pc,      \* where each caller is in its current call
  obj,     \* the handle of that call
  fate     \* of the process: "ok", or the call that led to std::terminate

vars == <<live, signal, future, job, state, thread, pc, obj, fate>>

handleVars == <<live, signal, future, job>>

-------------------------------------------------------------------------------

Idle(c) == fate = "ok" /\ pc[c] = "idle"

\* No call on h is under way.
Exclusive(h) == \A c \in Callers : pc[c] # "idle" => obj[c] # h

\* h may be used, if only concurrently with stop() and join().
Shareable(h) ==
  h \in live /\ \A c \in Callers : obj[c] = h => pc[c] \in {"idle", "stop", "join"}

joinable(h) == job[h] # None

\* exit_signal_.set_value()
SetValue(s) == [state EXCEPT ![s] = "ready"]

\* A promise that has no state or that was set before throws instead.
CanSetValue(h) == signal[h] # None /\ state[signal[h]] = "pending"

\* A promise that is destroyed or assigned over unset breaks its state.
Abandon(s) == IF s = None THEN state ELSE [state EXCEPT ![s] = "ready"]

\* A bug: the source keeps what is moved out of it.
MutMoved(f, h, g) == [f EXCEPT ![h] = f[g]]

\* A member of handle g is moved into handle h.
Moved(f, h, g) == [f EXCEPT ![h] = f[g], ![g] = None]

-------------------------------------------------------------------------------

ConstructEmpty(c, h, s) ==
  /\ Idle(c)
  /\ h \notin live
  /\ state[s] = "unused"
  /\ live' = live \cup {h}
  /\ signal' = [signal EXCEPT ![h] = s]
  /\ future' = [future EXCEPT ![h] = s]
  /\ state' = [state EXCEPT ![s] = "pending"]
  /\ UNCHANGED <<job, thread, pc, obj, fate>>

\* A bug: a while loop instead of the do-while.
MutFirstStep == "poll"

\* The loop calls the job before it looks at the future.
FirstStep == "first"

Construct(c, h, s) ==
  /\ Idle(c)
  /\ h \notin live
  /\ state[s] = "unused"
  /\ live' = live \cup {h}
  /\ signal' = [signal EXCEPT ![h] = s]
  /\ future' = [future EXCEPT ![h] = s]
  /\ job' = [job EXCEPT ![h] = s]
  /\ state' = [state EXCEPT ![s] = "pending"]
  /\ thread' = [thread EXCEPT ![s] = FirstStep]
  /\ UNCHANGED <<pc, obj, fate>>

\* stop() returns at once if the job is not joinable; otherwise it sets the
\* value, and throws to its caller, changing nothing, if that was done before.
StopCheck(c, h) ==
  /\ Idle(c)
  /\ Shareable(h)
  /\ joinable(h)
  /\ pc' = [pc EXCEPT ![c] = "stop"]
  /\ obj' = [obj EXCEPT ![c] = h]
  /\ UNCHANGED <<handleVars, state, thread, fate>>

StopSet(c) ==
  /\ fate = "ok"
  /\ pc[c] = "stop"
  /\ state' = IF CanSetValue(obj[c]) THEN SetValue(signal[obj[c]]) ELSE state
  /\ pc' = [pc EXCEPT ![c] = "idle"]
  /\ obj' = [obj EXCEPT ![c] = None]
  /\ UNCHANGED <<handleVars, thread, fate>>

JoinBegin(c, h) ==
  /\ Idle(c)
  /\ Shareable(h)
  /\ joinable(h)
  /\ \A d \in Callers : ~(pc[d] = "join" /\ obj[d] = h)
  /\ pc' = [pc EXCEPT ![c] = "join"]
  /\ obj' = [obj EXCEPT ![c] = h]
  /\ UNCHANGED <<handleVars, state, thread, fate>>

JoinEnd(c) ==
  /\ fate = "ok"
  /\ pc[c] = "join"
  /\ thread[job[obj[c]]] = "ended"
  /\ job' = [job EXCEPT ![obj[c]] = None]
  /\ pc' = [pc EXCEPT ![c] = "idle"]
  /\ obj' = [obj EXCEPT ![c] = None]
  /\ UNCHANGED <<live, signal, future, state, thread, fate>>

\* The destructor and the assignment ask a thread to stop under this condition.
MustSignal(h) == joinable(h) /\ future[h] # None

\* The destructor is noexcept: a set_value that throws terminates the process.
DestroyBegin(c, h) ==
  /\ Idle(c)
  /\ h \in live
  /\ Exclusive(h)
  /\ IF MustSignal(h) /\ ~CanSetValue(h)
       THEN fate' = "destructor" /\ UNCHANGED <<state, pc, obj>>
       ELSE /\ state' = IF MustSignal(h) THEN SetValue(signal[h]) ELSE state
            /\ pc' = [pc EXCEPT ![c] = "destroy"]
            /\ obj' = [obj EXCEPT ![c] = h]
            /\ fate' = fate
  /\ UNCHANGED <<handleVars, thread>>

\* A bug: the destructor does not wait for the thread.
MutDestroyMayEnd(h) == TRUE

\* join() in the destructor: nothing to join, or the thread has ended.
DestroyMayEnd(h) == joinable(h) => thread[job[h]] = "ended"

DestroyEnd(c) ==
  /\ fate = "ok"
  /\ pc[c] = "destroy"
  /\ LET h == obj[c] IN
       /\ DestroyMayEnd(h)
       /\ live' = live \ {h}
       /\ state' = Abandon(signal[h])
       /\ signal' = [signal EXCEPT ![h] = None]
       /\ future' = [future EXCEPT ![h] = None]
       /\ job' = [job EXCEPT ![h] = None]
  /\ pc' = [pc EXCEPT ![c] = "idle"]
  /\ obj' = [obj EXCEPT ![c] = None]
  /\ UNCHANGED <<thread, fate>>

\* h = std::move(g): the thread of h is asked to stop and detached, unless
\* set_value throws, which leaves both handles as they were.
MoveAssign(c, h, g) ==
  /\ Idle(c)
  /\ {h, g} \subseteq live
  /\ h # g
  /\ Exclusive(h) /\ Exclusive(g)
  /\ MustSignal(h) => CanSetValue(h)
  /\ state' = IF MustSignal(h) THEN SetValue(signal[h]) ELSE Abandon(signal[h])
  /\ signal' = Moved(signal, h, g)
  /\ future' = Moved(future, h, g)
  /\ job' = Moved(job, h, g)
  /\ UNCHANGED <<live, thread, pc, obj, fate>>

\* ManagedJob h(std::move(g)): get_future throws, since the future of g's promise
\* was taken when g was constructed, and the members built so far are destroyed.
\* That terminates the process if one of them is a joinable thread.
MoveConstruct(c, g) ==
  /\ Idle(c)
  /\ g \in live
  /\ Exclusive(g)
  /\ IF joinable(g)
       THEN fate' = "move constructor" /\ UNCHANGED <<signal, state>>
       ELSE /\ state' = Abandon(signal[g])
            /\ signal' = [signal EXCEPT ![g] = None]
            /\ fate' = fate
  /\ UNCHANGED <<live, future, job, thread, pc, obj>>

-------------------------------------------------------------------------------
\* The loop of a thread, which has its own copy of the future.

JobReturns(s) ==
  /\ fate = "ok"
  /\ thread[s] \in {"first", "job"}
  /\ thread' = [thread EXCEPT ![s] = "poll"]
  /\ UNCHANGED <<handleVars, state, pc, obj, fate>>

\* A bug: the loop looks at the future of its handle instead of its copy.
MutLoopEnds(s) == \E h \in live : job[h] = s /\ state[future[h]] = "ready"

LoopEnds(s) == state[s] = "ready"

Poll(s) ==
  /\ fate = "ok"
  /\ thread[s] = "poll"
  /\ thread' = [thread EXCEPT ![s] = IF LoopEnds(s) THEN "ended" ELSE "job"]
  /\ UNCHANGED <<handleVars, state, pc, obj, fate>>

-------------------------------------------------------------------------------

Init ==
  /\ live = {}
  /\ signal = [h \in Handles |-> None]
  /\ future = [h \in Handles |-> None]
  /\ job = [h \in Handles |-> None]
  /\ state = [s \in States |-> "unused"]
  /\ thread = [s \in States |-> "none"]
  /\ pc = [c \in Callers |-> "idle"]
  /\ obj = [c \in Callers |-> None]
  /\ fate = "ok"

Call(c, h) ==
  \/ \E s \in States : ConstructEmpty(c, h, s) \/ Construct(c, h, s)
  \/ StopCheck(c, h)
  \/ JoinBegin(c, h)
  \/ DestroyBegin(c, h)
  \/ \E g \in Handles : MoveAssign(c, h, g)
  \/ MoveConstruct(c, h)

Return(c) == StopSet(c) \/ JoinEnd(c) \/ DestroyEnd(c)

Thread(s) == JobReturns(s) \/ Poll(s)

Next ==
  \/ \E c \in Callers : Return(c) \/ \E h \in Handles : Call(c, h)
  \/ \E s \in States : Thread(s)

Spec == Init /\ [][Next]_vars

\* Threads and calls under way go on; a job returns. Nobody has to make a call.
Fairness ==
  /\ \A c \in Callers : WF_vars(Return(c))
  /\ \A s \in States : WF_vars(Thread(s))

FairSpec == Spec /\ Fairness

-------------------------------------------------------------------------------

\* Type invariant.
TypeOK ==
  /\ live \subseteq Handles
  /\ signal \in [Handles -> States \cup {None}]
  /\ future \in [Handles -> States \cup {None}]
  /\ job \in [Handles -> States \cup {None}]
  /\ state \in [States -> {"unused", "pending", "ready"}]
  /\ thread \in [States -> {"none", "first", "job", "poll", "ended"}]
  /\ pc \in [Callers -> {"idle", "stop", "join", "destroy"}]
  /\ obj \in [Callers -> Handles \cup {None}]
  /\ fate \in {"ok", "destructor", "move constructor"}

Running(s) == thread[s] \in {"first", "job", "poll"}

\* No sequence of constructions, moves and destructions loses a thread: one that
\* runs unasked is owned by exactly one handle, which is alive and has the
\* promise and the future that go with it (managed_job.hpp:55-78).
RunningThreadHasOneOwner ==
  \A s \in States :
    Running(s) /\ state[s] = "pending" =>
      \E h \in live :
        /\ job[h] = s /\ signal[h] = s /\ future[h] = s
        /\ \A g \in Handles \ {h} : s \notin {job[g], signal[g], future[g]}

\* A running thread leaves its handle in two ways only, whichever calls are made:
\* it moves to another live handle, or it was asked to stop and its handle lives
\* on because it was assigned over. So a destructor leaves no thread behind, and
\* join() never gives up a running one (managed_job.hpp:44-51, :68-75, :96-102).
RunningThreadIsNotDropped ==
  [][\A h \in Handles, s \in States :
       (job[h] = s /\ job'[h] # s /\ Running(s)) =>
         \/ \E g \in live' : job'[g] = s
         \/ state'[s] = "ready" /\ h \in live']_vars

\* Whoever is asked to stop ends, detached or not (managed_job.hpp:105-111).
AskedThreadEnds ==
  \A s \in States :
    (state[s] = "ready" /\ Running(s)) ~> (thread[s] = "ended" \/ fate # "ok")

Phase(s) ==
  CASE thread[s] = "none" -> "unborn"
    [] thread[s] = "first" -> "fresh"
    [] thread[s] \in {"job", "poll"} -> "running"
    [] thread[s] = "ended" -> "gone"

MT == INSTANCE ManagedThreads WITH
        Threads <- States,
        phase <- [s \in States |-> Phase(s)],
        asked <- {s \in States : thread[s] # "none" /\ state[s] = "ready"}

\* Every thread calls its job at least once and ends only when it was asked,
\* however its handle is moved, stopped and destroyed (managed_job.hpp:19).
ImplementsManagedThreads == MT!Spec
===============================================================================
