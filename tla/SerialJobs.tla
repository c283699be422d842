------------------------------ MODULE SerialJobs ------------------------------
(***************************************************************************)
(* What jobs::Sequence promises to the code that attaches jobs to it       *)
(* (sequence.hpp:5-6 and :68): the jobs run one at a time, in the order in   *)
(* which they were attached, and a job that has not begun may be dropped.   *)
(* Threads, the queue's lock, the condition variable and the futures are    *)
(* not part of the promise; module JobSequence has them and implements it.  *)
(***************************************************************************)
EXTENDS Sequences

CONSTANTS
  Jobs,  \* the functions that are attached, each at most once
  None   \* no job

VARIABLES
  waiting,    \* the attached jobs that have not begun, in attach order
  active,     \* the job that is running, or None
  completed,  \* the jobs that ran and ended
  dropped     \* the jobs that will never begin

vars == <<waiting, active, completed, dropped>>

Members(s) == {s[i] : i \in DOMAIN s}

\* The jobs that were submitted or refused before.
Known == Members(waiting) \cup {active} \cup completed \cup dropped

Init ==
  /\ waiting = <<>>
  /\ active = None
  /\ completed = {}
  /\ dropped = {}

Submit(j) ==
  /\ j \notin Known
  /\ waiting' = Append(waiting, j)
  /\ UNCHANGED <<active, completed, dropped>>

Refuse(j) ==
  /\ j \notin Known
  /\ dropped' = dropped \cup {j}
  /\ UNCHANGED <<waiting, active, completed>>

\* Only the oldest waiting job may begin, and only when no job is running.
Begin ==
  /\ active = None
  /\ waiting # <<>>
  /\ active' = Head(waiting)
  /\ waiting' = Tail(waiting)
  /\ UNCHANGED <<completed, dropped>>

End ==
  /\ active # None
  /\ completed' = completed \cup {active}
  /\ active' = None
  /\ UNCHANGED <<waiting, dropped>>

DropWaiting ==
  /\ dropped' = dropped \cup Members(waiting)
  /\ waiting' = <<>>
  /\ UNCHANGED <<active, completed>>

Next ==
  \/ \E j \in Jobs : Submit(j) \/ Refuse(j)
  \/ Begin
  \/ End
  \/ DropWaiting

Spec == Init /\ [][Next]_vars
===============================================================================
