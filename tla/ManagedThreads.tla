---------------------------- MODULE ManagedThreads ----------------------------
(***************************************************************************)
(* What jobs::ManagedJob promises about the threads it starts               *)
(* (managed_job.hpp:6 and :19): a thread calls its job at least once and    *)
(* again until it is asked to stop, and it ends only when it was asked.     *)
(* Which handle asks, by stop(), by its destructor or by being assigned     *)
(* over, is not part of the promise; module ManagedJob implements it.       *)
(***************************************************************************)

CONSTANT Threads

VARIABLES
  phase,  \* "unborn", "fresh" (no call has ended yet), "running" or "gone"
  asked   \* the threads that were asked to stop

vars == <<phase, asked>>

Init == phase = [t \in Threads |-> "unborn"] /\ asked = {}

\* Thread t goes from one of the phases in from to the phase to.
Go(t, from, to) == phase[t] \in from /\ phase' = [phase EXCEPT ![t] = to]

Start(t) == Go(t, {"unborn"}, "fresh") /\ UNCHANGED asked

Round(t) == Go(t, {"fresh", "running"}, "running") /\ UNCHANGED asked

Ask(t) == phase[t] # "unborn" /\ asked' = asked \cup {t} /\ UNCHANGED phase

End(t) == t \in asked /\ Go(t, {"running"}, "gone") /\ UNCHANGED asked

Next == \E t \in Threads : Start(t) \/ Round(t) \/ Ask(t) \/ End(t)

Spec == Init /\ [][Next]_vars
===============================================================================
