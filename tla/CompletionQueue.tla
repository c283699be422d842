--------------------------- MODULE CompletionQueue ----------------------------
(***************************************************************************)
(* grpc::CompletionQueue, as egrpc uses it through iCQueue (icqueue.hpp,     *)
(* iserver_async.hpp:18-59): handlers start operations that carry their own  *)
(* address as tag, grpc completes each with a flag, and threads that poll    *)
(* the queue take the completions. Nothing orders the completions of         *)
(* different operations, and each is taken by one thread only.               *)
(***************************************************************************)

VARIABLES
  started,  \* the operations grpc is working on
  events    \* the completions no thread has taken yet

cqVars == <<started, events>>

CQInit == started = {} /\ events = {}

StartOp(op) == started' = started \cup {op}

CompleteOp(op, ok) ==
  /\ op \in started
  /\ started' = started \ {op}
  /\ events' = events \cup {[op |-> op, ok |-> ok]}

\* next(&tag, &ok)
TakeEvent(e) ==
  /\ e \in events
  /\ events' = events \ {e}

\* The operations that are under way or completed and not taken.
Outstanding == started \cup {e.op : e \in events}
===============================================================================
