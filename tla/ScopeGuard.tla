------------------------------ MODULE ScopeGuard ------------------------------
(***************************************************************************)
(* jobs::ScopeGuard (jobs/scope_guard.hpp): an object that calls a function   *)
(* when it is destroyed or assigned over. The function can be moved from      *)
(* guard to guard; a std::function that was moved from is empty, which the   *)
(* code relies on and every library in use provides.                        *)
(*                                                                         *)
(* A call of the function may throw. The destructor is noexcept, so there    *)
(* the process terminates; from the assignment the exception goes to the     *)
(* caller, before anything was moved.                                       *)
(***************************************************************************)

CONSTANTS
  Guards,  \* the storage of ScopeGuard objects
  Ops,     \* the functions given to guards, each to one constructor
  None     \* the empty function

ASSUME NoneIsNoOp == None \notin Ops

VARIABLES
  live,   \* the guards that are constructed and not yet destroyed
  term,   \* term_ of each guard
  given,  \* the functions that were given to a guard
  ran,    \* those that were called
  again,  \* those that were called more than once
  threw,  \* those that threw into an assignment
  fate    \* of the process: "ok" or "terminated"

vars == <<live, term, given, ran, again, threw, fate>>

-------------------------------------------------------------------------------

\* The function of guard g is called, if it has one.
Run(g) ==
  /\ ran' = ran \cup ({term[g]} \ {None})
  /\ again' = again \cup ({term[g]} \cap ran)

Construct(g, op) ==
  /\ fate = "ok"
  /\ g \notin live
  /\ op \notin given
  /\ live' = live \cup {g}
  /\ term' = [term EXCEPT ![g] = op]
  /\ given' = given \cup ({op} \ {None})
  /\ UNCHANGED <<ran, again, threw, fate>>

\* A bug: the function is copied.
MutMoved(g, h) == [term EXCEPT ![g] = term[h]]

\* std::move(h.term_) into g
Moved(g, h) == [term EXCEPT ![g] = term[h], ![h] = None]

MoveConstruct(g, h) ==
  /\ fate = "ok"
  /\ g \notin live
  /\ h \in live
  /\ live' = live \cup {g}
  /\ term' = Moved(g, h)
  /\ UNCHANGED <<given, ran, again, threw, fate>>

\* The assignment calls the function it is about to overwrite.
AssignRuns(g) == Run(g)

MoveAssign(g, h) ==
  /\ fate = "ok"
  /\ {g, h} \subseteq live
  /\ g # h
  /\ AssignRuns(g)
  /\ term' = Moved(g, h)
  /\ UNCHANGED <<live, given, threw, fate>>

\* The function throws, and g keeps it.
MoveAssignThrows(g, h) ==
  /\ fate = "ok"
  /\ {g, h} \subseteq live
  /\ g # h
  /\ term[g] # None
  /\ Run(g)
  /\ threw' = threw \cup {term[g]}
  /\ UNCHANGED <<live, term, given, fate>>

Destroy(g) ==
  /\ fate = "ok"
  /\ g \in live
  /\ Run(g)
  /\ live' = live \ {g}
  /\ term' = [term EXCEPT ![g] = None]
  /\ UNCHANGED <<given, threw, fate>>

DestroyThrows(g) ==
  /\ fate = "ok"
  /\ g \in live
  /\ term[g] # None
  /\ Run(g)
  /\ fate' = "terminated"
  /\ UNCHANGED <<live, term, given, threw>>

-------------------------------------------------------------------------------

Init ==
  /\ live = {}
  /\ term = [g \in Guards |-> None]
  /\ given = {}
  /\ ran = {}
  /\ again = {}
  /\ threw = {}
  /\ fate = "ok"

Next ==
  \/ \E g \in Guards, op \in Ops \cup {None} : Construct(g, op)
  \/ \E g, h \in Guards : MoveConstruct(g, h) \/ MoveAssign(g, h) \/ MoveAssignThrows(g, h)
  \/ \E g \in Guards : Destroy(g) \/ DestroyThrows(g)

Spec == Init /\ [][Next]_vars

-------------------------------------------------------------------------------

\* Type invariant.
TypeOK ==
  /\ live \subseteq Guards
  /\ term \in [Guards -> Ops \cup {None}]
  /\ {given, ran, again, threw} \subseteq SUBSET Ops
  /\ fate \in {"ok", "terminated"}

\* Through any number of moves a function that was not called yet is in the hands of
\* exactly one living guard, so none is lost (scope_guard.hpp:25-51).
UncalledIsHeld ==
  \A op \in given \ ran :
    \E g \in live : term[g] = op /\ \A h \in Guards \ {g} : term[h] # op

\* No function is called twice, except one that threw into an assignment: the guard
\* keeps that and calls it again (scope_guard.hpp:44-48).
CalledOnce == again \subseteq threw

\* The inductive invariant: who holds what, and why.
HoldersInv ==
  /\ \A g \in Guards : term[g] # None => g \in live /\ term[g] \in given
  /\ \A g, h \in Guards : term[g] = term[h] /\ term[g] # None => g = h
  /\ ran \subseteq given
  /\ fate = "ok" => \A g \in Guards : term[g] \in ran => term[g] \in threw

IInv == TypeOK /\ HoldersInv /\ UncalledIsHeld /\ CalledOnce
===============================================================================
