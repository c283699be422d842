----------------------------- MODULE OrderedSets ------------------------------
(***************************************************************************)
(* What estd::HashList promises: sequences in which every value occurs at    *)
(* most once. An operation that adds a value answers with an element of the  *)
(* sequence it was called on that has this value. HashList implements this.  *)
(***************************************************************************)
EXTENDS Naturals, SequencesExt

CONSTANTS Lists, Values

VARIABLES
  items,   \* of each list: its values in order
  answer   \* <<list, value>>: the element the last operation has returned, or <<>>

vars == <<items, answer>>

Init ==
  /\ items = [h \in Lists |-> <<>>]
  /\ answer = <<>>

\* v goes before position i, unless it is in the list.
Add(h, i, v) ==
  /\ items' = [items EXCEPT ![h] = IF Contains(@, v) THEN @ ELSE InsertAt(@, i, v)]
  /\ answer' = <<h, v>>

\* The value at position i goes.
Drop(h, i) ==
  /\ items' = [items EXCEPT ![h] = RemoveAt(@, i)]
  /\ answer' = <<>>

\* A list is emptied, or gets the values of another, which keeps or loses its own.
Replace(g, h, keeps) ==
  /\ items' = [items EXCEPT ![g] = items[h], ![h] = IF keeps THEN items[h] ELSE <<>>]
  /\ answer' = <<>>

Clear(h) ==
  /\ items' = [items EXCEPT ![h] = <<>>]
  /\ answer' = <<>>

Next ==
  \E h \in Lists :
    \/ \E i \in 1 .. Len(items[h]) + 1, v \in Values : Add(h, i, v)
    \/ \E i \in 1 .. Len(items[h]) : Drop(h, i)
    \/ \E g \in Lists \ {h}, keeps \in BOOLEAN : Replace(g, h, keeps)
    \/ Clear(h)

Spec == Init /\ [][Next]_vars
===============================================================================
