------------------------------ MODULE ConfigMap -------------------------------
(***************************************************************************)
(* estd::ConfigMap (estd/config.hpp): a map from keys to entries, which the   *)
(* copies of the map share. An entry holds an object and the function that   *)
(* deletes it when the last holder of the entry goes. add_entry looks for the *)
(* key, calls the program's init for the object, and then tries to emplace    *)
(* the entry: init may add to the same map, or throw. An entry by itself can  *)
(* be moved, and one that is assigned over forgets its object.               *)
(*                                                                         *)
(* Not in the model: deletion functions that use the map, and a map that is   *)
(* destroyed while it is in an add_entry.                                   *)
(***************************************************************************)
EXTENDS Naturals, Sequences, Functions

CONSTANTS
  Maps,     \* the storage of ConfigMap objects
  Keys,
  Objs,     \* the objects that init functions make, one entry each
  Loose,    \* the storage of ConfigEntry objects outside of maps
  None,
  MaxDepth  \* bound: the nesting of add_entry

VARIABLES
  entries_,  \* of each map: a function from its keys to objects
  data_,     \* the object of each loose entry
  owned,     \* the objects whose entries have a function to delete them
  made,      \* the objects that init has made
  adding,    \* stack of the calls of add_entry that are in init: <<map, key>>
  deleted,   \* the objects whose deletion function was called
  twice,     \* those for which it was called again
  forgotten  \* the objects of loose entries that were assigned over

vars == <<entries_, data_, owned, made, adding, deleted, twice, forgotten>>

-------------------------------------------------------------------------------

Has(m, k) == k \in DOMAIN entries_[m]

InMap(entries) == UNION {Range(entries[m]) : m \in Maps}

\* The entries that lost their last holder run their destructors.
Delete(objs) ==
  /\ deleted' = deleted \cup (objs \cap owned')
  /\ twice' = twice \cup (objs \cap owned' \cap deleted)

\* A bug: the copies of a map have the object without sharing it.
MutDropped(entries) == UNION {Range(entries_[m]) \ Range(entries[m]) : m \in Maps}

\* What the last map lets go of when the maps change to entries.
Dropped(entries) == InMap(entries_) \ InMap(entries)

\* The maps change to entries, and what no map holds any more is deleted.
Become(entries) ==
  /\ entries_' = entries
  /\ UNCHANGED <<data_, owned, made, adding, forgotten>>
  /\ Delete(Dropped(entries))

\* add_entry of a key that the map does not have: init is called.
AddEntry(m, k) ==
  /\ ~Has(m, k)
  /\ Len(adding) < MaxDepth
  /\ adding' = Append(adding, <<m, k>>)
  /\ UNCHANGED <<entries_, data_, owned, made, deleted, twice, forgotten>>

\* init returns an object; the entry goes into the map, or is destroyed again if the key
\* has come into the map meanwhile.
InitReturns(o, deletes) ==
  /\ adding # <<>>
  /\ o \notin made
  /\ made' = made \cup {o}
  /\ owned' = IF deletes THEN owned \cup {o} ELSE owned
  /\ adding' = SubSeq(adding, 1, Len(adding) - 1)
  /\ LET m == adding[Len(adding)][1]
         k == adding[Len(adding)][2] IN
       IF Has(m, k)
         THEN Delete({o}) /\ UNCHANGED entries_
         ELSE /\ entries_' = [entries_ EXCEPT ![m] = [j \in DOMAIN @ \cup {k} |->
                                                        IF j = k THEN o ELSE @[j]]]
              /\ UNCHANGED <<deleted, twice>>
  /\ UNCHANGED <<data_, forgotten>>

InitThrows ==
  /\ adding # <<>>
  /\ adding' = SubSeq(adding, 1, Len(adding) - 1)
  /\ UNCHANGED <<entries_, data_, owned, made, deleted, twice, forgotten>>

RmEntry(m, k) ==
  /\ Has(m, k)
  /\ Become([entries_ EXCEPT ![m] = [j \in DOMAIN @ \ {k} |-> @[j]]])

\* Copy or move of h into g, constructed or assigned.
Copy(g, h) == Become([entries_ EXCEPT ![g] = entries_[h]])

Move(g, h) == Become([entries_ EXCEPT ![g] = entries_[h], ![h] = <<>>])

Destroy(m) ==
  /\ \A i \in DOMAIN adding : adding[i][1] # m
  /\ Become([entries_ EXCEPT ![m] = <<>>])

\* A ConfigEntry of the program's own, its move and its destruction. The one that was
\* moved from has no deletion function left.
MakeEntry(e, o, deletes) ==
  /\ data_[e] = None
  /\ o \notin made
  /\ made' = made \cup {o}
  /\ owned' = IF deletes THEN owned \cup {o} ELSE owned
  /\ data_' = [data_ EXCEPT ![e] = o]
  /\ UNCHANGED <<entries_, adding, deleted, twice, forgotten>>

MoveEntry(e, f) ==
  /\ data_' = [data_ EXCEPT ![e] = data_[f], ![f] = None]
  /\ forgotten' = forgotten \cup ({data_[e]} \ {None})
  /\ UNCHANGED <<entries_, owned, made, adding, deleted, twice>>

DestroyEntry(e) ==
  /\ data_[e] # None
  /\ data_' = [data_ EXCEPT ![e] = None]
  /\ UNCHANGED <<entries_, owned, made, adding, forgotten>>
  /\ Delete({data_[e]})

-------------------------------------------------------------------------------

Init ==
  /\ entries_ = [m \in Maps |-> <<>>]
  /\ data_ = [e \in Loose |-> None]
  /\ adding = <<>>
  /\ owned = {} /\ made = {} /\ deleted = {} /\ twice = {} /\ forgotten = {}

Next ==
  \/ \E m \in Maps, k \in Keys : AddEntry(m, k) \/ RmEntry(m, k)
  \/ \E o \in Objs, deletes \in BOOLEAN :
       InitReturns(o, deletes) \/ \E e \in Loose : MakeEntry(e, o, deletes)
  \/ InitThrows
  \/ \E g, h \in Maps : g # h /\ (Copy(g, h) \/ Move(g, h))
  \/ \E m \in Maps : Destroy(m)
  \/ \E e, f \in Loose : e # f /\ MoveEntry(e, f)
  \/ \E e \in Loose : DestroyEntry(e)

Spec == Init /\ [][Next]_vars

-------------------------------------------------------------------------------

\* Type invariant.
TypeOK ==
  /\ \A m \in Maps : DOMAIN entries_[m] \subseteq Keys
  /\ InMap(entries_) \subseteq made
  /\ data_ \in [Loose -> made \cup {None}]
  /\ adding \in Seq(Maps \X Keys)
  /\ {owned, made, deleted, twice, forgotten} \subseteq SUBSET Objs

\* What get_obj hands out is alive as long as any copy of the map has the entry, and an
\* object with a deletion function is deleted, once, when the last holder goes: also the
\* one whose init lost the race for its key to an add_entry inside it. Only a loose entry
\* that is assigned over leaks
\* (config.hpp:31-52, :83-118).
ObjectsFollowEntries ==
  LET held == InMap(entries_) \cup {data_[e] : e \in Loose} IN
  /\ owned \ (held \cup forgotten) \subseteq deleted
  /\ deleted \cap held = {}
  /\ deleted \subseteq owned
  /\ twice = {}
===============================================================================
