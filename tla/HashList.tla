------------------------------- MODULE HashList -------------------------------
(***************************************************************************)
(* estd::HashList (estd/hashlist.hpp): a std::list of values and a map from   *)
(* each value to the iterator of its node, which every operation keeps in     *)
(* step. The class has the copy and move operations of its members: a move    *)
(* takes nodes and iterators along, a copy gets nodes of its own but the      *)
(* iterators of the original.                                               *)
(*                                                                         *)
(* erase takes its value by reference. If that refers to the element itself,  *)
(* line 147 looks for a value that line 146 has freed, and the map may lose   *)
(* that value, another one, or none. An erase through an iterator that is not *)
(* of this list is undefined, and the model ends there.                      *)
(*                                                                         *)
(* Positions given to insert are those of the list itself, and no object is   *)
(* assigned to itself.                                                      *)
(***************************************************************************)
EXTENDS Naturals, SequencesExt

CONSTANTS
  Lists,   \* the storage of HashList objects
  Values,
  Nodes,   \* the addresses of list nodes; the allocator takes any that is free
  None

VARIABLES
  lst,      \* lst_ of each object: its nodes in order
  umap,     \* umap_ of each object
  val,      \* the value in each node, None if it is free
  tainted,  \* history: the objects that were copied into or erased by reference
  ret,      \* <<object, node>>: the iterator the last operation returned, or <<>>
  fate      \* "ok" or "undefined"

vars == <<lst, umap, val, tainted, ret, fate>>

-------------------------------------------------------------------------------

Has(h, v) == v \in DOMAIN umap[h]

\* std::unordered_map::erase(v)
Without(map, v) == [w \in DOMAIN map \ {v} |-> map[w]]

Free == {n \in Nodes : val[n] = None}

Freed(nodes) == [n \in Nodes |-> IF n \in nodes THEN None ELSE val[n]]

\* A bug: the new node does not go into the map.
MutIndexed(h, v, n) == umap

\* umap_[v] = position of n
Indexed(h, v, n) ==
  [umap EXCEPT ![h] = [w \in DOMAIN @ \cup {v} |-> IF w = v THEN n ELSE @[w]]]

\* insert(position, v) with a position before element i; push_back(v) is the insert
\* behind the last element. A value that the map has is not added.
Insert(h, i, v) ==
  /\ IF Has(h, v)
       THEN /\ ret' = <<h, umap[h][v]>>
            /\ UNCHANGED <<lst, umap, val>>
       ELSE \E n \in Free :
              /\ val' = [val EXCEPT ![n] = v]
              /\ lst' = [lst EXCEPT ![h] = InsertAt(@, i, n)]
              /\ umap' = Indexed(h, v, n)
              /\ ret' = <<h, n>>
  /\ UNCHANGED <<tainted, fate>>

PushBack(h, v) == Insert(h, Len(lst[h]) + 1, v)

PopBack(h) ==
  /\ lst[h] # <<>>
  /\ umap' = [umap EXCEPT ![h] = Without(@, val[Last(lst[h])])]
  /\ lst' = [lst EXCEPT ![h] = Front(@)]
  /\ val' = Freed({Last(lst[h])})
  /\ ret' = <<>>
  /\ UNCHANGED <<tainted, fate>>

\* The values that umap_.erase may remove: v itself, or, if v refers to the node that
\* is gone by then, whatever is found there.
Erased(v, byReference) == IF byReference THEN Values \cup {None} ELSE {v}

Erase(h, v, byReference) ==
  /\ Has(h, v)
  /\ LET n == umap[h][v] IN
       \/ \E k \in DOMAIN lst[h] :
            /\ lst[h][k] = n
            /\ byReference => val[n] = v
            /\ lst' = [lst EXCEPT ![h] = RemoveAt(@, k)]
            /\ val' = Freed({n})
            /\ \E w \in Erased(v, byReference) : umap' = [umap EXCEPT ![h] = Without(@, w)]
            /\ tainted' = IF byReference THEN tainted \cup {h} ELSE tainted
            /\ ret' = <<>>
            /\ UNCHANGED fate
       \/ /\ ~Contains(lst[h], n)
          /\ fate' = "undefined"
          /\ UNCHANGED <<lst, umap, val, tainted, ret>>

\* clear(), and the destructor of an object in this storage.
Clear(h) ==
  /\ lst' = [lst EXCEPT ![h] = <<>>]
  /\ umap' = [umap EXCEPT ![h] = <<>>]
  /\ val' = Freed(ToSet(lst[h]))
  /\ tainted' = tainted \ {h}
  /\ ret' = <<>>
  /\ UNCHANGED fate

\* Construction of g by copy, or assignment to a g that is empty: the nodes are new,
\* the iterators are those of h.
Copy(g, h) ==
  /\ lst[g] = <<>> /\ umap[g] = <<>>
  /\ \E new \in Injection(1 .. Len(lst[h]), Free) :
       /\ lst' = [lst EXCEPT ![g] = new]
       /\ val' = [n \in Nodes |-> IF Contains(new, n)
                                    THEN val[lst[h][CHOOSE k \in DOMAIN new : new[k] = n]]
                                    ELSE val[n]]
  /\ umap' = [umap EXCEPT ![g] = umap[h]]
  /\ tainted' = IF lst[h] = <<>> /\ umap[h] = <<>> THEN tainted ELSE tainted \cup {g}
  /\ ret' = <<>>
  /\ UNCHANGED fate

\* A bug: the list is moved and the map is copied.
MutMoved(g, h) == [umap EXCEPT ![g] = umap[h]]

Moved(g, h) == [umap EXCEPT ![g] = umap[h], ![h] = <<>>]

\* Construction of g by move, or move assignment: what g had is gone.
Move(g, h) ==
  /\ lst' = [lst EXCEPT ![g] = lst[h], ![h] = <<>>]
  /\ umap' = Moved(g, h)
  /\ val' = Freed(ToSet(lst[g]))
  /\ tainted' = (tainted \ {g, h}) \cup (IF h \in tainted THEN {g} ELSE {})
  /\ ret' = <<>>
  /\ UNCHANGED fate

-------------------------------------------------------------------------------

Init ==
  /\ lst = [h \in Lists |-> <<>>]
  /\ umap = [h \in Lists |-> <<>>]
  /\ val = [n \in Nodes |-> None]
  /\ tainted = {}
  /\ ret = <<>>
  /\ fate = "ok"

Next ==
  /\ fate = "ok"
  /\ \E h \in Lists :
       \/ \E v \in Values :
            \/ PushBack(h, v)
            \/ \E i \in 1 .. Len(lst[h]) : Insert(h, i, v)
            \/ \E byReference \in BOOLEAN : Erase(h, v, byReference)
       \/ PopBack(h)
       \/ Clear(h)
       \/ \E g \in Lists \ {h} : Copy(g, h) \/ Move(g, h)

Spec == Init /\ [][Next]_vars

-------------------------------------------------------------------------------

\* Type invariant.
TypeOK ==
  /\ lst \in [Lists -> Seq(Nodes)]
  /\ \A h \in Lists : DOMAIN umap[h] \subseteq Values /\ \A v \in DOMAIN umap[h] : umap[h][v] \in Nodes
  /\ val \in [Nodes -> Values \cup {None}]
  /\ tainted \subseteq Lists
  /\ fate \in {"ok", "undefined"}

\* The list and the map stay in step through every operation, moves included: the map
\* knows the values of the list and nothing else, and leads to the node of each, which
\* no other object has. Only a copy, or a list from which an element was erased by a
\* reference to itself, may stray, and only such a one is ever led to a node it does
\* not own (hashlist.hpp:106-154, :159).
InStep ==
  /\ \A h \in Lists \ tainted :
       /\ DOMAIN umap[h] = {val[lst[h][i]] : i \in DOMAIN lst[h]}
       /\ \A v \in DOMAIN umap[h] : Contains(lst[h], umap[h][v]) /\ val[umap[h][v]] = v
  /\ \A g, h \in Lists : g # h => ToSet(lst[g]) \cap ToSet(lst[h]) = {}
  /\ fate = "undefined" => tainted # {}

Items(h) == [i \in DOMAIN lst[h] |-> val[lst[h][i]]]

OS == INSTANCE OrderedSets WITH
  items <- [h \in Lists |-> IF h \in tainted THEN <<>> ELSE Items(h)],
  answer <- IF ret = <<>> \/ ret[1] \in tainted THEN <<>> ELSE <<ret[1], val[ret[2]]>>

\* Through every operation, and moves between them, lists that are neither copies nor
\* erased from by reference hold each value once, in the order it was put in, and what
\* push_back and insert return is the element with the value (hashlist.hpp:106-154).
ImplementsOrderedSets == OS!Spec
===============================================================================
