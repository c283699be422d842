------------------------------ MODULE MCLibrary -------------------------------
(***************************************************************************)
(* The libraries that have no threads, one in each behaviour: scope guards,   *)
(* hash lists, configuration maps, strings, flags and logs, and the messages  *)
(* of differences. They share no state, so what they do together is what each does while the others rest.   *)
(***************************************************************************)
EXTENDS ScopeGuard, Naturals, TLC

CONSTANTS
  g1, g2, g3, o1, o2, o3, h1, h2, a, b, m1, m2, k1, k2, e1, e2, blank, slash, colon,
  s1, s2, v1, v2, t1,
  Lists, Values, Nodes, Maps, Keys, Objs, Loose, MaxDepth,
  Chars, Marks, arr_delim, MaxLen, MaxArg, MaxPieces, Sets, Vars, MaxParses,
  Texts, Empty, MaxLines, Limits, LinesBefore, LinesAfter

\* None is the null of the program: no object that an init has made, and no value of a list.
ASSUME NoneIsNoObject == None \notin Objs
ASSUME NoneIsNoValue == None \notin Values

\* As in DiffMessage.
ASSUME MessageParameters == Limits \subseteq Nat \ {0} /\ LinesBefore \in Nat /\ LinesAfter \in Nat

ThreeGuards == {g1, g2, g3}
ThreeOps == {o1, o2, o3}
TwoLists == {h1, h2}
TwoValues == {a, b}
FourNodes == 1 .. 4
TwoMaps == {m1, m2}
TwoKeys == {k1, k2}
TwoLoose == {e1, e2}
ThreeChars == {blank, slash, colon}
TwoMarks == {slash, colon}
TwoSets == {s1, s2}
TwoVars == {v1, v2}
OneText == {t1}

VARIABLES
  part,  \* the library of this behaviour
  lst, umap, val, tainted, ret, listFate,
  entries_, data_, owned, made, adding, deleted, twice, forgotten,
  call, text, i, size, out, pc,
  logger, log_level_, said, last, helps, helped,
  left, right, ignore_empty_lines, trim_spaces, batch_limit, phase, expect, got,
  restE, restG, diffs

lists == INSTANCE HashList WITH fate <- listFate
maps == INSTANCE ConfigMap
texts == INSTANCE Texts
flags == INSTANCE FlagSet
messages == INSTANCE DiffMessage WITH MaxLen <- MaxLines

listVars == <<lst, umap, val, tainted, ret, listFate>>
mapVars == <<entries_, data_, owned, made, adding, deleted, twice, forgotten>>
textVars == <<call, text, i, size, out, pc>>
flagVars == <<logger, log_level_, said, last, helps, helped>>
messageVars == <<left, right, ignore_empty_lines, trim_spaces, batch_limit, phase, expect, got,
                 restE, restG, diffs>>

\* What diff_lines would be called with, where it is not.
NoTexts ==
  /\ left = <<>> /\ right = <<>> /\ ~ignore_empty_lines /\ ~trim_spaces
  /\ batch_limit = CHOOSE limit \in Limits : TRUE

LibraryInit ==
  /\ part \in {"guards", "lists", "maps", "texts", "flags", "messages"}
  /\ Init /\ lists!Init /\ maps!Init /\ texts!Init /\ flags!FlagInit /\ messages!Init
  /\ part # "messages" => NoTexts

LibraryNext ==
  /\ UNCHANGED part
  /\ \/ part = "guards" /\ Next
        /\ UNCHANGED <<listVars, mapVars, textVars, flagVars, messageVars>>
     \/ part = "lists" /\ lists!Next
        /\ UNCHANGED <<vars, mapVars, textVars, flagVars, messageVars>>
     \/ part = "maps" /\ maps!Next
        /\ UNCHANGED <<vars, listVars, textVars, flagVars, messageVars>>
     \/ part = "texts" /\ texts!Next
        /\ UNCHANGED <<vars, listVars, mapVars, flagVars, messageVars>>
     \/ part = "flags" /\ flags!FlagNext
        /\ UNCHANGED <<vars, listVars, mapVars, textVars, messageVars>>
     \/ part = "messages" /\ messages!Next
        /\ UNCHANGED <<vars, listVars, mapVars, textVars, flagVars>>

libraryVars == <<part, vars, listVars, mapVars, textVars, flagVars, messageVars>>

LibrarySpec == LibraryInit /\ [][LibraryNext]_libraryVars

\* The list and the map of a HashList stay in step (hashlist.hpp:106-154).
InStep == lists!InStep

\* Hash lists implement ordered sets (hashlist.hpp:106-154).
ImplementsOrderedSets == lists!ImplementsOrderedSets

\* Objects live as long as their entries and are deleted once (config.hpp:31-52, :83-118).
ObjectsFollowEntries == maps!ObjectsFollowEntries

\* split, the escape of marks, strip and the comparisons answer with what they are defined
\* to (fmts.cpp:36-90, fmts.hpp:42-59, strs.cpp:8-28).
ResultsAreExact == texts!ResultsAreExact

\* Under the default logger no failed lookup or cast goes on (logs.hpp:131-136).
FatalStops == flags!FatalStops

\* parse() returns what the arguments deserve and says why (flag.cpp:51-81).
ParseTellsWhy == flags!ParseTellsWhy

\* The batches of a difference make up both texts (msg.cpp:90-120).
BatchesAddUp == messages!BatchesAddUp

\* The numbers before the lines of a message are their places in the texts (msg.cpp:26-49).
MessageIsTrue == messages!MessageIsTrue

\* A message is empty exactly if nothing that counts differs (msg.hpp:29, msg.cpp:53-121).
EmptyMessageMeansSame == messages!EmptyMessageMeansSame

Symmetry == Permutations(Lists) \cup Permutations(Values)
===============================================================================
