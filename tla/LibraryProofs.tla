----------------------------- MODULE LibraryProofs -----------------------------
(***************************************************************************)
(* Theorems about the libraries that have no threads: scope guards, flags and  *)
(* logs, configuration maps, hash lists, the functions over strings and the     *)
(* messages of differences, each with its inductive invariant and the properties *)
(* that follow from it, for any number of objects, any values and any texts.    *)
(***************************************************************************)
EXTENDS MCLibrary, Integers, SequenceTheorems, WellFoundedInduction, TLAPS

\* The empty state of the program satisfies the invariant.
LEMMA InitIInv == Init => IInv
  BY DEF Init, IInv, TypeOK, HoldersInv, UncalledIsHeld, CalledOnce

\* Every operation keeps the types.
LEMMA TypeStep == TypeOK /\ [Next]_vars => TypeOK'
  <1> SUFFICES ASSUME TypeOK, [Next]_vars PROVE TypeOK'
    OBVIOUS
  <1> USE DEF TypeOK
  <1>1. ASSUME NEW g \in Guards, NEW op \in Ops \cup {None}, Construct(g, op)
        PROVE TypeOK'
    BY <1>1, NoneIsNoOp DEF Construct
  <1>2. ASSUME NEW g \in Guards, NEW h \in Guards,
               \/ MoveConstruct(g, h) \/ MoveAssign(g, h) \/ MoveAssignThrows(g, h)
        PROVE TypeOK'
    BY <1>2 DEF MoveConstruct, MoveAssign, MoveAssignThrows, AssignRuns, Moved, Run
  <1>3. ASSUME NEW g \in Guards, Destroy(g) \/ DestroyThrows(g)
        PROVE TypeOK'
    BY <1>3 DEF Destroy, DestroyThrows, Run
  <1>4. CASE UNCHANGED vars
    BY <1>4 DEF vars
  <1> QED
    BY <1>1, <1>2, <1>3, <1>4 DEF Next

\* Every operation leaves a function with one holder, and an empty guard where a
\* function was called without throwing.
LEMMA HoldersStep == IInv /\ [Next]_vars => HoldersInv'
  <1> SUFFICES ASSUME IInv, [Next]_vars PROVE HoldersInv'
    OBVIOUS
  <1> USE NoneIsNoOp DEF IInv, TypeOK, HoldersInv
  <1>1. ASSUME NEW g \in Guards, NEW op \in Ops \cup {None}, Construct(g, op)
        PROVE HoldersInv'
    <2>1. \A f \in Guards : term'[f] = IF f = g THEN op ELSE term[f]
      BY <1>1 DEF Construct
    <2>2. op \notin ran /\ \A f \in Guards : f # g /\ op # None => term[f] # op
      BY <1>1 DEF Construct, UncalledIsHeld
    <2> QED
      BY <1>1, <2>1, <2>2 DEF Construct
  <1>2. ASSUME NEW g \in Guards, NEW h \in Guards, MoveConstruct(g, h)
        PROVE HoldersInv'
    BY <1>2 DEF MoveConstruct, Moved
  <1>3. ASSUME NEW g \in Guards, NEW h \in Guards, MoveAssign(g, h)
        PROVE HoldersInv'
    BY <1>3 DEF MoveAssign, AssignRuns, Moved, Run
  <1>4. ASSUME NEW g \in Guards, NEW h \in Guards, MoveAssignThrows(g, h)
        PROVE HoldersInv'
    BY <1>4 DEF MoveAssignThrows, Run
  <1>5. ASSUME NEW g \in Guards, Destroy(g)
        PROVE HoldersInv'
    BY <1>5 DEF Destroy, Run
  <1>6. ASSUME NEW g \in Guards, DestroyThrows(g)
        PROVE HoldersInv'
    BY <1>6 DEF DestroyThrows, Run
  <1>7. CASE UNCHANGED vars
    BY <1>7 DEF vars
  <1> QED
    BY <1>1, <1>2, <1>3, <1>4, <1>5, <1>6, <1>7 DEF Next

\* A function that was not called yet keeps its holder: a guard that gives it up
\* calls it or hands it to another.
LEMMA UncalledStep == IInv /\ [Next]_vars => UncalledIsHeld'
  <1> SUFFICES ASSUME IInv, [Next]_vars, NEW o \in given' \ ran'
               PROVE  \E f \in live' : term'[f] = o /\ \A e \in Guards \ {f} : term'[e] # o
    BY DEF UncalledIsHeld
  <1> USE NoneIsNoOp DEF IInv, TypeOK, HoldersInv
  <1>1. ASSUME NEW g \in Guards, NEW op \in Ops \cup {None}, Construct(g, op), o = op
        PROVE  \E f \in live' : term'[f] = o /\ \A e \in Guards \ {f} : term'[e] # o
    <2>1. g \in live' /\ term'[g] = o /\ \A e \in Guards \ {g} : term'[e] = term[e]
      BY <1>1 DEF Construct
    <2>2. o # None /\ \A e \in Guards : term[e] # o
      BY <1>1 DEF Construct
    <2> QED
      BY <2>1, <2>2
  <1>2. ASSUME o \in given \ ran
        PROVE  \E f \in live : f \in Guards /\ term[f] = o /\ o # None
                                /\ \A e \in Guards \ {f} : term[e] # o
    BY <1>2 DEF UncalledIsHeld
  <1>3. ASSUME NEW g \in Guards, NEW op \in Ops \cup {None}, Construct(g, op), o # op
        PROVE  \E f \in live' : term'[f] = o /\ \A e \in Guards \ {f} : term'[e] # o
    <2>1. PICK f \in live : f \in Guards /\ term[f] = o /\ \A e \in Guards \ {f} : term[e] # o
      BY <1>2, <1>3 DEF Construct
    <2>2. f # g /\ f \in live' /\ term'[f] = o /\ \A e \in Guards \ {f} : term'[e] # o
      BY <1>3, <2>1 DEF Construct
    <2> QED
      BY <2>2
  <1>4. ASSUME NEW g \in Guards, NEW h \in Guards, MoveConstruct(g, h) \/ MoveAssign(g, h)
        PROVE  \E f \in live' : term'[f] = o /\ \A e \in Guards \ {f} : term'[e] # o
    <2>1. PICK f \in live : f \in Guards /\ term[f] = o /\ o # None
                             /\ \A e \in Guards \ {f} : term[e] # o
      BY <1>2, <1>4 DEF MoveConstruct, MoveAssign, AssignRuns, Run
    <2>2. g # h /\ g \in live' /\ live \subseteq live' /\ f # g
      BY <1>4, <2>1 DEF MoveConstruct, MoveAssign, AssignRuns, Run
    <2>3. \A e \in Guards : term'[e] = IF e = h THEN None ELSE IF e = g THEN term[h] ELSE term[e]
      BY <1>4, <2>2 DEF MoveConstruct, MoveAssign, Moved
    <2>4. CASE f = h
      BY <2>1, <2>2, <2>3, <2>4
    <2>5. CASE f # h
      BY <2>1, <2>2, <2>3, <2>5
    <2> QED
      BY <2>4, <2>5
  <1>5. ASSUME NEW g \in Guards, Destroy(g)
        PROVE  \E f \in live' : term'[f] = o /\ \A e \in Guards \ {f} : term'[e] # o
    <2>1. PICK f \in live : f \in Guards /\ term[f] = o /\ o # None
                             /\ \A e \in Guards \ {f} : term[e] # o
      BY <1>2, <1>5 DEF Destroy, Run
    <2> QED
      BY <1>5, <2>1 DEF Destroy, Run
  <1>6. ASSUME UNCHANGED <<live, term, given>>, ran \subseteq ran'
        PROVE  \E f \in live' : term'[f] = o /\ \A e \in Guards \ {f} : term'[e] # o
    BY <1>2, <1>6
  <1>7. ASSUME NEW g \in Guards, NEW h \in Guards, MoveAssignThrows(g, h) \/ DestroyThrows(g)
        PROVE  UNCHANGED <<live, term, given>> /\ ran \subseteq ran'
    BY <1>7 DEF MoveAssignThrows, DestroyThrows, Run
  <1>8. CASE UNCHANGED vars
    BY <1>6, <1>8 DEF vars
  <1> QED
    BY <1>1, <1>3, <1>4, <1>5, <1>6, <1>7, <1>8 DEF Next

\* A function that is called again had thrown before.
LEMMA CalledStep == IInv /\ [Next]_vars => CalledOnce'
  <1> SUFFICES ASSUME IInv, [Next]_vars PROVE again' \subseteq threw'
    BY DEF CalledOnce
  <1> USE DEF IInv, TypeOK, HoldersInv, CalledOnce
  <1>1. ASSUME NEW g \in Guards, NEW op \in Ops \cup {None}, Construct(g, op)
        PROVE again' \subseteq threw'
    BY <1>1 DEF Construct
  <1>2. ASSUME NEW g \in Guards, NEW h \in Guards,
               \/ MoveConstruct(g, h) \/ MoveAssign(g, h) \/ MoveAssignThrows(g, h)
        PROVE again' \subseteq threw'
    BY <1>2 DEF MoveConstruct, MoveAssign, MoveAssignThrows, AssignRuns, Run
  <1>3. ASSUME NEW g \in Guards, Destroy(g) \/ DestroyThrows(g)
        PROVE again' \subseteq threw'
    BY <1>3 DEF Destroy, DestroyThrows, Run
  <1>4. CASE UNCHANGED vars
    BY <1>4 DEF vars
  <1> QED
    BY <1>1, <1>2, <1>3, <1>4 DEF Next

\* The inductive invariant holds whatever is constructed, moved, assigned and
\* destroyed, in whatever order (scope_guard.hpp:21-55).
THEOREM Invariance == Spec => []IInv
  <1>1. IInv /\ [Next]_vars => IInv'
    BY TypeStep, HoldersStep, UncalledStep, CalledStep DEF IInv
  <1> QED
    BY InitIInv, <1>1, PTL DEF Spec

\* A function that was given to a guard and not called has one living holder
\* (scope_guard.hpp:25-51).
THEOREM NoFunctionIsLost == Spec => []UncalledIsHeld
  <1>1. IInv => UncalledIsHeld
    BY DEF IInv
  <1> QED
    BY Invariance, <1>1, PTL

\* Only a function that threw into an assignment is called again
\* (scope_guard.hpp:44-48).
THEOREM NoFunctionRunsTwice == Spec => []CalledOnce
  <1>1. IInv => CalledOnce
    BY DEF IInv
  <1> QED
    BY Invariance, <1>1, PTL

-------------------------------------------------------------------------------

\* What flags and logs keep: the level of the default logger never falls below FATAL, and
\* while a call of parse() runs, last is that call.
FlagInv ==
  /\ flags!TypeOK
  /\ last.call = "parse" =>
       last \in [call : {"parse"}, set : Sets, vm : Vars, args : flags!Args,
                 result : {"storing", "true", "false", "thrown"}]

FlagIInv == FlagInv /\ FatalStops

\* Where the level is one that can be set, the default logger throws a fatal message, and
\* another logger either throws it or returns.
LEMMA FatalIsThrown ==
  ASSUME flags!TypeOK, NEW s \in flags!Outcomes(flags!FATAL)
  PROVE  s \in {"thrown", "custom"} /\ (s = "thrown" \/ logger = "custom")
  <1>1. flags!Shown(flags!FATAL) = "thrown"
    BY DEF flags!TypeOK, flags!Shown, flags!Admits, flags!FATAL, flags!ERROR, flags!WARN,
           flags!TRACE
  <1> QED
    BY <1>1 DEF flags!Outcomes, flags!TypeOK

\* What comes of a message is one of the ways to show it.
LEMMA OutcomesShown ==
  ASSUME NEW level, NEW s \in flags!Outcomes(level)
  PROVE  s \in {"nothing", "error", "warning", "line", "thrown", "custom"}
  BY DEF flags!Outcomes, flags!Shown

\* Every call of the loggers keeps the types.
LEMMA LoggingStep == FlagIInv /\ flags!Next => FlagIInv'
  <1> SUFFICES ASSUME FlagIInv, flags!Next PROVE FlagIInv'
    OBVIOUS
  <1> USE DEF FlagIInv, FlagInv, FatalStops, flags!FatalStops
  <1>1. ASSUME NEW kind \in {"default", "custom"}, flags!SetLogger(kind)
        PROVE  FlagIInv'
    BY <1>1 DEF flags!SetLogger, flags!TypeOK, flags!INFO, flags!FATAL, flags!TRACE
  <1>2. ASSUME NEW name \in flags!Names, flags!SetLogLevel(name)
        PROVE  FlagIInv'
    <2>1. log_level_' \in flags!FATAL .. flags!TRACE
      BY <1>2 DEF flags!SetLogLevel, flags!TypeOK, flags!EnumLog, flags!Names, flags!NOT_SET,
                  flags!FATAL, flags!TRACE
    <2> QED
      BY <1>2, <2>1 DEF flags!SetLogLevel, flags!TypeOK
  <1>3. ASSUME NEW level, said' \in flags!Outcomes(level), UNCHANGED <<logger, log_level_>>,
               last'.call = "log", last'.level = level
        PROVE  FlagIInv'
    <2>1. flags!TypeOK'
      BY <1>3, OutcomesShown DEF flags!TypeOK
    <2>2. last'.level = flags!FATAL => said' \in {"thrown", "custom"}
      BY <1>3, FatalIsThrown
    <2> QED
      BY <1>3, <2>1, <2>2
  <1>4. ASSUME NEW name \in flags!Names, flags!LogNamed(name)
        PROVE  FlagIInv'
    <2> DEFINE level == IF flags!EnumLog(name) = flags!NOT_SET THEN flags!TRACE
                                                               ELSE flags!EnumLog(name)
    <2>1. /\ said' \in flags!Outcomes(level) /\ UNCHANGED <<logger, log_level_>>
          /\ last'.call = "log" /\ last'.level = level
      BY <1>4 DEF flags!LogNamed
    <2> QED
      BY <1>3, <2>1
  <1>5. ASSUME NEW level \in 0 .. flags!NOT_SET, flags!Log(level)
        PROVE  FlagIInv'
    <2>1. /\ said' \in flags!Outcomes(level) /\ UNCHANGED <<logger, log_level_>>
          /\ last'.call = "log" /\ last'.level = level
      BY <1>5 DEF flags!Log
    <2> QED
      BY <1>3, <2>1
  <1>6. ASSUME said' = said \/ said' \in flags!Outcomes(flags!FATAL),
               UNCHANGED <<logger, log_level_>>, last'.call \in {"must_getf", "must_cast"},
               \/ last'.result \in {"element", "none"}
               \/ said' \in flags!Outcomes(flags!FATAL) /\ said' # "thrown"
        PROVE  FlagIInv'
    <2>1. flags!TypeOK'
      BY <1>6, OutcomesShown DEF flags!TypeOK
    <2>2. last'.result \notin {"element", "none"} => logger = "custom"
      BY <1>6, FatalIsThrown
    <2> QED
      BY <1>6, <2>1, <2>2
  <1>7. ASSUME NEW found \in BOOLEAN, flags!MustGet(found)
        PROVE  FlagIInv'
    BY <1>6, <1>7 DEF flags!MustGet
  <1>8. ASSUME NEW ptr \in {"null", "other", "fits"}, flags!MustCast(ptr)
        PROVE  FlagIInv'
    BY <1>6, <1>8 DEF flags!MustCast
  <1> QED
    BY <1>1, <1>2, <1>4, <1>5, <1>7, <1>8 DEF flags!Next

\* A call of parse() that is over has not touched the loggers, and last is still that call.
LEMMA ParseEnds ==
  ASSUME FlagInv, flags!Parsing, UNCHANGED <<logger, log_level_>>,
         NEW level, flags!Reports(level) \/ flags!Returns("true")
  PROVE  /\ last'.call = "parse" /\ last'.result \in {"true", "false", "thrown"}
         /\ FlagInv'
         /\ last'.args = last.args /\ last'.vm = last.vm
         /\ flags!Reports(level) => last'.result \in {"false", "thrown"}
         /\ flags!Returns("true") => last'.result = "true" /\ said' = said
  <1> DEFINE S == [call : {"parse"}, set : Sets, vm : Vars, args : flags!Args,
                   result : {"storing", "true", "false", "thrown"}]
  <1>1. last \in S
    BY DEF FlagInv, flags!Parsing
  <1>2. PICK r \in {"true", "false", "thrown"} :
          /\ last' = [last EXCEPT !.result = r]
          /\ flags!Reports(level) => r \in {"false", "thrown"}
          /\ flags!Returns("true") => r = "true"
    <2>1. CASE flags!Reports(level)
      BY <1>1, <2>1 DEF flags!Reports, flags!Returns
    <2>2. CASE flags!Returns("true")
      BY <1>1, <2>2 DEF flags!Reports, flags!Returns
    <2> QED
      BY <2>1, <2>2
  <1>3. /\ last' \in S /\ last'.result = r /\ last'.args = last.args /\ last'.vm = last.vm
        /\ last'.call = "parse"
    BY <1>1, <1>2
  <1>4. flags!TypeOK'
    BY OutcomesShown DEF FlagInv, flags!TypeOK, flags!Reports, flags!Returns
  <1> QED
    BY <1>2, <1>3, <1>4 DEF FlagInv, flags!Returns

\* Every operation of flags keeps the invariant: parse() leaves the loggers alone.
LEMMA FlagStep == FlagIInv /\ [flags!FlagNext]_flagVars => FlagIInv'
  <1> SUFFICES ASSUME FlagIInv, [flags!FlagNext]_flagVars PROVE FlagIInv'
    OBVIOUS
  <1> USE DEF FlagIInv, FatalStops, flags!FatalStops
  <1>1. ASSUME NEW set \in Sets, NEW vm \in Vars, NEW args \in flags!Args,
               flags!Parse(set, vm, args)
        PROVE  FlagIInv'
    BY <1>1 DEF flags!Parse, FlagInv, flags!TypeOK
  <1>2. CASE flags!StoreFails
    <2>1. FlagInv' /\ last'.call = "parse"
      BY <1>2, ParseEnds DEF flags!StoreFails
    <2> QED
      BY <2>1
  <1>3. CASE flags!Stored
    <2>1. PICK level : flags!Reports(level) \/ flags!Returns("true")
      BY <1>3 DEF flags!Stored
    <2>2. FlagInv' /\ last'.call = "parse"
      BY <1>3, <2>1, ParseEnds DEF flags!Stored
    <2> QED
      BY <2>2
  <1>4. CASE UNCHANGED flagVars
    BY <1>4 DEF flagVars, FlagInv, flags!TypeOK
  <1> QED
    BY <1>1, <1>2, <1>3, <1>4, LoggingStep DEF flags!FlagNext

\* A program starts with the default logger, which throws.
LEMMA FlagInit == flags!FlagInit => FlagIInv
  BY DEF flags!FlagInit, flags!Init, FlagIInv, FlagInv, FatalStops, flags!FatalStops,
         flags!TypeOK, flags!INFO, flags!FATAL, flags!TRACE

\* The end of parse() says why: the two ways in which it returns.
LEMMA ParseStep ==
  ASSUME FlagIInv, flags!FlagNext, flags!Parsing
  PROVE  LET asked == last.args.help \/ last.vm \in helped IN
         /\ last'.result = "true" => ~asked /\ last.args.others = "good"
         /\ last'.result = "false" => asked \/ last.args.others # "good"
         /\ logger = "default" =>
              /\ last'.result = "false" /\ log_level_ >= flags!WARN => said' \in {"warning", "error"}
              /\ said' = "warning" /\ said # "warning" => asked
  <1> DEFINE asked == last.args.help \/ last.vm \in helped
  <1>1. last \in [call : {"parse"}, set : Sets, vm : Vars, args : flags!Args,
                  result : {"storing", "true", "false", "thrown"}]
    BY DEF FlagIInv, FlagInv, flags!Parsing
  <1>2. log_level_ \in flags!FATAL .. flags!TRACE
    BY DEF FlagIInv, FlagInv, flags!TypeOK
  <1>3. ASSUME logger = "default", flags!Reports(flags!ERROR)
        PROVE  /\ log_level_ >= flags!WARN => said' = "error"
               /\ said' # "warning"
    BY <1>2, <1>3 DEF flags!Reports, flags!Outcomes, flags!Shown, flags!Admits, flags!ERROR,
                      flags!WARN, flags!FATAL, flags!TRACE
  <1>4. ASSUME logger = "default", flags!Reports(flags!WARN)
        PROVE  log_level_ >= flags!WARN => said' = "warning"
    BY <1>2, <1>4 DEF flags!Reports, flags!Outcomes, flags!Shown, flags!Admits, flags!ERROR,
                      flags!WARN, flags!FATAL, flags!TRACE
  <1>5. CASE flags!StoreFails
    <2>1. last'.result \in {"false", "thrown"}
      BY <1>5, ParseEnds DEF flags!StoreFails, FlagIInv
    <2>2. last.args.help \/ last.args.others # "good"
      BY <1>5 DEF flags!StoreFails, flags!Ambiguous
    <2>3. flags!Reports(flags!ERROR)
      BY <1>5 DEF flags!StoreFails
    <2> QED
      BY <1>3, <2>1, <2>2, <2>3
  <1>6. CASE flags!Stored
    <2>1. flags!HasHelp <=> asked
      BY <1>6, <1>1 DEF flags!Stored, flags!HasHelp, flags!Args
    <2>2. last'.result \in {"false", "thrown"} \/ flags!Returns("true")
      BY <1>6, ParseEnds DEF flags!Stored, FlagIInv
    <2>3. flags!Returns("true") => said' = said /\ last'.result = "true"
      BY <1>6, ParseEnds DEF flags!Stored, FlagIInv
    <2>4. CASE flags!HasHelp /\ flags!Reports(flags!WARN)
      <3>1. last'.result # "true"
        BY <1>6, <2>4, ParseEnds DEF flags!Stored, FlagIInv
      <3> QED
        BY <1>4, <2>1, <2>4, <3>1
    <2>5. CASE ~flags!HasHelp /\ last.args.others = "missing" /\ flags!Reports(flags!ERROR)
      <3>1. last'.result # "true"
        BY <1>6, <2>5, ParseEnds DEF flags!Stored, FlagIInv
      <3> QED
        BY <1>3, <2>1, <2>5, <3>1
    <2>6. CASE ~flags!HasHelp /\ last.args.others = "good" /\ flags!Returns("true")
      BY <2>1, <2>3, <2>6
    <2> QED
      BY <1>6, <2>4, <2>5, <2>6 DEF flags!Stored
  <1> QED
    BY <1>5, <1>6 DEF flags!FlagNext, flags!Parse

-------------------------------------------------------------------------------

\* The objects that some entry holds, in a map or by itself.
Held == maps!InMap(entries_) \cup {data_[e] : e \in Loose}

\* What configuration maps keep beside ObjectsFollowEntries: every object was made by an
\* init, and one that a loose entry holds is in no map and in no other loose entry.
MapInv ==
  /\ maps!TypeOK
  /\ entries_ = [m \in Maps |-> entries_[m]]
  /\ owned \subseteq made
  /\ \A e \in Loose : data_[e] \notin maps!InMap(entries_)
  /\ \A e, f \in Loose : data_[e] = data_[f] /\ data_[e] # None => e = f

MapIInv == MapInv /\ ObjectsFollowEntries

\* An object is in the maps when one of them leads to it.
LEMMA InMapMember ==
  ASSUME NEW entries, NEW o
  PROVE  o \in maps!InMap(entries) <=> \E m \in Maps : \E k \in DOMAIN entries[m] : entries[m][k] = o
  BY DEF maps!InMap, maps!Range

\* When the maps let go of some of what they hold, that is deleted, and nothing else.
LEMMA BecomeStep ==
  ASSUME MapIInv, NEW entries, maps!Become(entries),
         entries = [m \in Maps |-> entries[m]],
         \A m \in Maps : DOMAIN entries[m] \subseteq Keys,
         maps!InMap(entries) \subseteq maps!InMap(entries_)
  PROVE  MapIInv'
  <1> DEFINE Old == maps!InMap(entries_)
             New == maps!InMap(entries)
             Other == {data_[e] : e \in Loose}
  <1>1. entries_' = entries /\ UNCHANGED <<data_, owned, made, adding, forgotten>>
    BY DEF maps!Become
  <1>2. maps!InMap(entries_)' = New
    BY <1>1 DEF maps!InMap, maps!Range
  <1>3. New \subseteq Old /\ Other' = Other
    BY <1>1
  <1>4. /\ deleted' = deleted \cup ((Old \ New) \cap owned)
        /\ twice' = twice \cup ((Old \ New) \cap owned \cap deleted)
    BY <1>1 DEF maps!Become, maps!Delete, maps!Dropped
  <1>5. Old \cap Other = {}
    BY DEF MapIInv, MapInv
  <1>6. /\ owned \ (Old \cup Other \cup forgotten) \subseteq deleted
        /\ deleted \cap (Old \cup Other) = {} /\ deleted \subseteq owned /\ twice = {}
    BY DEF MapIInv, ObjectsFollowEntries, maps!ObjectsFollowEntries
  <1> HIDE DEF Old, New, Other
  <1>7. /\ owned' \ (New \cup Other \cup forgotten') \subseteq deleted'
        /\ deleted' \cap (New \cup Other) = {} /\ deleted' \subseteq owned' /\ twice' = {}
    BY <1>1, <1>3, <1>4, <1>5, <1>6
  <1>8. ObjectsFollowEntries'
    BY <1>2, <1>3, <1>7 DEF ObjectsFollowEntries, maps!ObjectsFollowEntries, Other
  <1>9. maps!TypeOK'
    <2>1. New \subseteq made
      BY <1>3 DEF MapIInv, MapInv, maps!TypeOK, Old
    <2>2. {owned', made', deleted', twice', forgotten'} \subseteq SUBSET Objs
      BY <1>1, <1>7 DEF MapIInv, MapInv, maps!TypeOK
    <2> QED
      BY <1>1, <1>2, <2>1, <2>2 DEF MapIInv, MapInv, maps!TypeOK
  <1> QED
    BY <1>1, <1>2, <1>3, <1>8, <1>9 DEF MapIInv, MapInv, Old, New

\* A key is removed, or a map takes the entries of another or none: each way the maps
\* hold what they held or less.
LEMMA SharingStep ==
  ASSUME MapIInv,
         \/ \E m \in Maps, k \in Keys : maps!RmEntry(m, k)
         \/ \E g, h \in Maps : g # h /\ (maps!Copy(g, h) \/ maps!Move(g, h))
         \/ \E m \in Maps : maps!Destroy(m)
  PROVE  MapIInv'
  <1> DEFINE Smaller(entries) ==
               /\ entries = [m \in Maps |-> entries[m]]
               /\ \A m \in Maps : DOMAIN entries[m] \subseteq Keys
               /\ maps!InMap(entries) \subseteq maps!InMap(entries_)
  <1>1. ASSUME NEW entries, entries = [m \in Maps |-> entries[m]],
               \A m \in Maps : /\ DOMAIN entries[m] \subseteq Keys
                               /\ \A k \in DOMAIN entries[m] :
                                    \E n \in Maps : \E j \in DOMAIN entries_[n] : entries_[n][j] = entries[m][k]
        PROVE  Smaller(entries)
    BY <1>1, InMapMember
  <1>2. /\ entries_ = [m \in Maps |-> entries_[m]]
        /\ \A m \in Maps : DOMAIN entries_[m] \subseteq Keys
    BY DEF MapIInv, MapInv, maps!TypeOK
  <1> HIDE DEF Smaller
  <1>3. ASSUME NEW m \in Maps, NEW k \in Keys, maps!RmEntry(m, k)
        PROVE  MapIInv'
    <2> DEFINE entries == [entries_ EXCEPT ![m] = [j \in DOMAIN @ \ {k} |-> @[j]]]
    <2>1. Smaller(entries)
      BY <1>1, <1>2
    <2> QED
      BY <1>3, <2>1, BecomeStep DEF maps!RmEntry, Smaller
  <1>4. ASSUME NEW g \in Maps, NEW h \in Maps, maps!Copy(g, h)
        PROVE  MapIInv'
    <2> DEFINE entries == [entries_ EXCEPT ![g] = entries_[h]]
    <2>1. Smaller(entries)
      BY <1>1, <1>2
    <2> QED
      BY <1>4, <2>1, BecomeStep DEF maps!Copy, Smaller
  <1>5. ASSUME NEW g \in Maps, NEW h \in Maps, maps!Move(g, h)
        PROVE  MapIInv'
    <2> DEFINE entries == [entries_ EXCEPT ![g] = entries_[h], ![h] = <<>>]
    <2>1. Smaller(entries)
      BY <1>1, <1>2
    <2> QED
      BY <1>5, <2>1, BecomeStep DEF maps!Move, Smaller
  <1>6. ASSUME NEW m \in Maps, maps!Destroy(m)
        PROVE  MapIInv'
    <2> DEFINE entries == [entries_ EXCEPT ![m] = <<>>]
    <2>1. Smaller(entries)
      BY <1>1, <1>2
    <2> QED
      BY <1>6, <2>1, BecomeStep DEF maps!Destroy, Smaller
  <1> QED
    BY <1>3, <1>4, <1>5, <1>6

\* A call of add_entry is on the stack, and the stack without it is one of such calls.
LEMMA AddingType ==
  ASSUME maps!TypeOK, adding # <<>>
  PROVE  /\ adding[Len(adding)][1] \in Maps /\ adding[Len(adding)][2] \in Keys
         /\ SubSeq(adding, 1, Len(adding) - 1) \in Seq(Maps \X Keys)
  <1>1. adding \in Seq(Maps \X Keys)
    BY DEF maps!TypeOK
  <1>2. Len(adding) \in Nat \ {0} /\ adding[Len(adding)] \in Maps \X Keys
    BY <1>1
  <1> QED
    BY <1>1, <1>2

\* The object that init returns is new: the map takes it, or it is deleted at once.
LEMMA InitReturnsStep ==
  ASSUME MapIInv, NEW o \in Objs, NEW deletes \in BOOLEAN, maps!InitReturns(o, deletes)
  PROVE  MapIInv'
  <1> DEFINE m == adding[Len(adding)][1]
             k == adding[Len(adding)][2]
             Other == {data_[e] : e \in Loose}
  <1>1. m \in Maps /\ k \in Keys /\ adding' \in Seq(Maps \X Keys)
    BY AddingType DEF maps!InitReturns, MapIInv, MapInv
  <1>2. /\ o \notin made /\ made' = made \cup {o} /\ UNCHANGED <<data_, forgotten>>
        /\ owned' \in {owned, owned \cup {o}}
    BY DEF maps!InitReturns
  <1>3. o \notin Held /\ o \notin deleted /\ o \notin owned /\ made \subseteq Objs
        /\ deleted \subseteq Objs /\ forgotten \subseteq Objs
    <2>1. made \subseteq Objs /\ deleted \subseteq Objs /\ forgotten \subseteq Objs
      BY DEF MapIInv, MapInv, maps!TypeOK
    <2>2. Held \subseteq made \cup {None} /\ owned \subseteq made
      BY DEF MapIInv, MapInv, maps!TypeOK, Held
    <2>3. deleted \subseteq owned
      BY DEF MapIInv, ObjectsFollowEntries, maps!ObjectsFollowEntries
    <2> QED
      BY <1>2, <2>1, <2>2, <2>3, NoneIsNoObject
  <1>4. /\ owned \ (Held \cup forgotten) \subseteq deleted
        /\ deleted \cap Held = {} /\ deleted \subseteq owned /\ twice = {}
    BY DEF MapIInv, ObjectsFollowEntries, maps!ObjectsFollowEntries, Held
  <1>5. CASE maps!Has(m, k)
    <2>1. UNCHANGED entries_ /\ deleted' = deleted \cup ({o} \cap owned')
          /\ twice' = twice \cup ({o} \cap owned' \cap deleted)
      BY <1>5 DEF maps!InitReturns, maps!Delete
    <2>2. Held' = Held /\ maps!InMap(entries_)' = maps!InMap(entries_)
      BY <1>2, <2>1 DEF Held, maps!InMap, maps!Range
    <2>3. /\ owned' \ (Held' \cup forgotten') \subseteq deleted'
          /\ deleted' \cap Held' = {} /\ deleted' \subseteq owned' /\ twice' = {}
      BY <1>2, <1>3, <1>4, <2>1, <2>2
    <2>4. ObjectsFollowEntries'
      BY <2>3 DEF ObjectsFollowEntries, maps!ObjectsFollowEntries, Held
    <2>5. maps!TypeOK'
      <3>1. deleted' \subseteq Objs /\ owned' \subseteq Objs /\ twice' \subseteq Objs
            /\ made' \subseteq Objs /\ forgotten' \subseteq Objs
        BY <1>2, <1>3, <2>3 DEF MapIInv, MapInv, maps!TypeOK
      <3>2. data_' \in [Loose -> made' \cup {None}]
        BY <1>2 DEF MapIInv, MapInv, maps!TypeOK
      <3> QED
        BY <1>1, <1>2, <2>1, <2>2, <3>1, <3>2 DEF MapIInv, MapInv, maps!TypeOK
    <2> QED
      BY <1>2, <2>1, <2>2, <2>4, <2>5 DEF MapIInv, MapInv
  <1>6. CASE ~maps!Has(m, k)
    <2>1. /\ entries_' = [entries_ EXCEPT ![m] = [j \in DOMAIN @ \cup {k} |->
                                                    IF j = k THEN o ELSE @[j]]]
          /\ UNCHANGED <<deleted, twice>>
      BY <1>6 DEF maps!InitReturns
    <2>2. /\ \A n \in Maps \ {m} : entries_'[n] = entries_[n]
          /\ DOMAIN entries_'[m] = DOMAIN entries_[m] \cup {k} /\ entries_'[m][k] = o
          /\ \A j \in DOMAIN entries_[m] : entries_'[m][j] = entries_[m][j]
      <3>1. /\ \A n \in Maps \ {m} : entries_'[n] = entries_[n]
            /\ entries_'[m] = [j \in DOMAIN entries_[m] \cup {k} |-> IF j = k THEN o ELSE entries_[m][j]]
        BY <1>1, <2>1 DEF MapIInv, MapInv
      <3> QED
        BY <1>6, <3>1 DEF maps!Has
    <2>3. maps!InMap(entries_)' = maps!InMap(entries_) \cup {o}
      <3>1. ASSUME NEW x \in maps!InMap(entries_)
            PROVE  x \in maps!InMap(entries_')
        <4>1. PICK n \in Maps : \E j \in DOMAIN entries_[n] : entries_[n][j] = x
          BY InMapMember
        <4>2. PICK j \in DOMAIN entries_[n] : entries_[n][j] = x
          BY <4>1
        <4>3. j \in DOMAIN entries_'[n] /\ entries_'[n][j] = x
          BY <2>2, <4>2
        <4> QED
          BY <4>3, InMapMember
      <3>2. o \in maps!InMap(entries_')
        <4>1. k \in DOMAIN entries_'[m] /\ entries_'[m][k] = o
          BY <1>1, <2>2
        <4> QED
          BY <1>1, <4>1, InMapMember
      <3>3. ASSUME NEW x \in maps!InMap(entries_'), x # o
            PROVE  x \in maps!InMap(entries_)
        <4>1. PICK n \in Maps : \E j \in DOMAIN entries_'[n] : entries_'[n][j] = x
          BY InMapMember
        <4>2. PICK j \in DOMAIN entries_'[n] : entries_'[n][j] = x
          BY <4>1
        <4>3. j \in DOMAIN entries_[n] /\ entries_[n][j] = x
          <5>1. CASE n = m
            BY <2>2, <3>3, <4>2, <5>1
          <5>2. CASE n # m
            BY <2>2, <4>2, <5>2
          <5> QED
            BY <5>1, <5>2
        <4> QED
          BY <4>3, InMapMember
      <3>4. maps!InMap(entries_)' = maps!InMap(entries_')
        BY DEF maps!InMap, maps!Range
      <3> QED
        BY <3>1, <3>2, <3>3, <3>4
    <2>4. Held' = Held \cup {o}
      BY <1>2, <2>3 DEF Held
    <2>5. /\ owned' \ (Held' \cup forgotten') \subseteq deleted'
          /\ deleted' \cap Held' = {} /\ deleted' \subseteq owned' /\ twice' = {}
      BY <1>2, <1>3, <1>4, <2>1, <2>4
    <2>6. ObjectsFollowEntries'
      BY <2>5 DEF ObjectsFollowEntries, maps!ObjectsFollowEntries, Held
    <2>7. maps!TypeOK'
      <3>1. deleted' \subseteq Objs /\ owned' \subseteq Objs /\ twice' \subseteq Objs
            /\ made' \subseteq Objs /\ forgotten' \subseteq Objs
        BY <1>2, <1>3, <2>5 DEF MapIInv, MapInv, maps!TypeOK
      <3>2. data_' \in [Loose -> made' \cup {None}]
        BY <1>2 DEF MapIInv, MapInv, maps!TypeOK
      <3>3. \A n \in Maps : DOMAIN entries_'[n] \subseteq Keys
        BY <1>1, <2>2 DEF MapIInv, MapInv, maps!TypeOK
      <3>4. maps!InMap(entries_)' \subseteq made'
        BY <1>2, <2>3 DEF MapIInv, MapInv, maps!TypeOK
      <3> QED
        BY <1>1, <3>1, <3>2, <3>3, <3>4 DEF maps!TypeOK
    <2>8. entries_' = [n \in Maps |-> entries_'[n]]
      BY <2>1 DEF MapIInv, MapInv
    <2>9. \A e \in Loose : data_'[e] \notin maps!InMap(entries_)'
      BY <1>2, <1>3, <2>3 DEF MapIInv, MapInv, Held
    <2> QED
      BY <1>2, <2>6, <2>7, <2>8, <2>9 DEF MapIInv, MapInv
  <1> QED
    BY <1>5, <1>6

\* An add_entry begins, or its init throws: the stack changes and nothing else.
LEMMA AddingStep ==
  ASSUME MapIInv, maps!InitThrows \/ \E m \in Maps, k \in Keys : maps!AddEntry(m, k)
  PROVE  MapIInv'
  <1>1. adding' \in Seq(Maps \X Keys)
    <2>1. CASE maps!InitThrows
      BY <2>1, AddingType DEF maps!InitThrows, MapIInv, MapInv
    <2>2. ASSUME NEW m \in Maps, NEW k \in Keys, maps!AddEntry(m, k)
          PROVE  adding' \in Seq(Maps \X Keys)
      BY <2>2 DEF maps!AddEntry, MapIInv, MapInv, maps!TypeOK
    <2> QED
      BY <2>1, <2>2
  <1>2. UNCHANGED <<entries_, data_, owned, made, deleted, twice, forgotten>>
    BY DEF maps!InitThrows, maps!AddEntry
  <1>3. maps!InMap(entries_)' = maps!InMap(entries_)
    BY <1>2 DEF maps!InMap, maps!Range
  <1>4. maps!TypeOK'
    BY <1>1, <1>2, <1>3 DEF MapIInv, MapInv, maps!TypeOK
  <1>5. ObjectsFollowEntries'
    BY <1>2, <1>3 DEF MapIInv, ObjectsFollowEntries, maps!ObjectsFollowEntries
  <1> QED
    BY <1>2, <1>3, <1>4, <1>5 DEF MapIInv, MapInv

\* An entry of the program's own is made, moved or destroyed: the maps do not change, and
\* what the entries let go of is forgotten or deleted.
LEMMA LooseStep ==
  ASSUME MapIInv,
         \/ \E e \in Loose, o \in Objs, deletes \in BOOLEAN : maps!MakeEntry(e, o, deletes)
         \/ \E e, f \in Loose : e # f /\ maps!MoveEntry(e, f)
         \/ \E e \in Loose : maps!DestroyEntry(e)
  PROVE  MapIInv'
  <1> DEFINE Old == maps!InMap(entries_)
             Other == {data_[e] : e \in Loose}
  <1>1. /\ owned \ (Old \cup Other \cup forgotten) \subseteq deleted
        /\ deleted \cap (Old \cup Other) = {} /\ deleted \subseteq owned /\ twice = {}
    BY DEF MapIInv, ObjectsFollowEntries, maps!ObjectsFollowEntries
  <1>2. /\ Old \subseteq made /\ data_ \in [Loose -> made \cup {None}]
        /\ owned \subseteq made /\ made \subseteq Objs /\ deleted \subseteq Objs
        /\ forgotten \subseteq Objs /\ None \notin Objs
    BY NoneIsNoObject DEF MapIInv, MapInv, maps!TypeOK
  <1>3. /\ \A e \in Loose : data_[e] \notin Old
        /\ \A e, f \in Loose : data_[e] = data_[f] /\ data_[e] # None => e = f
    BY DEF MapIInv, MapInv
  <1>4. UNCHANGED <<entries_, adding>> /\ Old' = Old
    <2>1. UNCHANGED <<entries_, adding>>
      BY DEF maps!MakeEntry, maps!MoveEntry, maps!DestroyEntry
    <2> QED
      BY <2>1 DEF maps!InMap, maps!Range
  <1> HIDE DEF Old, Other
  <1>5. ASSUME /\ made' \subseteq Objs /\ made \subseteq made' /\ owned' \subseteq made'
               /\ forgotten' \subseteq Objs
               /\ data_' \in [Loose -> made' \cup {None}]
               /\ \A e \in Loose : data_'[e] \notin Old
               /\ \A e, f \in Loose : data_'[e] = data_'[f] /\ data_'[e] # None => e = f
               /\ owned' \ (Old \cup Other' \cup forgotten') \subseteq deleted'
               /\ deleted' \cap (Old \cup Other') = {} /\ deleted' \subseteq owned' /\ twice' = {}
        PROVE  MapIInv'
    <2>1. ObjectsFollowEntries'
      BY <1>4, <1>5 DEF ObjectsFollowEntries, maps!ObjectsFollowEntries, Old, Other
    <2>2. maps!TypeOK'
      <3>1. {owned', made', deleted', twice', forgotten'} \subseteq SUBSET Objs
        BY <1>5
      <3> QED
        BY <1>2, <1>4, <1>5, <3>1 DEF MapIInv, MapInv, maps!TypeOK, Old
    <2> QED
      BY <1>4, <1>5, <2>1, <2>2 DEF MapIInv, MapInv, Old
  <1>6. ASSUME NEW e \in Loose, NEW o \in Objs, NEW deletes \in BOOLEAN,
               maps!MakeEntry(e, o, deletes)
        PROVE  MapIInv'
    <2>1. /\ data_[e] = None /\ o \notin made /\ made' = made \cup {o}
          /\ owned' \in {owned, owned \cup {o}} /\ data_' = [data_ EXCEPT ![e] = o]
          /\ UNCHANGED <<deleted, twice, forgotten>>
      BY <1>6 DEF maps!MakeEntry
    <2>2. \A f \in Loose : data_'[f] = IF f = e THEN o ELSE data_[f]
      BY <1>2, <2>1
    <2>3. Other \cup {o} \subseteq Other' \cup {None} /\ Other' \subseteq Other \cup {o}
      BY <2>1, <2>2 DEF Other
    <2>4. data_' \in [Loose -> made' \cup {None}]
      BY <1>2, <2>1
    <2>5. \A f \in Loose : data_[f] # o
      BY <1>2, <2>1
    <2>6. /\ \A f \in Loose : data_'[f] \notin Old
          /\ \A f, g \in Loose : data_'[f] = data_'[g] /\ data_'[f] # None => f = g
      BY <1>2, <1>3, <2>1, <2>2, <2>5
    <2> QED
      BY <1>1, <1>2, <1>5, <2>1, <2>3, <2>4, <2>6
  <1>7. ASSUME NEW e \in Loose, NEW f \in Loose, e # f, maps!MoveEntry(e, f)
        PROVE  MapIInv'
    <2>1. /\ data_' = [data_ EXCEPT ![e] = data_[f], ![f] = None]
          /\ forgotten' = forgotten \cup ({data_[e]} \ {None})
          /\ UNCHANGED <<owned, made, deleted, twice>>
      BY <1>7 DEF maps!MoveEntry
    <2>2. \A g \in Loose : data_'[g] = IF g = f THEN None ELSE IF g = e THEN data_[f] ELSE data_[g]
      BY <1>2, <1>7, <2>1
    <2>3. Other \subseteq Other' \cup {data_[e]} /\ Other' \subseteq Other \cup {None}
      BY <1>7, <2>2 DEF Other
    <2>4. data_' \in [Loose -> made' \cup {None}]
      BY <1>2, <2>1
    <2>5. /\ \A g \in Loose : data_'[g] \notin Old
          /\ \A g, h \in Loose : data_'[g] = data_'[h] /\ data_'[g] # None => g = h
      BY <1>2, <1>3, <1>7, <2>2
    <2>6. owned' \ (Old \cup Other' \cup forgotten') \subseteq deleted'
      BY <1>1, <1>2, <2>1, <2>3
    <2>7. data_[e] \in made \cup {None}
      BY <1>2
    <2> QED
      BY <1>1, <1>2, <1>5, <2>1, <2>3, <2>4, <2>5, <2>6, <2>7
  <1>8. ASSUME NEW e \in Loose, maps!DestroyEntry(e)
        PROVE  MapIInv'
    <2>1. /\ data_[e] # None /\ data_' = [data_ EXCEPT ![e] = None]
          /\ UNCHANGED <<owned, made, forgotten>>
      BY <1>8 DEF maps!DestroyEntry
    <2>2. /\ deleted' = deleted \cup ({data_[e]} \cap owned)
          /\ twice' = twice \cup ({data_[e]} \cap owned \cap deleted)
      BY <1>8, <2>1 DEF maps!DestroyEntry, maps!Delete
    <2>3. \A g \in Loose : data_'[g] = IF g = e THEN None ELSE data_[g]
      BY <1>2, <2>1
    <2>4. /\ Other \subseteq Other' \cup {data_[e]} /\ Other' \subseteq Other \cup {None}
          /\ data_[e] \notin Other' /\ data_[e] \in Other
      BY <1>3, <2>1, <2>3 DEF Other
    <2>5. data_' \in [Loose -> made' \cup {None}]
      BY <1>2, <2>1
    <2>6. /\ \A g \in Loose : data_'[g] \notin Old
          /\ \A g, h \in Loose : data_'[g] = data_'[h] /\ data_'[g] # None => g = h
      BY <1>2, <1>3, <2>3
    <2>7. data_[e] \notin Old /\ data_[e] \in made
      BY <1>2, <1>3, <2>1
    <2>8. owned' \ (Old \cup Other' \cup forgotten') \subseteq deleted'
      BY <1>1, <2>1, <2>2, <2>4
    <2>9. deleted' \cap (Old \cup Other') = {} /\ deleted' \subseteq owned' /\ twice' = {}
      BY <1>1, <1>2, <2>1, <2>2, <2>4, <2>7
    <2> QED
      BY <1>2, <1>5, <2>1, <2>5, <2>6, <2>8, <2>9
  <1> QED
    BY <1>6, <1>7, <1>8

\* Every operation of maps and entries keeps the invariant.
LEMMA MapStep == MapIInv /\ [maps!Next]_mapVars => MapIInv'
  <1> SUFFICES ASSUME MapIInv, [maps!Next]_mapVars PROVE MapIInv'
    OBVIOUS
  <1>1. CASE UNCHANGED mapVars
    <2>1. UNCHANGED <<entries_, data_, owned, made, adding, deleted, twice, forgotten>>
      BY <1>1 DEF mapVars
    <2>2. maps!InMap(entries_)' = maps!InMap(entries_)
      BY <2>1 DEF maps!InMap, maps!Range
    <2> QED
      BY <2>1, <2>2 DEF MapIInv, MapInv, maps!TypeOK, ObjectsFollowEntries,
                        maps!ObjectsFollowEntries
  <1>2. CASE maps!Next
    BY <1>2, SharingStep, InitReturnsStep, AddingStep, LooseStep DEF maps!Next
  <1> QED
    BY <1>1, <1>2

\* A program starts without maps and entries.
LEMMA MapInit == maps!Init => MapIInv
  <1> SUFFICES ASSUME maps!Init PROVE MapIInv
    OBVIOUS
  <1>1. \A m \in Maps : entries_[m] = <<>> /\ DOMAIN entries_[m] = {}
    BY DEF maps!Init
  <1>2. maps!InMap(entries_) = {}
    BY <1>1, InMapMember
  <1>3. \A e \in Loose : data_[e] = None
    BY DEF maps!Init
  <1>4. maps!TypeOK
    BY <1>1, <1>2 DEF maps!Init, maps!TypeOK
  <1> QED
    BY <1>2, <1>3, <1>4 DEF maps!Init, MapIInv, MapInv, ObjectsFollowEntries,
                            maps!ObjectsFollowEntries

-------------------------------------------------------------------------------

\* What comes before position k.
LEMMA PrefixIs ==
  ASSUME NEW S, NEW s \in Seq(S), NEW k \in 1 .. Len(s) + 1
  PROVE  /\ SubSeq(s, 1, k - 1) \in Seq(S) /\ Len(SubSeq(s, 1, k - 1)) = k - 1
         /\ \A j \in 1 .. k - 1 : SubSeq(s, 1, k - 1)[j] = s[j]
  OBVIOUS

\* What RemoveAt returns, position by position.
LEMMA RemoveAtIs ==
  ASSUME NEW S, NEW s \in Seq(S), NEW k \in 1 .. Len(s)
  PROVE  /\ lists!RemoveAt(s, k) \in Seq(S) /\ Len(lists!RemoveAt(s, k)) = Len(s) - 1
         /\ \A j \in 1 .. Len(s) - 1 :
              lists!RemoveAt(s, k)[j] = IF j < k THEN s[j] ELSE s[j + 1]
  <1> DEFINE x == SubSeq(s, 1, k - 1)
             y == SubSeq(s, k + 1, Len(s))
  <1>0. Len(s) \in Nat /\ k \in Nat
    OBVIOUS
  <1>1. x \in Seq(S) /\ Len(x) = k - 1 /\ \A j \in 1 .. k - 1 : x[j] = s[j]
    OBVIOUS
  <1>2. y \in Seq(S) /\ Len(y) = Len(s) - k /\ \A j \in 1 .. Len(s) - k : y[j] = s[k + j]
    OBVIOUS
  <1>3. lists!RemoveAt(s, k) = x \o y
    BY DEF lists!RemoveAt
  <1> HIDE DEF x, y
  <1>4. x \o y \in Seq(S) /\ Len(x \o y) = Len(s) - 1
    <2>1. x \in Seq(S) /\ y \in Seq(S)
      BY <1>1, <1>2
    <2>2. x \o y \in Seq(S) /\ Len(x \o y) = Len(x) + Len(y)
      BY <2>1
    <2> QED
      BY <1>0, <1>1, <1>2, <2>2
  <1>5. ASSUME NEW j \in 1 .. Len(s) - 1
        PROVE  (x \o y)[j] = IF j < k THEN s[j] ELSE s[j + 1]
    <2>1. CASE j < k
      BY <1>1, <1>2, <2>1
    <2>2. CASE ~(j < k)
      <3>1. (x \o y)[j] = y[j - (k - 1)]
        BY <1>1, <1>2, <2>2
      <3>2. j - (k - 1) \in 1 .. Len(s) - k /\ k + (j - (k - 1)) = j + 1
        BY <2>2
      <3> QED
        BY <1>2, <2>2, <3>1, <3>2
    <2> QED
      BY <1>0, <2>1, <2>2
  <1> QED
    BY <1>3, <1>4, <1>5

\* What InsertAt returns, position by position.
LEMMA InsertAtIs ==
  ASSUME NEW S, NEW s \in Seq(S), NEW k \in 1 .. Len(s) + 1, NEW e \in S
  PROVE  /\ lists!InsertAt(s, k, e) \in Seq(S) /\ Len(lists!InsertAt(s, k, e)) = Len(s) + 1
         /\ \A j \in 1 .. Len(s) + 1 :
              lists!InsertAt(s, k, e)[j] = IF j < k THEN s[j] ELSE IF j = k THEN e ELSE s[j - 1]
  <1> DEFINE x == SubSeq(s, 1, k - 1)
             y == SubSeq(s, k, Len(s))
             xe == x \o <<e>>
  <1>0. Len(s) \in Nat /\ k \in Nat
    OBVIOUS
  <1>1. x \in Seq(S) /\ Len(x) = k - 1 /\ \A j \in 1 .. k - 1 : x[j] = s[j]
    OBVIOUS
  <1>2. y \in Seq(S) /\ Len(y) = Len(s) - k + 1 /\ \A j \in 1 .. Len(s) - k + 1 : y[j] = s[k + j - 1]
    OBVIOUS
  <1>3. lists!InsertAt(s, k, e) = xe \o y
    BY DEF lists!InsertAt
  <1> HIDE DEF x, y
  <1>4. xe \in Seq(S) /\ Len(xe) = k /\ xe[k] = e /\ \A j \in 1 .. k - 1 : xe[j] = s[j]
    BY <1>1
  <1> HIDE DEF xe
  <1>5. xe \o y \in Seq(S) /\ Len(xe \o y) = Len(s) + 1
    <2>1. xe \o y \in Seq(S) /\ Len(xe \o y) = Len(xe) + Len(y)
      BY <1>2, <1>4
    <2> QED
      BY <1>0, <1>2, <1>4, <2>1
  <1>6. ASSUME NEW j \in 1 .. Len(s) + 1
        PROVE  (xe \o y)[j] = IF j < k THEN s[j] ELSE IF j = k THEN e ELSE s[j - 1]
    <2>1. CASE j <= k
      BY <1>4, <1>2, <2>1
    <2>2. CASE ~(j <= k)
      <3>1. (xe \o y)[j] = y[j - k]
        BY <1>4, <1>2, <2>2
      <3>2. j - k \in 1 .. Len(s) - k + 1 /\ k + (j - k) - 1 = j - 1
        BY <2>2
      <3> QED
        BY <1>2, <2>2, <3>1, <3>2
    <2> QED
      BY <1>0, <2>1, <2>2
  <1> QED
    BY <1>3, <1>5, <1>6

\* A removal takes one element out of a sequence without repetitions, and leaves none.
LEMMA RemoveAtSet ==
  ASSUME NEW S, NEW s \in Seq(S), NEW k \in 1 .. Len(s), lists!IsInjective(s)
  PROVE  /\ lists!ToSet(lists!RemoveAt(s, k)) = lists!ToSet(s) \ {s[k]}
         /\ lists!IsInjective(lists!RemoveAt(s, k))
  <1> DEFINE r == lists!RemoveAt(s, k)
  <1>1. /\ r \in Seq(S) /\ Len(r) = Len(s) - 1 /\ Len(s) \in Nat
        /\ \A j \in 1 .. Len(s) - 1 : r[j] = IF j < k THEN s[j] ELSE s[j + 1]
    BY RemoveAtIs
  <1>2. DOMAIN r = 1 .. Len(s) - 1 /\ DOMAIN s = 1 .. Len(s)
    BY <1>1
  <1>3. \A j, l \in 1 .. Len(s) : s[j] = s[l] => j = l
    BY <1>2 DEF lists!IsInjective
  <1> HIDE DEF r
  <1>4. \A j \in DOMAIN r : r[j] \in lists!ToSet(s) \ {s[k]}
    <2> SUFFICES ASSUME NEW j \in 1 .. Len(s) - 1
                 PROVE  r[j] \in lists!ToSet(s) \ {s[k]}
      BY <1>2
    <2>1. PICK l \in 1 .. Len(s) : r[j] = s[l] /\ l # k
      <3>1. CASE j < k
        BY <1>1, <3>1
      <3>2. CASE ~(j < k)
        <4>1. j + 1 \in 1 .. Len(s) /\ j + 1 # k
          BY <1>1, <3>2
        <4> QED
          BY <1>1, <3>2, <4>1
      <3> QED
        BY <3>1, <3>2
    <2> QED
      BY <1>2, <1>3, <2>1 DEF lists!ToSet
  <1>5. ASSUME NEW l \in 1 .. Len(s), l # k
        PROVE  \E j \in DOMAIN r : r[j] = s[l]
    <2>1. CASE l < k
      BY <1>1, <1>2, <2>1
    <2>2. CASE ~(l < k)
      <3>1. l - 1 \in 1 .. Len(s) - 1 /\ ~(l - 1 < k) /\ (l - 1) + 1 = l
        BY <1>1, <1>5, <2>2
      <3> QED
        BY <1>1, <1>2, <3>1
    <2> QED
      BY <2>1, <2>2
  <1>6. lists!ToSet(r) = lists!ToSet(s) \ {s[k]}
    BY <1>2, <1>4, <1>5 DEF lists!ToSet
  <1>7. ASSUME NEW j \in 1 .. Len(s) - 1, NEW l \in 1 .. Len(s) - 1, r[j] = r[l]
        PROVE  j = l
    <2> DEFINE at(x) == IF x < k THEN x ELSE x + 1
    <2>1. at(j) \in 1 .. Len(s) /\ at(l) \in 1 .. Len(s) /\ r[j] = s[at(j)] /\ r[l] = s[at(l)]
      BY <1>1
    <2>2. at(j) = at(l)
      BY <1>3, <1>7, <2>1
    <2> QED
      BY <1>1, <2>2
  <1> QED
    BY <1>2, <1>6, <1>7 DEF lists!IsInjective, r

\* An insertion adds one element, and a new one is no repetition.
LEMMA InsertAtSet ==
  ASSUME NEW S, NEW s \in Seq(S), NEW k \in 1 .. Len(s) + 1, NEW e \in S,
         lists!IsInjective(s), e \notin lists!ToSet(s)
  PROVE  /\ lists!ToSet(lists!InsertAt(s, k, e)) = lists!ToSet(s) \cup {e}
         /\ lists!IsInjective(lists!InsertAt(s, k, e))
  <1> DEFINE r == lists!InsertAt(s, k, e)
  <1>1. /\ r \in Seq(S) /\ Len(r) = Len(s) + 1 /\ Len(s) \in Nat
        /\ \A j \in 1 .. Len(s) + 1 : r[j] = IF j < k THEN s[j] ELSE IF j = k THEN e ELSE s[j - 1]
    BY InsertAtIs, SMTT(60)
  <1>2. DOMAIN r = 1 .. Len(s) + 1 /\ DOMAIN s = 1 .. Len(s)
    BY <1>1
  <1>3. \A j, l \in 1 .. Len(s) : s[j] = s[l] => j = l
    BY <1>2 DEF lists!IsInjective
  <1>4. \A j \in 1 .. Len(s) : s[j] # e
    BY <1>2 DEF lists!ToSet
  <1> HIDE DEF r
  <1>5. \A j \in 1 .. Len(s) + 1 : j # k => (IF j < k THEN j ELSE j - 1) \in 1 .. Len(s)
    BY <1>1
  <1>6. \A j \in 1 .. Len(s) + 1 : j # k => r[j] = s[IF j < k THEN j ELSE j - 1]
    BY <1>1
  <1>7. r[k] = e
    BY <1>1
  <1>8. ASSUME NEW l \in 1 .. Len(s)
        PROVE  \E j \in 1 .. Len(s) + 1 : r[j] = s[l]
    <2>1. CASE l < k
      BY <1>1, <2>1
    <2>2. CASE ~(l < k)
      <3>1. l + 1 \in 1 .. Len(s) + 1 /\ ~(l + 1 < k) /\ l + 1 # k /\ (l + 1) - 1 = l
        BY <1>1, <2>2
      <3> QED
        BY <1>1, <3>1
    <2> QED
      BY <2>1, <2>2
  <1>9. lists!ToSet(r) = lists!ToSet(s) \cup {e}
    <2>1. \A j \in DOMAIN r : r[j] \in lists!ToSet(s) \cup {e}
      BY <1>2, <1>5, <1>6, <1>7 DEF lists!ToSet
    <2>2. \A x \in lists!ToSet(s) : \E j \in DOMAIN r : r[j] = x
      BY <1>2, <1>8 DEF lists!ToSet
    <2>3. \E j \in DOMAIN r : r[j] = e
      BY <1>1, <1>2, <1>7
    <2> QED
      BY <2>1, <2>2, <2>3 DEF lists!ToSet
  <1>10. ASSUME NEW j \in 1 .. Len(s) + 1, NEW l \in 1 .. Len(s) + 1, r[j] = r[l]
         PROVE  j = l
    <2>1. CASE j = k \/ l = k
      BY <1>4, <1>5, <1>6, <1>7, <1>10, <2>1
    <2>2. CASE j # k /\ l # k
      <3>1. (IF j < k THEN j ELSE j - 1) = (IF l < k THEN l ELSE l - 1)
        BY <1>3, <1>5, <1>6, <1>10, <2>2
      <3> QED
        BY <1>1, <2>2, <3>1
    <2> QED
      BY <2>1, <2>2
  <1> QED
    BY <1>2, <1>9, <1>10 DEF lists!IsInjective, r

\* pop_back takes the last position.
LEMMA FrontIsRemoveAt ==
  ASSUME NEW S, NEW s \in Seq(S), s # <<>>
  PROVE  lists!Front(s) = lists!RemoveAt(s, Len(s)) /\ Len(s) \in 1 .. Len(s)
  <1>1. Len(s) \in 1 .. Len(s)
    OBVIOUS
  <1> DEFINE f == SubSeq(s, 1, Len(s) - 1)
             r == lists!RemoveAt(s, Len(s))
  <1>2. f \in Seq(S) /\ Len(f) = Len(s) - 1 /\ \A j \in 1 .. Len(s) - 1 : f[j] = s[j]
    <2>1. Len(s) \in 1 .. Len(s) + 1
      BY <1>1
    <2> QED
      BY <2>1, PrefixIs
  <1>3. /\ r \in Seq(S) /\ Len(r) = Len(s) - 1
        /\ \A j \in 1 .. Len(s) - 1 : r[j] = IF j < Len(s) THEN s[j] ELSE s[j + 1]
    BY <1>1, RemoveAtIs
  <1> HIDE DEF f, r
  <1>4. \A j \in 1 .. Len(s) - 1 : f[j] = r[j]
    BY <1>2, <1>3
  <1>5. f = r
    BY <1>2, <1>3, <1>4
  <1> QED
    BY <1>1, <1>5 DEF lists!Front, f, r

-------------------------------------------------------------------------------

NodesOf(h) == lists!ToSet(lst[h])

\* The map of h leads from the value of each of its nodes to that node, and from nothing
\* else.
IndexIsExact(h) ==
  /\ \A v \in DOMAIN umap[h] : umap[h][v] \in NodesOf(h) /\ val[umap[h][v]] = v
  /\ \A n \in NodesOf(h) : val[n] \in DOMAIN umap[h] /\ umap[h][val[n]] = n

\* The inductive invariant of hash lists: a node is in one place of one list, and not
\* free there; the index is exact where no copy and no erase by reference came in.
ListInv ==
  /\ lists!TypeOK
  /\ umap = [h \in Lists |-> umap[h]]
  /\ \A h \in Lists : lists!IsInjective(lst[h]) /\ \A n \in NodesOf(h) : val[n] \in Values
  /\ \A g, h \in Lists : g # h => NodesOf(g) \cap NodesOf(h) = {}
  /\ \A h \in Lists \ tainted : IndexIsExact(h)
  /\ listFate = "undefined" => tainted # {}

\* What is the same for an object that an operation leaves alone.
Untouched(h) ==
  /\ lst'[h] = lst[h] /\ umap'[h] = umap[h]
  /\ h \in tainted' <=> h \in tainted
  /\ \A n \in NodesOf(h) : val'[n] = val[n]

\* The invariant is the property, and more.
LEMMA ListInvInStep == ListInv => InStep
  <1> SUFFICES ASSUME ListInv PROVE InStep
    OBVIOUS
  <1>1. ASSUME NEW h \in Lists \ tainted
        PROVE  /\ DOMAIN umap[h] = {val[lst[h][k]] : k \in DOMAIN lst[h]}
               /\ \A v \in DOMAIN umap[h] : lists!Contains(lst[h], umap[h][v]) /\ val[umap[h][v]] = v
    <2>1. DOMAIN lst[h] = 1 .. Len(lst[h])
      BY DEF ListInv, lists!TypeOK
    <2>2. IndexIsExact(h)
      BY DEF ListInv
    <2> QED
      BY <2>1, <2>2 DEF IndexIsExact, NodesOf, lists!ToSet, lists!Contains
  <1> QED
    BY <1>1 DEF InStep, lists!InStep, ListInv, NodesOf

\* What a step has to see to for an object that it changes.
Kept(h) ==
  /\ lists!IsInjective(lst'[h])
  /\ \A n \in NodesOf(h)' : val'[n] \in Values
  /\ DOMAIN umap'[h] \subseteq Values
  /\ \A v \in DOMAIN umap'[h] : umap'[h][v] \in Nodes
  /\ h \notin tainted' => IndexIsExact(h)'
  /\ \A g \in Lists : g # h => NodesOf(g)' \cap NodesOf(h)' = {}

\* A step keeps the invariant if it does so for the objects that it changes and takes
\* no node of another.
LEMMA Frame ==
  ASSUME ListInv, NEW H \in SUBSET Lists,
         lst' \in [Lists -> Seq(Nodes)],
         umap' = [h \in Lists |-> umap'[h]],
         val' \in [Nodes -> Values \cup {None}],
         tainted' \subseteq Lists,
         listFate' = "ok",
         \A h \in Lists \ H : Untouched(h),
         \A h \in H : Kept(h)
  PROVE  ListInv'
  <1>1. \A h \in Lists \ H : NodesOf(h)' = NodesOf(h)
    BY DEF Untouched, NodesOf
  <1>2. lists!TypeOK'
    <2>1. \A h \in Lists : DOMAIN umap'[h] \subseteq Values
                           /\ \A v \in DOMAIN umap'[h] : umap'[h][v] \in Nodes
      BY DEF ListInv, lists!TypeOK, Untouched, Kept
    <2> QED
      BY <2>1 DEF lists!TypeOK
  <1>3. ASSUME NEW h \in Lists
        PROVE  lists!IsInjective(lst'[h]) /\ \A n \in NodesOf(h)' : val'[n] \in Values
    <2>1. CASE h \in H
      BY <2>1 DEF Kept
    <2>2. CASE h \notin H
      <3>1. Untouched(h) /\ lists!IsInjective(lst[h]) /\ \A n \in NodesOf(h) : val[n] \in Values
        BY <2>2 DEF ListInv
      <3> QED
        BY <1>1, <2>2, <3>1 DEF Untouched
    <2> QED
      BY <2>1, <2>2
  <1>4. \A g, h \in Lists : g # h => NodesOf(g)' \cap NodesOf(h)' = {}
    BY <1>1 DEF ListInv, Kept
  <1>5. ASSUME NEW h \in Lists \ tainted'
        PROVE  IndexIsExact(h)'
    <2>1. CASE h \in H
      BY <2>1 DEF Kept
    <2>2. CASE h \notin H
      <3>1. Untouched(h) /\ IndexIsExact(h)
        BY <2>2 DEF ListInv, Untouched
      <3> QED
        <4>1. /\ NodesOf(h)' = NodesOf(h) /\ umap'[h] = umap[h]
              /\ \A n \in NodesOf(h) : val'[n] = val[n]
          BY <1>1, <2>2, <3>1 DEF Untouched
        <4>2. /\ \A v \in DOMAIN umap'[h] : umap'[h][v] \in NodesOf(h)' /\ val'[umap'[h][v]] = v
              /\ \A n \in NodesOf(h)' : val'[n] \in DOMAIN umap'[h] /\ umap'[h][val'[n]] = n
          BY <3>1, <4>1 DEF IndexIsExact
        <4> QED
          BY <4>2 DEF IndexIsExact
    <2> QED
      BY <2>1, <2>2
  <1> QED
    BY <1>2, <1>3, <1>4, <1>5 DEF ListInv

\* push_back and insert of a value that the list does not have.
LEMMA InsertStep ==
  ASSUME ListInv, listFate = "ok", NEW h \in Lists, NEW v \in Values,
         NEW k \in 1 .. Len(lst[h]) + 1, NEW n \in lists!Free, ~lists!Has(h, v),
         val' = [val EXCEPT ![n] = v],
         lst' = [lst EXCEPT ![h] = lists!InsertAt(@, k, n)],
         umap' = lists!Indexed(h, v, n),
         UNCHANGED <<tainted, listFate>>
  PROVE  ListInv' /\ \A g \in Lists \ {h} : Untouched(g)
  <1>1. /\ lst \in [Lists -> Seq(Nodes)] /\ val \in [Nodes -> Values \cup {None}]
        /\ n \in Nodes /\ val[n] = None /\ tainted \subseteq Lists
        /\ umap = [g \in Lists |-> umap[g]]
    BY DEF ListInv, lists!TypeOK, lists!Free
  <1>2. \A g \in Lists : n \notin NodesOf(g)
    BY <1>1, NoneIsNoValue DEF ListInv
  <1>3. /\ lst'[h] = lists!InsertAt(lst[h], k, n) /\ \A g \in Lists \ {h} : lst'[g] = lst[g]
        /\ \A m \in Nodes : val'[m] = IF m = n THEN v ELSE val[m]
    BY <1>1
  <1>4. /\ \A g \in Lists \ {h} : umap'[g] = umap[g]
        /\ umap'[h] = [w \in DOMAIN umap[h] \cup {v} |-> IF w = v THEN n ELSE umap[h][w]]
        /\ umap' = [g \in Lists |-> umap'[g]]
    BY <1>1 DEF lists!Indexed
  <1>5. \A g \in Lists : NodesOf(g) \subseteq Nodes
    BY <1>1 DEF NodesOf, lists!ToSet
  <1>6. \A g \in Lists \ {h} : Untouched(g) /\ NodesOf(g)' = NodesOf(g)
    BY <1>2, <1>3, <1>4, <1>5 DEF Untouched, NodesOf
  <1>7. /\ NodesOf(h)' = NodesOf(h) \cup {n} /\ lists!IsInjective(lst'[h])
        /\ lst'[h] \in Seq(Nodes)
    <2>1. lst[h] \in Seq(Nodes) /\ n \notin lists!ToSet(lst[h]) /\ lists!IsInjective(lst[h])
      BY <1>1, <1>2 DEF NodesOf, ListInv
    <2> QED
      BY <1>1, <1>3, <2>1, InsertAtIs, InsertAtSet DEF NodesOf
  <1>8. /\ DOMAIN umap[h] \subseteq Values /\ \A w \in DOMAIN umap[h] : umap[h][w] \in Nodes
        /\ \A m \in NodesOf(h) : val[m] \in Values
    BY DEF ListInv, lists!TypeOK
  <1>9. ASSUME h \notin tainted
        PROVE  IndexIsExact(h)'
    <2>1. IndexIsExact(h) /\ v \notin DOMAIN umap[h]
      BY <1>9 DEF ListInv, lists!Has
    <2>2. /\ DOMAIN umap'[h] = DOMAIN umap[h] \cup {v} /\ umap'[h][v] = n
          /\ \A w \in DOMAIN umap[h] : umap'[h][w] = umap[h][w]
      BY <1>4, <2>1
    <2>3. /\ val'[n] = v /\ \A m \in NodesOf(h) : val'[m] = val[m]
      BY <1>1, <1>2, <1>3, <1>5
    <2> QED
      BY <1>7, <2>1, <2>2, <2>3 DEF IndexIsExact
  <1>10. lst' \in [Lists -> Seq(Nodes)] /\ val' \in [Nodes -> Values \cup {None}]
    <2>1. lists!InsertAt(lst[h], k, n) \in Seq(Nodes)
      BY <1>3, <1>7
    <2> QED
      BY <1>1, <2>1
  <1>11. \A m \in NodesOf(h)' : val'[m] \in Values
    BY <1>1, <1>3, <1>5, <1>7, <1>8
  <1>12. DOMAIN umap'[h] \subseteq Values /\ \A w \in DOMAIN umap'[h] : umap'[h][w] \in Nodes
    BY <1>1, <1>4, <1>8
  <1>13. \A g \in Lists : g # h => NodesOf(g)' \cap NodesOf(h)' = {}
    BY <1>2, <1>6, <1>7 DEF ListInv
  <1>14. ListInv'
    <2>1. {h} \in SUBSET Lists /\ \A g \in Lists \ {h} : Untouched(g)
      BY <1>6
    <2>2. Kept(h)
      BY <1>7, <1>9, <1>11, <1>12, <1>13 DEF Kept
    <2>3. umap' = [g \in Lists |-> umap'[g]] /\ tainted' \subseteq Lists /\ listFate' = "ok"
      BY <1>1, <1>4
    <2> QED
      BY <1>10, <2>1, <2>2, <2>3, Frame
  <1> QED
    BY <1>6, <1>14

\* A node goes and a value goes from the map: pop_back and erase. Where the value is not
\* the one of the node, the object is tainted.
LEMMA RemoveStep ==
  ASSUME ListInv, listFate = "ok", NEW h \in Lists, NEW k \in 1 .. Len(lst[h]), NEW w,
         val' = lists!Freed({lst[h][k]}),
         lst' = [lst EXCEPT ![h] = lists!RemoveAt(@, k)],
         umap' = [umap EXCEPT ![h] = lists!Without(@, w)],
         tainted' \in {tainted, tainted \cup {h}},
         h \notin tainted' => w = val[lst[h][k]],
         UNCHANGED listFate
  PROVE  ListInv' /\ \A g \in Lists \ {h} : Untouched(g)
  <1> DEFINE n == lst[h][k]
  <1>1. /\ lst \in [Lists -> Seq(Nodes)] /\ val \in [Nodes -> Values \cup {None}]
        /\ tainted \subseteq Lists /\ umap = [g \in Lists |-> umap[g]]
    BY DEF ListInv, lists!TypeOK
  <1>2. /\ lst[h] \in Seq(Nodes) /\ DOMAIN lst[h] = 1 .. Len(lst[h])
        /\ n \in NodesOf(h) /\ n \in Nodes
    BY <1>1 DEF NodesOf, lists!ToSet
  <1>3. \A g \in Lists \ {h} : n \notin NodesOf(g)
    BY <1>2 DEF ListInv
  <1>4. \A g \in Lists : NodesOf(g) \subseteq Nodes
    BY <1>1 DEF NodesOf, lists!ToSet
  <1>5. /\ lst'[h] = lists!RemoveAt(lst[h], k) /\ \A g \in Lists \ {h} : lst'[g] = lst[g]
        /\ val' = [m \in Nodes |-> IF m = n THEN None ELSE val[m]]
    BY <1>1 DEF lists!Freed
  <1>6. /\ \A g \in Lists \ {h} : umap'[g] = umap[g]
        /\ umap'[h] = [x \in DOMAIN umap[h] \ {w} |-> umap[h][x]]
        /\ umap' = [g \in Lists |-> umap'[g]]
    BY <1>1 DEF lists!Without
  <1> HIDE DEF n
  <1>7. \A m \in Nodes \ {n} : val'[m] = val[m]
    BY <1>5
  <1>8. \A g \in Lists \ {h} : Untouched(g) /\ NodesOf(g)' = NodesOf(g)
    BY <1>3, <1>4, <1>5, <1>6, <1>7 DEF Untouched, NodesOf
  <1>9. /\ NodesOf(h)' = NodesOf(h) \ {n} /\ lists!IsInjective(lst'[h])
        /\ lists!RemoveAt(lst[h], k) \in Seq(Nodes)
    <2>1. lists!IsInjective(lst[h])
      BY DEF ListInv
    <2> QED
      BY <1>2, <1>5, <2>1, RemoveAtIs, RemoveAtSet DEF NodesOf, n
  <1>10. /\ DOMAIN umap[h] \subseteq Values /\ \A x \in DOMAIN umap[h] : umap[h][x] \in Nodes
         /\ \A m \in NodesOf(h) : val[m] \in Values
    BY DEF ListInv, lists!TypeOK
  <1>11. ASSUME h \notin tainted'
         PROVE  IndexIsExact(h)'
    <2>1. IndexIsExact(h) /\ w = val[n]
      BY <1>11 DEF ListInv, n
    <2>2. /\ DOMAIN umap'[h] = DOMAIN umap[h] \ {w}
          /\ \A x \in DOMAIN umap[h] \ {w} : umap'[h][x] = umap[h][x]
      BY <1>6
    <2>3. \A m \in NodesOf(h) \ {n} : val'[m] = val[m]
      BY <1>4, <1>7
    <2>4. /\ \A x \in DOMAIN umap[h] \ {w} : umap[h][x] # n
          /\ \A m \in NodesOf(h) \ {n} : val[m] # w
      BY <1>2, <2>1 DEF IndexIsExact
    <2> QED
      <3>1. ASSUME NEW x \in DOMAIN umap'[h]
            PROVE  umap'[h][x] \in NodesOf(h)' /\ val'[umap'[h][x]] = x
        <4>1. x \in DOMAIN umap[h] /\ x # w /\ umap'[h][x] = umap[h][x]
          BY <2>2
        <4>2. umap[h][x] \in NodesOf(h) \ {n} /\ val[umap[h][x]] = x
          BY <2>1, <2>4, <4>1 DEF IndexIsExact
        <4> QED
          BY <1>9, <2>3, <4>1, <4>2
      <3>2. ASSUME NEW m \in NodesOf(h)'
            PROVE  val'[m] \in DOMAIN umap'[h] /\ umap'[h][val'[m]] = m
        <4>1. m \in NodesOf(h) \ {n} /\ val'[m] = val[m]
          BY <1>9, <2>3
        <4>2. val[m] \in DOMAIN umap[h] \ {w} /\ umap[h][val[m]] = m
          BY <2>1, <2>4, <4>1 DEF IndexIsExact
        <4> QED
          BY <2>2, <4>1, <4>2
      <3> QED
        BY <3>1, <3>2 DEF IndexIsExact
  <1>12. lst' \in [Lists -> Seq(Nodes)] /\ val' \in [Nodes -> Values \cup {None}]
    BY <1>1, <1>5, <1>9
  <1>13. Kept(h)
    <2>1. \A m \in NodesOf(h)' : val'[m] \in Values
      BY <1>4, <1>7, <1>9, <1>10
    <2>2. DOMAIN umap'[h] \subseteq Values /\ \A x \in DOMAIN umap'[h] : umap'[h][x] \in Nodes
      BY <1>6, <1>10
    <2>3. \A g \in Lists : g # h => NodesOf(g)' \cap NodesOf(h)' = {}
      BY <1>8, <1>9 DEF ListInv
    <2> QED
      BY <1>9, <1>11, <2>1, <2>2, <2>3 DEF Kept
  <1>14. /\ {h} \in SUBSET Lists /\ \A g \in Lists \ {h} : Untouched(g)
         /\ \A g \in {h} : Kept(g)
    BY <1>8, <1>13
  <1>15. umap' = [g \in Lists |-> umap'[g]] /\ tainted' \subseteq Lists /\ listFate' = "ok"
    BY <1>1, <1>6
  <1>16. ListInv'
    BY <1>12, <1>14, <1>15, Frame
  <1> QED
    BY <1>8, <1>16

\* clear(), and the end of an object.
LEMMA ClearStep ==
  ASSUME ListInv, listFate = "ok", NEW h \in Lists, lists!Clear(h)
  PROVE  ListInv' /\ \A g \in Lists \ {h} : Untouched(g)
  <1>1. /\ lst \in [Lists -> Seq(Nodes)] /\ val \in [Nodes -> Values \cup {None}]
        /\ tainted \subseteq Lists /\ umap = [g \in Lists |-> umap[g]]
    BY DEF ListInv, lists!TypeOK
  <1>2. \A g \in Lists : NodesOf(g) \subseteq Nodes
    BY <1>1 DEF NodesOf, lists!ToSet
  <1>3. /\ lst'[h] = <<>> /\ \A g \in Lists \ {h} : lst'[g] = lst[g]
        /\ umap'[h] = <<>> /\ \A g \in Lists \ {h} : umap'[g] = umap[g]
        /\ umap' = [g \in Lists |-> umap'[g]]
        /\ val' = [m \in Nodes |-> IF m \in NodesOf(h) THEN None ELSE val[m]]
        /\ tainted' = tainted \ {h} /\ listFate' = "ok"
    BY <1>1 DEF lists!Clear, lists!Freed, NodesOf
  <1>4. \A g \in Lists \ {h} : NodesOf(g) \cap NodesOf(h) = {}
    BY DEF ListInv
  <1>5. \A g \in Lists \ {h} : Untouched(g) /\ NodesOf(g)' = NodesOf(g)
    BY <1>2, <1>3, <1>4 DEF Untouched, NodesOf
  <1>6. NodesOf(h)' = {} /\ DOMAIN umap'[h] = {} /\ DOMAIN lst'[h] = {}
    BY <1>3 DEF NodesOf, lists!ToSet
  <1>7. Kept(h)
    BY <1>6 DEF Kept, IndexIsExact, lists!IsInjective
  <1>8. lst' \in [Lists -> Seq(Nodes)] /\ val' \in [Nodes -> Values \cup {None}]
    BY <1>1, <1>3 DEF lists!Clear
  <1>9. {h} \in SUBSET Lists /\ tainted' \subseteq Lists
    BY <1>1, <1>3
  <1>10. ListInv'
    BY <1>3, <1>5, <1>7, <1>8, <1>9, Frame
  <1> QED
    BY <1>5, <1>10

\* A copy has nodes of its own, but may lead to those of the original.
LEMMA CopyStep ==
  ASSUME ListInv, listFate = "ok", NEW h \in Lists, NEW g \in Lists \ {h}, lists!Copy(g, h)
  PROVE  /\ ListInv' /\ \A f \in Lists \ {g} : Untouched(f)
         /\ g \notin tainted' => lst'[g] = <<>> /\ g \notin tainted
         /\ lst[g] = <<>>
  <1>1. /\ lst \in [Lists -> Seq(Nodes)] /\ val \in [Nodes -> Values \cup {None}]
        /\ tainted \subseteq Lists /\ umap = [f \in Lists |-> umap[f]]
    BY DEF ListInv, lists!TypeOK
  <1>2. PICK new \in lists!Injection(1 .. Len(lst[h]), lists!Free) :
          /\ lst' = [lst EXCEPT ![g] = new]
          /\ val' = [n \in Nodes |-> IF lists!Contains(new, n)
                                        THEN val[lst[h][CHOOSE k \in DOMAIN new : new[k] = n]]
                                        ELSE val[n]]
    BY DEF lists!Copy
  <1>3. /\ Len(lst[h]) \in Nat /\ new \in [1 .. Len(lst[h]) -> lists!Free]
        /\ lists!IsInjective(new)
    BY <1>1 DEF lists!Injection
  <1>4. new \in Seq(Nodes) /\ Len(new) = Len(lst[h]) /\ DOMAIN new = 1 .. Len(lst[h])
    <2>1. lists!Free \subseteq Nodes
      BY DEF lists!Free
    <2>2. new \in [1 .. Len(lst[h]) -> Nodes]
      BY <1>3, <2>1
    <2> QED
      BY <1>3, <2>2
  <1>5. NodesOf(g)' = lists!ToSet(new) /\ lst'[g] = new /\ \A f \in Lists \ {g} : lst'[f] = lst[f]
    BY <1>1, <1>2 DEF NodesOf
  <1>6. \A n \in lists!ToSet(new) : n \in Nodes /\ val[n] = None
    BY <1>3 DEF lists!ToSet, lists!Free
  <1>7. \A f \in Lists : NodesOf(f) \cap lists!ToSet(new) = {}
    BY <1>6, NoneIsNoValue DEF ListInv
  <1>8. \A n : lists!Contains(new, n) <=> n \in lists!ToSet(new)
    BY <1>4 DEF lists!Contains, lists!ToSet
  <1>9. ASSUME NEW n \in lists!ToSet(new)
        PROVE  val[lst[h][CHOOSE k \in DOMAIN new : new[k] = n]] \in Values
    <2>1. \E k \in DOMAIN new : new[k] = n
      BY DEF lists!ToSet
    <2>2. (CHOOSE k \in DOMAIN new : new[k] = n) \in DOMAIN new
      BY <2>1
    <2> DEFINE k == CHOOSE k \in DOMAIN new : new[k] = n
    <2>3. k \in DOMAIN lst[h]
      BY <1>1, <1>4, <2>2
    <2>4. lst[h][k] \in NodesOf(h)
      BY <2>3 DEF NodesOf, lists!ToSet
    <2> QED
      BY <2>4 DEF ListInv
  <1>10. /\ \A n \in lists!ToSet(new) : val'[n] \in Values
         /\ \A n \in Nodes \ lists!ToSet(new) : val'[n] = val[n]
         /\ val' \in [Nodes -> Values \cup {None}]
    <2>1. \A n \in Nodes : IF n \in lists!ToSet(new) THEN val'[n] \in Values ELSE val'[n] = val[n]
      BY <1>2, <1>8, <1>9
    <2>2. val' = [n \in Nodes |-> val'[n]]
      BY <1>2
    <2>3. \A n \in Nodes : val'[n] \in Values \cup {None}
      BY <1>1, <2>1
    <2> QED
      BY <1>6, <2>1, <2>2, <2>3
  <1>11. \A f \in Lists : NodesOf(f) \subseteq Nodes
    BY <1>1 DEF NodesOf, lists!ToSet
  <1>12. /\ lst[g] = <<>> /\ umap' = [umap EXCEPT ![g] = umap[h]]
         /\ tainted' = IF lst[h] = <<>> /\ umap[h] = <<>> THEN tainted ELSE tainted \cup {g}
         /\ listFate' = "ok"
    BY DEF lists!Copy
  <1>13. \A f \in Lists \ {g} : Untouched(f) /\ NodesOf(f)' = NodesOf(f)
    BY <1>1, <1>5, <1>7, <1>10, <1>11, <1>12 DEF Untouched, NodesOf
  <1>14. ASSUME g \notin tainted'
         PROVE  lst'[g] = <<>> /\ DOMAIN umap'[g] = {} /\ lists!ToSet(new) = {}
    <2>1. lst[h] = <<>> /\ umap[h] = <<>>
      BY <1>12, <1>14
    <2>2. Len(lst[h]) = 0
      BY <2>1
    <2>3. new = <<>> /\ DOMAIN new = {}
      BY <1>4, <2>2
    <2>4. umap'[g] = <<>>
      BY <1>1, <1>12, <2>1
    <2> QED
      BY <1>5, <2>3, <2>4 DEF lists!ToSet
  <1>15. Kept(g)
    <2>1. g \notin tainted' => IndexIsExact(g)'
      BY <1>5, <1>14 DEF IndexIsExact
    <2>2. DOMAIN umap'[g] \subseteq Values /\ \A v \in DOMAIN umap'[g] : umap'[g][v] \in Nodes
      BY <1>1, <1>12 DEF ListInv, lists!TypeOK
    <2>3. \A f \in Lists : f # g => NodesOf(f)' \cap NodesOf(g)' = {}
      BY <1>5, <1>7, <1>13
    <2>4. lists!IsInjective(lst'[g]) /\ \A n \in NodesOf(g)' : val'[n] \in Values
      BY <1>3, <1>5, <1>10
    <2> QED
      BY <2>1, <2>2, <2>3, <2>4 DEF Kept
  <1>16. /\ lst' \in [Lists -> Seq(Nodes)] /\ umap' = [f \in Lists |-> umap'[f]]
         /\ tainted' \subseteq Lists /\ {g} \in SUBSET Lists
    BY <1>1, <1>2, <1>4, <1>12
  <1>17. ListInv'
    BY <1>10, <1>12, <1>13, <1>15, <1>16, Frame
  <1> QED
    BY <1>12, <1>13, <1>14, <1>17

\* A move takes nodes and index along.
LEMMA MoveStep ==
  ASSUME ListInv, listFate = "ok", NEW h \in Lists, NEW g \in Lists \ {h}, lists!Move(g, h)
  PROVE  /\ ListInv' /\ \A f \in Lists \ {g, h} : Untouched(f)
         /\ lst'[g] = lst[h] /\ lst'[h] = <<>> /\ h \notin tainted'
         /\ g \in tainted' <=> h \in tainted
         /\ \A n \in NodesOf(h) : val'[n] = val[n]
  <1>1. /\ lst \in [Lists -> Seq(Nodes)] /\ val \in [Nodes -> Values \cup {None}]
        /\ tainted \subseteq Lists /\ umap = [f \in Lists |-> umap[f]]
    BY DEF ListInv, lists!TypeOK
  <1>2. \A f \in Lists : NodesOf(f) \subseteq Nodes
    BY <1>1 DEF NodesOf, lists!ToSet
  <1>3. /\ lst'[g] = lst[h] /\ lst'[h] = <<>> /\ \A f \in Lists \ {g, h} : lst'[f] = lst[f]
        /\ umap'[g] = umap[h] /\ umap'[h] = <<>> /\ \A f \in Lists \ {g, h} : umap'[f] = umap[f]
        /\ umap' = [f \in Lists |-> umap'[f]]
        /\ val' = [m \in Nodes |-> IF m \in NodesOf(g) THEN None ELSE val[m]]
        /\ listFate' = "ok"
        /\ lst' \in [Lists -> Seq(Nodes)]
    <2>1. /\ lst' = [lst EXCEPT ![g] = lst[h], ![h] = <<>>]
          /\ umap' = [umap EXCEPT ![g] = umap[h], ![h] = <<>>]
          /\ val' = [m \in Nodes |-> IF m \in NodesOf(g) THEN None ELSE val[m]]
          /\ listFate' = "ok"
      BY DEF lists!Move, lists!Moved, lists!Freed, NodesOf
    <2>2. umap'[g] = umap[h] /\ umap'[h] = <<>> /\ \A f \in Lists \ {g, h} : umap'[f] = umap[f]
      BY <1>1, <2>1
    <2>3. umap' = [f \in Lists |-> umap'[f]]
      BY <1>1, <2>1
    <2>4. lst' \in [Lists -> Seq(Nodes)]
      <3>1. <<>> \in Seq(Nodes) /\ lst[h] \in Seq(Nodes)
        BY <1>1
      <3> QED
        BY <1>1, <2>1, <3>1
    <2> QED
      BY <1>1, <2>1, <2>2, <2>3, <2>4
  <1>4. tainted' = (tainted \ {g, h}) \cup (IF h \in tainted THEN {g} ELSE {})
    BY DEF lists!Move
  <1>5. \A e, f \in Lists : e # f => NodesOf(e) \cap NodesOf(f) = {}
    BY DEF ListInv
  <1>6. \A f \in Lists \ {g} : \A n \in NodesOf(f) : val'[n] = val[n]
    BY <1>2, <1>3, <1>5
  <1>7. \A f \in Lists \ {g, h} : Untouched(f) /\ NodesOf(f)' = NodesOf(f)
    BY <1>3, <1>4, <1>6 DEF Untouched, NodesOf
  <1>8. /\ NodesOf(h)' = {} /\ DOMAIN umap'[h] = {} /\ DOMAIN lst'[h] = {}
        /\ NodesOf(g)' = NodesOf(h)
    BY <1>3 DEF NodesOf, lists!ToSet
  <1>9. g \in tainted' <=> h \in tainted
    BY <1>4
  <1>10. Kept(h)
    BY <1>8 DEF Kept, IndexIsExact, lists!IsInjective
  <1>11. Kept(g)
    <2>1. ASSUME g \notin tainted'
          PROVE  IndexIsExact(g)'
      <3>1. IndexIsExact(h)
        BY <1>9, <2>1 DEF ListInv
      <3>2. \A n \in NodesOf(h) : val'[n] = val[n]
        BY <1>6
      <3> QED
        BY <1>3, <1>8, <3>1, <3>2 DEF IndexIsExact
    <2>2. /\ DOMAIN umap[h] \subseteq Values /\ \A v \in DOMAIN umap[h] : umap[h][v] \in Nodes
          /\ lists!IsInjective(lst[h]) /\ \A n \in NodesOf(h) : val[n] \in Values
      BY DEF ListInv, lists!TypeOK
    <2>3. \A n \in NodesOf(g)' : val'[n] \in Values
      BY <1>6, <1>8, <2>2
    <2>4. \A f \in Lists : f # g => NodesOf(f)' \cap NodesOf(g)' = {}
      BY <1>5, <1>7, <1>8
    <2> QED
      BY <1>3, <2>1, <2>2, <2>3, <2>4 DEF Kept
  <1>12. /\ val' \in [Nodes -> Values \cup {None}] /\ tainted' \subseteq Lists
         /\ {g, h} \in SUBSET Lists /\ \A f \in {g, h} : Kept(f)
    BY <1>1, <1>3, <1>4, <1>10, <1>11
  <1>13. ListInv'
    BY <1>3, <1>7, <1>12, Frame
  <1> QED
    BY <1>3, <1>4, <1>6, <1>7, <1>9, <1>13

-------------------------------------------------------------------------------

\* The mapping: what HashList shows of its lists, and of the iterator that it returns.
Shown == [h \in Lists |-> IF h \in tainted THEN <<>> ELSE lists!Items(h)]

Answer == IF ret = <<>> \/ ret[1] \in tainted THEN <<>> ELSE <<ret[1], val[ret[2]]>>

\* The values of a list are as many as its nodes.
LEMMA ItemsIs ==
  ASSUME ListInv, NEW h \in Lists
  PROVE  /\ lists!Items(h) \in Seq(Values) /\ Len(lists!Items(h)) = Len(lst[h])
         /\ \A k \in 1 .. Len(lst[h]) : lists!Items(h)[k] = val[lst[h][k]]
         /\ lst[h] \in Seq(Nodes) /\ DOMAIN lst[h] = 1 .. Len(lst[h])
  <1>1. lst[h] \in Seq(Nodes) /\ DOMAIN lst[h] = 1 .. Len(lst[h]) /\ Len(lst[h]) \in Nat
    BY DEF ListInv, lists!TypeOK
  <1>2. \A k \in 1 .. Len(lst[h]) : val[lst[h][k]] \in Values
    BY <1>1 DEF ListInv, NodesOf, lists!ToSet
  <1>3. lists!Items(h) = [k \in 1 .. Len(lst[h]) |-> val[lst[h][k]]]
    BY <1>1 DEF lists!Items
  <1>4. lists!Items(h) \in [1 .. Len(lst[h]) -> Values]
    BY <1>2, <1>3
  <1> QED
    BY <1>1, <1>3, <1>4

\* The same after a step.
LEMMA ItemsIsNext ==
  ASSUME ListInv', NEW h \in Lists
  PROVE  /\ lists!Items(h)' \in Seq(Values) /\ Len(lists!Items(h)') = Len(lst'[h])
         /\ \A k \in 1 .. Len(lst'[h]) : lists!Items(h)'[k] = val'[lst'[h][k]]
  <1>1. (ListInv => /\ lists!Items(h) \in Seq(Values) /\ Len(lists!Items(h)) = Len(lst[h])
                    /\ \A k \in 1 .. Len(lst[h]) : lists!Items(h)[k] = val[lst[h][k]])'
    BY ItemsIs, PTL
  <1> QED
    BY <1>1

\* An object that was left alone shows what it showed.
LEMMA ShownUntouched ==
  ASSUME ListInv, NEW h \in Lists, Untouched(h)
  PROVE  Shown'[h] = Shown[h]
  <1>1. lst'[h] = lst[h] /\ \A k \in DOMAIN lst[h] : val'[lst[h][k]] = val[lst[h][k]]
    BY DEF Untouched, NodesOf, lists!ToSet
  <1>2. lists!Items(h)' = lists!Items(h)
    BY <1>1 DEF lists!Items
  <1> QED
    BY <1>2 DEF Shown, Untouched

\* Two sequences with the same elements are the same.
LEMMA SameSeq ==
  ASSUME NEW S, NEW s \in Seq(S), NEW t \in Seq(S), Len(s) = Len(t),
         \A k \in 1 .. Len(s) : s[k] = t[k]
  PROVE  s = t
  OBVIOUS

\* An empty or tainted list shows nothing: the list is cleared in the abstract.
LEMMA ShowsClear ==
  ASSUME ListInv, ListInv', NEW h \in Lists, \A g \in Lists \ {h} : Untouched(g),
         h \in tainted' \/ lst'[h] = <<>>, Answer' = <<>>
  PROVE  lists!OS!Next
  <1>1. Shown'[h] = <<>>
    <2>1. CASE h \in tainted'
      BY <2>1 DEF Shown
    <2>2. CASE h \notin tainted'
      <3>1. lists!Items(h)' \in Seq(Values) /\ Len(lists!Items(h)') = Len(lst'[h])
        BY ItemsIsNext
      <3>2. Len(lists!Items(h)') = 0
        BY <2>2, <3>1
      <3>3. lists!Items(h)' = <<>>
        BY <3>1, <3>2
      <3> QED
        BY <2>2, <3>3 DEF Shown
    <2> QED
      BY <2>1, <2>2
  <1>2. \A g \in Lists \ {h} : Shown'[g] = Shown[g]
    BY ShownUntouched
  <1>3. Shown' = [Shown EXCEPT ![h] = <<>>]
    BY <1>1, <1>2 DEF Shown
  <1>4. lists!OS!Clear(h)
    BY <1>3 DEF lists!OS!Clear, Shown, Answer
  <1> QED
    BY <1>4 DEF lists!OS!Next

\* Where h changes and shows the sequence s, all lists show what they did but for s.
LEMMA ShownIs ==
  ASSUME ListInv, NEW h \in Lists, \A g \in Lists \ {h} : Untouched(g),
         h \notin tainted', NEW s, lists!Items(h)' = s
  PROVE  Shown' = [Shown EXCEPT ![h] = s]
  <1>1. \A g \in Lists \ {h} : Shown'[g] = Shown[g]
    BY ShownUntouched
  <1>2. Shown'[h] = s
    BY DEF Shown
  <1> QED
    BY <1>1, <1>2 DEF Shown

\* A new value comes into a list that shows its values.
LEMMA ShowsAdd ==
  ASSUME ListInv, ListInv', NEW h \in Lists, \A g \in Lists \ {h} : Untouched(g),
         h \notin tainted, h \notin tainted', NEW v \in Values, ~lists!Has(h, v),
         NEW n \in Nodes, NEW k \in 1 .. Len(lst[h]) + 1,
         lst'[h] = lists!InsertAt(lst[h], k, n), val'[n] = v,
         \A m \in NodesOf(h) : val'[m] = val[m], Answer' = <<h, v>>
  PROVE  lists!OS!Next
  <1> DEFINE s == lists!Items(h)
             r == lists!InsertAt(s, k, v)
  <1>1. /\ s \in Seq(Values) /\ Len(s) = Len(lst[h]) /\ lst[h] \in Seq(Nodes)
        /\ Len(lst[h]) \in Nat
        /\ \A j \in 1 .. Len(lst[h]) : s[j] = val[lst[h][j]] /\ lst[h][j] \in NodesOf(h)
    BY ItemsIs DEF NodesOf, lists!ToSet
  <1> HIDE DEF s
  <1>2. /\ r \in Seq(Values) /\ Len(r) = Len(lst[h]) + 1
        /\ \A j \in 1 .. Len(lst[h]) + 1 : r[j] = IF j < k THEN s[j] ELSE IF j = k THEN v ELSE s[j - 1]
    <2>1. k \in 1 .. Len(s) + 1
      BY <1>1
    <2>2. /\ r \in Seq(Values) /\ Len(r) = Len(s) + 1
          /\ \A j \in 1 .. Len(s) + 1 : r[j] = IF j < k THEN s[j] ELSE IF j = k THEN v ELSE s[j - 1]
      BY <1>1, <2>1, InsertAtIs
    <2> QED
      BY <1>1, <2>2
  <1>3. /\ Len(lst'[h]) = Len(lst[h]) + 1
        /\ \A j \in 1 .. Len(lst[h]) + 1 :
             lst'[h][j] = IF j < k THEN lst[h][j] ELSE IF j = k THEN n ELSE lst[h][j - 1]
    <2> DEFINE t == lst[h]
               q == lists!InsertAt(t, k, n)
    <2>1. t \in Seq(Nodes) /\ k \in 1 .. Len(t) + 1 /\ lst'[h] = q
      BY <1>1
    <2> HIDE DEF t
    <2>2. /\ Len(q) = Len(t) + 1
          /\ \A j \in 1 .. Len(t) + 1 : q[j] = IF j < k THEN t[j] ELSE IF j = k THEN n ELSE t[j - 1]
      BY <2>1, InsertAtIs
    <2> HIDE DEF q
    <2> QED
      BY <2>1, <2>2 DEF t
  <1>4. /\ lists!Items(h)' \in Seq(Values) /\ Len(lists!Items(h)') = Len(lst[h]) + 1
        /\ \A j \in 1 .. Len(lst[h]) + 1 : lists!Items(h)'[j] = val'[lst'[h][j]]
    BY <1>3, ItemsIsNext
  <1>5. ASSUME NEW j \in 1 .. Len(lst[h]) + 1
        PROVE  lists!Items(h)'[j] = r[j]
    <2>1. CASE j < k
      BY <1>1, <1>2, <1>3, <1>4, <2>1
    <2>2. CASE j = k
      BY <1>2, <1>3, <1>4, <2>2
    <2>3. CASE ~(j < k) /\ j # k
      <3>1. j - 1 \in 1 .. Len(lst[h])
        BY <1>1, <2>3
      <3> QED
        <4>1. lists!Items(h)'[j] = val'[lst[h][j - 1]]
          BY <1>3, <1>4, <2>3
        <4>2. val'[lst[h][j - 1]] = s[j - 1]
          BY <1>1, <3>1
        <4> QED
          BY <1>2, <2>3, <4>1, <4>2
    <2> QED
      BY <2>1, <2>2, <2>3
  <1> HIDE DEF r
  <1>6. lists!Items(h)' = r
    BY <1>2, <1>4, <1>5, SameSeq
  <1>7. ~lists!OS!Contains(s, v)
    <2>1. IndexIsExact(h)
      BY DEF ListInv
    <2>2. \A j \in 1 .. Len(lst[h]) : s[j] # v
      BY <1>1, <2>1 DEF IndexIsExact, lists!Has
    <2> QED
      BY <1>1, <2>2 DEF lists!OS!Contains
  <1>8. Shown[h] = s
    BY DEF Shown, s
  <1>9. Shown' = [Shown EXCEPT ![h] = IF lists!OS!Contains(@, v) THEN @ ELSE lists!OS!InsertAt(@, k, v)]
    BY <1>6, <1>7, <1>8, ShownIs DEF r, lists!InsertAt, lists!OS!InsertAt
  <1>10. lists!OS!Add(h, k, v)
    BY <1>9 DEF lists!OS!Add, Shown, Answer
  <1>11. k \in 1 .. Len(Shown[h]) + 1
    BY <1>1, <1>8
  <1> QED
    BY <1>10, <1>11 DEF lists!OS!Next, Shown

\* A value that the list has is not added, and the answer is the element that has it.
LEMMA ShowsHad ==
  ASSUME ListInv, NEW h \in Lists, h \notin tainted, NEW v \in Values, lists!Has(h, v),
         NEW k \in 1 .. Len(lst[h]) + 1,
         UNCHANGED <<lst, umap, val, tainted>>, Answer' = <<h, v>>
  PROVE  lists!OS!Next
  <1>1. Shown' = Shown
    BY DEF Shown, lists!Items
  <1>2. lists!OS!Contains(Shown[h], v)
    <2>1. umap[h][v] \in NodesOf(h) /\ val[umap[h][v]] = v
      BY DEF ListInv, IndexIsExact, lists!Has
    <2>2. PICK j \in DOMAIN lst[h] : lst[h][j] = umap[h][v]
      BY <2>1 DEF NodesOf, lists!ToSet
    <2>3. lists!Items(h)[j] = v /\ j \in 1 .. Len(lists!Items(h))
      BY <2>1, <2>2, ItemsIs
    <2> QED
      BY <2>3 DEF Shown, lists!OS!Contains
  <1>3. Shown' = [Shown EXCEPT ![h] = IF lists!OS!Contains(@, v) THEN @ ELSE lists!OS!InsertAt(@, k, v)]
    BY <1>1, <1>2 DEF Shown
  <1>4. lists!OS!Add(h, k, v)
    BY <1>3 DEF lists!OS!Add, Shown, Answer
  <1>5. k \in 1 .. Len(Shown[h]) + 1
    BY ItemsIs DEF Shown
  <1> QED
    BY <1>4, <1>5 DEF lists!OS!Next, Shown

\* A value goes from a list that shows its values.
LEMMA ShowsDrop ==
  ASSUME ListInv, ListInv', NEW h \in Lists, \A g \in Lists \ {h} : Untouched(g),
         h \notin tainted, h \notin tainted', NEW k \in 1 .. Len(lst[h]),
         lst'[h] = lists!RemoveAt(lst[h], k), val' = lists!Freed({lst[h][k]}),
         Answer' = <<>>
  PROVE  lists!OS!Next
  <1> DEFINE s == lists!Items(h)
             r == lists!RemoveAt(s, k)
  <1>1. /\ s \in Seq(Values) /\ Len(s) = Len(lst[h]) /\ lst[h] \in Seq(Nodes)
        /\ Len(lst[h]) \in Nat
        /\ \A j \in 1 .. Len(lst[h]) : s[j] = val[lst[h][j]] /\ lst[h][j] \in Nodes
    BY ItemsIs
  <1>2. \A j \in 1 .. Len(lst[h]) : j # k => val'[lst[h][j]] = val[lst[h][j]]
    <2>1. \A j \in 1 .. Len(lst[h]) : j # k => lst[h][j] # lst[h][k]
      BY ItemsIs DEF ListInv, lists!IsInjective
    <2> QED
      BY <1>1, <2>1 DEF lists!Freed
  <1> HIDE DEF s
  <1>3. /\ r \in Seq(Values) /\ Len(r) = Len(lst[h]) - 1
        /\ \A j \in 1 .. Len(lst[h]) - 1 : r[j] = IF j < k THEN s[j] ELSE s[j + 1]
    <2>1. k \in 1 .. Len(s)
      BY <1>1
    <2>2. /\ r \in Seq(Values) /\ Len(r) = Len(s) - 1
          /\ \A j \in 1 .. Len(s) - 1 : r[j] = IF j < k THEN s[j] ELSE s[j + 1]
      BY <1>1, <2>1, RemoveAtIs
    <2> QED
      BY <1>1, <2>2
  <1>4. /\ Len(lst'[h]) = Len(lst[h]) - 1
        /\ \A j \in 1 .. Len(lst[h]) - 1 : lst'[h][j] = IF j < k THEN lst[h][j] ELSE lst[h][j + 1]
    BY <1>1, RemoveAtIs
  <1>5. /\ lists!Items(h)' \in Seq(Values) /\ Len(lists!Items(h)') = Len(lst[h]) - 1
        /\ \A j \in 1 .. Len(lst[h]) - 1 : lists!Items(h)'[j] = val'[lst'[h][j]]
    BY <1>4, ItemsIsNext
  <1>6. ASSUME NEW j \in 1 .. Len(lst[h]) - 1
        PROVE  lists!Items(h)'[j] = r[j]
    <2>1. CASE j < k
      <3>1. j \in 1 .. Len(lst[h]) /\ j # k
        BY <1>1, <2>1
      <3> QED
        <4>1. lists!Items(h)'[j] = val'[lst[h][j]]
          BY <1>4, <1>5, <2>1
        <4>2. val'[lst[h][j]] = s[j]
          BY <1>1, <1>2, <3>1
        <4> QED
          BY <1>3, <2>1, <4>1, <4>2
    <2>2. CASE ~(j < k)
      <3>1. j + 1 \in 1 .. Len(lst[h]) /\ j + 1 # k
        BY <1>1, <2>2
      <3> QED
        <4>1. lists!Items(h)'[j] = val'[lst[h][j + 1]]
          BY <1>4, <1>5, <2>2
        <4>2. val'[lst[h][j + 1]] = s[j + 1]
          BY <1>1, <1>2, <3>1
        <4> QED
          BY <1>3, <2>2, <4>1, <4>2
    <2> QED
      BY <2>1, <2>2
  <1> HIDE DEF r
  <1>7. lists!Items(h)' = r
    BY <1>3, <1>5, <1>6, SameSeq
  <1>8. Shown[h] = s
    BY DEF Shown, s
  <1>9. Shown' = [Shown EXCEPT ![h] = lists!OS!RemoveAt(@, k)]
    BY <1>7, <1>8, ShownIs DEF r, lists!RemoveAt, lists!OS!RemoveAt
  <1>10. lists!OS!Drop(h, k)
    BY <1>9 DEF lists!OS!Drop, Shown, Answer
  <1>11. k \in 1 .. Len(Shown[h])
    BY <1>1, <1>8
  <1> QED
    BY <1>10, <1>11 DEF lists!OS!Next, Shown

\* Both objects of a move are seen to: one shows what the other did.
LEMMA ShowsMove ==
  ASSUME ListInv, ListInv', NEW h \in Lists, NEW g \in Lists \ {h},
         \A f \in Lists \ {g, h} : Untouched(f),
         lst'[g] = lst[h], lst'[h] = <<>>, h \notin tainted', g \in tainted' <=> h \in tainted,
         \A n \in NodesOf(h) : val'[n] = val[n], Answer' = <<>>
  PROVE  lists!OS!Next
  <1>1. lists!Items(g)' = lists!Items(h)
    <2>1. \A k \in DOMAIN lst[h] : val'[lst[h][k]] = val[lst[h][k]]
      BY DEF NodesOf, lists!ToSet
    <2> QED
      BY <2>1 DEF lists!Items
  <1>2. lists!Items(h)' = <<>>
    <2>1. lists!Items(h)' \in Seq(Values) /\ Len(lists!Items(h)') = Len(lst'[h])
      BY ItemsIsNext
    <2>2. Len(lists!Items(h)') = 0
      BY <2>1
    <2> QED
      BY <2>1, <2>2
  <1>3. Shown'[g] = Shown[h] /\ Shown'[h] = <<>>
    BY <1>1, <1>2 DEF Shown
  <1>4. \A f \in Lists \ {g, h} : Shown'[f] = Shown[f]
    BY ShownUntouched
  <1>5. Shown' = [Shown EXCEPT ![g] = Shown[h], ![h] = <<>>]
    BY <1>3, <1>4 DEF Shown
  <1>6. lists!OS!Replace(g, h, FALSE)
    BY <1>5 DEF lists!OS!Replace, Shown, Answer
  <1> QED
    BY <1>6 DEF lists!OS!Next

\* Every operation of hash lists keeps the invariant, and is an operation of ordered sets
\* or none that they see.
LEMMA ListStep ==
  ASSUME ListInv, lists!Next
  PROVE  ListInv' /\ [lists!OS!Next]_(lists!OS!vars)
  <1> USE DEF Answer
  <1>1. listFate = "ok"
    BY DEF lists!Next
  <1>2. ASSUME NEW h \in Lists, NEW v \in Values, NEW k \in 1 .. Len(lst[h]) + 1,
               lists!Insert(h, k, v)
        PROVE  ListInv' /\ lists!OS!Next
    <2>1. CASE lists!Has(h, v)
      <3>1. UNCHANGED <<lst, umap, val, tainted, listFate>> /\ ret' = <<h, umap[h][v]>>
        BY <1>2, <2>1 DEF lists!Insert
      <3>2. ListInv'
        BY <3>1 DEF ListInv, lists!TypeOK, NodesOf, IndexIsExact
      <3>3. CASE h \in tainted
        <4>1. Answer' = <<>> /\ h \in tainted'
          BY <3>1, <3>3
        <4>2. \A g \in Lists \ {h} : Untouched(g)
          BY <3>1 DEF Untouched
        <4> QED
          BY <3>2, <4>1, <4>2, ShowsClear
      <3>4. CASE h \notin tainted
        <4>1. val[umap[h][v]] = v
          BY <2>1, <3>4 DEF ListInv, IndexIsExact, lists!Has
        <4>2. Answer' = <<h, v>>
          BY <3>1, <3>4, <4>1
        <4> QED
          BY <2>1, <3>1, <3>2, <3>4, <4>2, ShowsHad
      <3> QED
        BY <3>3, <3>4
    <2>2. CASE ~lists!Has(h, v)
      <3>1. PICK n \in lists!Free :
              /\ val' = [val EXCEPT ![n] = v]
              /\ lst' = [lst EXCEPT ![h] = lists!InsertAt(@, k, n)]
              /\ umap' = lists!Indexed(h, v, n)
              /\ ret' = <<h, n>>
        BY <1>2, <2>2 DEF lists!Insert
      <3>2. UNCHANGED <<tainted, listFate>>
        BY <1>2 DEF lists!Insert
      <3>3. ListInv' /\ \A g \in Lists \ {h} : Untouched(g)
        BY <1>1, <2>2, <3>1, <3>2, InsertStep
      <3>4. /\ n \in Nodes /\ val[n] = None /\ val \in [Nodes -> Values \cup {None}]
            /\ lst \in [Lists -> Seq(Nodes)]
        BY DEF lists!Free, ListInv, lists!TypeOK
      <3>5. /\ lst'[h] = lists!InsertAt(lst[h], k, n) /\ val'[n] = v
            /\ \A m \in NodesOf(h) : val'[m] = val[m]
        <4>1. NodesOf(h) \subseteq Nodes \ {n}
          BY <3>4, NoneIsNoValue DEF ListInv, NodesOf, lists!ToSet
        <4> QED
          BY <3>1, <3>4, <4>1
      <3>6. CASE h \in tainted
        <4>1. Answer' = <<>> /\ h \in tainted'
          BY <3>1, <3>2, <3>6
        <4> QED
          BY <3>3, <4>1, ShowsClear
      <3>7. CASE h \notin tainted
        <4>1. Answer' = <<h, v>> /\ h \notin tainted'
          BY <3>1, <3>2, <3>5, <3>7
        <4> QED
          BY <2>2, <3>3, <3>4, <3>5, <3>7, <4>1, ShowsAdd
      <3> QED
        BY <3>3, <3>6, <3>7
    <2> QED
      BY <2>1, <2>2
  <1>3. ASSUME NEW h \in Lists, NEW k \in 1 .. Len(lst[h]), NEW w,
               val' = lists!Freed({lst[h][k]}),
               lst' = [lst EXCEPT ![h] = lists!RemoveAt(@, k)],
               umap' = [umap EXCEPT ![h] = lists!Without(@, w)],
               tainted' \in {tainted, tainted \cup {h}},
               h \notin tainted' => w = val[lst[h][k]],
               UNCHANGED listFate, ret' = <<>>
        PROVE  ListInv' /\ lists!OS!Next
    <2>1. ListInv' /\ \A g \in Lists \ {h} : Untouched(g)
      BY <1>1, <1>3, RemoveStep
    <2>2. Answer' = <<>> /\ lst'[h] = lists!RemoveAt(lst[h], k)
      BY <1>3 DEF ListInv, lists!TypeOK
    <2>3. CASE h \in tainted'
      BY <2>1, <2>2, <2>3, ShowsClear
    <2>4. CASE h \notin tainted'
      <3>1. h \notin tainted
        BY <1>3, <2>4
      <3> QED
        BY <1>3, <2>1, <2>2, <2>4, <3>1, ShowsDrop
    <2> QED
      BY <2>1, <2>3, <2>4
  <1>4. ASSUME NEW h \in Lists, lists!PopBack(h)
        PROVE  ListInv' /\ lists!OS!Next
    <2>1. lst[h] \in Seq(Nodes) /\ lst[h] # <<>>
      BY <1>4 DEF lists!PopBack, ListInv, lists!TypeOK
    <2>2. lists!Front(lst[h]) = lists!RemoveAt(lst[h], Len(lst[h])) /\ Len(lst[h]) \in 1 .. Len(lst[h])
      BY <2>1, FrontIsRemoveAt
    <2> DEFINE k == Len(lst[h])
    <2>3. /\ val' = lists!Freed({lst[h][k]})
          /\ umap' = [umap EXCEPT ![h] = lists!Without(@, val[lst[h][k]])]
          /\ lst' = [lst EXCEPT ![h] = lists!RemoveAt(@, k)]
          /\ UNCHANGED <<tainted, listFate>> /\ ret' = <<>>
      BY <1>4, <2>2 DEF lists!PopBack, lists!Last
    <2> HIDE DEF k
    <2>4. k \in 1 .. Len(lst[h])
      BY <2>2 DEF k
    <2> QED
      BY <1>3, <2>3, <2>4
  <1>5. ASSUME NEW h \in Lists, NEW v \in Values, NEW byReference \in BOOLEAN,
               lists!Erase(h, v, byReference)
        PROVE  ListInv' /\ [lists!OS!Next]_(lists!OS!vars)
    <2> DEFINE n == umap[h][v]
    <2>1. lists!Has(h, v)
      BY <1>5 DEF lists!Erase
    <2>2. CASE lists!Contains(lst[h], n)
      <3>1. PICK k \in DOMAIN lst[h] :
              /\ lst[h][k] = n
              /\ lst' = [lst EXCEPT ![h] = lists!RemoveAt(@, k)]
              /\ val' = lists!Freed({n})
              /\ \E w \in lists!Erased(v, byReference) :
                   umap' = [umap EXCEPT ![h] = lists!Without(@, w)]
              /\ tainted' = IF byReference THEN tainted \cup {h} ELSE tainted
              /\ ret' = <<>>
              /\ UNCHANGED listFate
        BY <1>5, <2>2 DEF lists!Erase
      <3>2. PICK w \in lists!Erased(v, byReference) :
              umap' = [umap EXCEPT ![h] = lists!Without(@, w)]
        BY <3>1
      <3>3. k \in 1 .. Len(lst[h])
        BY DEF ListInv, lists!TypeOK
      <3>4. ASSUME h \notin tainted'
            PROVE  w = val[lst[h][k]]
        <4>1. ~byReference /\ h \notin tainted /\ tainted \subseteq Lists
          BY <3>1, <3>4 DEF ListInv, lists!TypeOK
        <4>2. val[n] = v
          BY <2>1, <4>1 DEF ListInv, IndexIsExact, lists!Has
        <4>3. w = v
          BY <4>1 DEF lists!Erased
        <4> QED
          BY <3>1, <4>2, <4>3
      <3>5. tainted' \in {tainted, tainted \cup {h}}
        BY <3>1
      <3> HIDE DEF n
      <3> QED
        BY <1>3, <3>1, <3>2, <3>3, <3>4, <3>5
    <2>3. CASE ~lists!Contains(lst[h], n)
      <3>1. UNCHANGED <<lst, umap, val, tainted, ret>> /\ listFate' = "undefined"
        <4>1. \A k \in DOMAIN lst[h] : lst[h][k] # n
          BY <2>3 DEF ListInv, lists!TypeOK, lists!Contains
        <4> QED
          BY <1>5, <4>1 DEF lists!Erase
      <3>2. h \in tainted
        <4> SUFFICES ASSUME h \notin tainted PROVE FALSE
          OBVIOUS
        <4>1. n \in NodesOf(h)
          BY <2>1 DEF ListInv, IndexIsExact, lists!Has
        <4> QED
          BY <2>3, <4>1 DEF NodesOf, lists!ToSet, lists!Contains, ListInv, lists!TypeOK
      <3>3. ListInv'
        BY <3>1, <3>2 DEF ListInv, lists!TypeOK, NodesOf, IndexIsExact
      <3>4. UNCHANGED lists!OS!vars
        <4>1. Shown' = Shown /\ Answer' = Answer
          BY <3>1 DEF Shown, lists!Items
        <4> QED
          BY <4>1 DEF lists!OS!vars, Shown
      <3> QED
        BY <3>3, <3>4
    <2> QED
      BY <2>2, <2>3
  <1>6. ASSUME NEW h \in Lists, lists!Clear(h)
        PROVE  ListInv' /\ lists!OS!Next
    <2>1. ListInv' /\ \A g \in Lists \ {h} : Untouched(g)
      BY <1>1, <1>6, ClearStep
    <2>2. lst'[h] = <<>> /\ Answer' = <<>>
      BY <1>6 DEF lists!Clear, ListInv, lists!TypeOK
    <2> QED
      BY <2>1, <2>2, ShowsClear
  <1>7. ASSUME NEW h \in Lists, NEW g \in Lists \ {h}, lists!Copy(g, h)
        PROVE  ListInv' /\ lists!OS!Next
    <2>1. /\ ListInv' /\ \A f \in Lists \ {g} : Untouched(f)
          /\ g \in tainted' \/ lst'[g] = <<>>
      BY <1>1, <1>7, CopyStep
    <2>2. Answer' = <<>>
      BY <1>7 DEF lists!Copy
    <2> QED
      BY <2>1, <2>2, ShowsClear
  <1>8. ASSUME NEW h \in Lists, NEW g \in Lists \ {h}, lists!Move(g, h)
        PROVE  ListInv' /\ lists!OS!Next
    <2>1. Answer' = <<>>
      BY <1>8 DEF lists!Move
    <2> QED
      BY <1>1, <1>8, <2>1, MoveStep, ShowsMove
  <1>9. ASSUME NEW h \in Lists, NEW v \in Values, lists!PushBack(h, v)
        PROVE  ListInv' /\ lists!OS!Next
    <2>1. Len(lst[h]) + 1 \in 1 .. Len(lst[h]) + 1
      BY DEF ListInv, lists!TypeOK
    <2> QED
      BY <1>2, <1>9, <2>1 DEF lists!PushBack
  <1>10. ASSUME NEW h \in Lists, NEW v \in Values, NEW k \in 1 .. Len(lst[h]), lists!Insert(h, k, v)
         PROVE  ListInv' /\ lists!OS!Next
    <2>1. k \in 1 .. Len(lst[h]) + 1
      BY DEF ListInv, lists!TypeOK
    <2> QED
      BY <1>2, <1>10, <2>1
  <1> QED
    BY <1>4, <1>5, <1>6, <1>7, <1>8, <1>9, <1>10 DEF lists!Next

\* A step of the hash lists, or of another library.
LEMMA ListBoxStep ==
  ASSUME ListInv, [lists!Next]_listVars
  PROVE  ListInv' /\ [lists!OS!Next]_(lists!OS!vars)
  <1>1. CASE UNCHANGED listVars
    <2>1. UNCHANGED <<lst, umap, val, tainted, ret, listFate>>
      BY <1>1 DEF listVars
    <2>2. ListInv'
      BY <2>1 DEF ListInv, lists!TypeOK, NodesOf, IndexIsExact
    <2>3. Shown' = Shown /\ Answer' = Answer
      BY <2>1 DEF Shown, Answer, lists!Items
    <2> QED
      BY <2>2, <2>3 DEF lists!OS!vars, Shown, Answer
  <1> QED
    BY <1>1, ListStep

\* A program starts with empty storage, which shows empty lists.
LEMMA ListInit == lists!Init => ListInv /\ lists!OS!Init
  <1> SUFFICES ASSUME lists!Init PROVE ListInv /\ lists!OS!Init
    OBVIOUS
  <1>1. /\ \A h \in Lists : lst[h] = <<>> /\ umap[h] = <<>>
        /\ \A h \in Lists : DOMAIN lst[h] = {} /\ DOMAIN umap[h] = {}
        /\ tainted = {} /\ ret = <<>> /\ listFate = "ok"
    BY DEF lists!Init
  <1>2. \A h \in Lists : NodesOf(h) = {}
    BY <1>1 DEF NodesOf, lists!ToSet
  <1>3. lists!TypeOK
    BY <1>1 DEF lists!Init, lists!TypeOK
  <1>4. ListInv
    BY <1>1, <1>2, <1>3 DEF lists!Init, ListInv, IndexIsExact, lists!IsInjective
  <1>5. \A h \in Lists : lists!Items(h) = <<>>
    <2> SUFFICES ASSUME NEW h \in Lists PROVE lists!Items(h) = <<>>
      OBVIOUS
    <2>1. lists!Items(h) \in Seq(Values) /\ Len(lists!Items(h)) = 0
      BY <1>1, <1>4, ItemsIs
    <2> QED
      BY <2>1
  <1>6. Shown = [h \in Lists |-> <<>>] /\ Answer = <<>>
    BY <1>1, <1>5 DEF Shown, Answer
  <1>7. lists!OS!Init
    BY <1>6 DEF lists!OS!Init, Shown, Answer
  <1> QED
    BY <1>4, <1>7

-------------------------------------------------------------------------------

\* A set of naturals with a member has a least one.
LEMMA LeastOf ==
  ASSUME NEW T \in SUBSET Nat, T # {}
  PROVE  \E x \in T : \A y \in T : x <= y
  <1> DEFINE R == {ss \in Nat \X Nat : ss[1] < ss[2]}
  <1>1. IsWellFoundedOn(R, Nat)
    BY NatLessThanWellFounded DEF OpToRel
  <1> HIDE DEF R
  <1>2. PICK x \in T : \A y \in T : ~(<<y, x>> \in R)
    BY <1>1, WFMin
  <1>3. ASSUME NEW y \in T PROVE x <= y
    <2>1. <<y, x>> \in Nat \X Nat /\ <<y, x>>[1] = y /\ <<y, x>>[2] = x
      OBVIOUS
    <2>2. ~(y < x)
      BY <1>2, <2>1 DEF R
    <2> QED
      BY <2>2
  <1> QED
    BY <1>3

\* The positions a search chooses from have a first and a last one.
LEMMA FirstAndLastOf ==
  ASSUME NEW n \in Nat, NEW T \in SUBSET (1 .. n), T # {}
  PROVE  /\ texts!Min(T) \in T /\ \A y \in T : texts!Min(T) <= y
         /\ texts!Max(T) \in T /\ \A y \in T : texts!Max(T) >= y
  <1>1. \E x \in T : \A y \in T : x <= y
    BY LeastOf
  <1>2. \E x \in T : \A y \in T : x >= y
    <2> DEFINE D == {n - x : x \in T}
    <2>1. D \in SUBSET Nat /\ D # {}
      <3>1. \A x \in T : n - x \in Nat
        OBVIOUS
      <3> QED
        BY <3>1
    <2>2. PICK d \in D : \A e \in D : d <= e
      BY <2>1, LeastOf
    <2>3. PICK x \in T : d = n - x
      BY <2>2
    <2>4. \A y \in T : n - x <= n - y
      BY <2>2, <2>3
    <2> QED
      BY <2>4
  <1> QED
    BY <1>1, <1>2 DEF texts!Min, texts!Max

\* Whatever holds of 0 and of the next number of each that it holds of, holds of all.
LEMMA EveryNumber ==
  ASSUME NEW T \in SUBSET Nat, 0 \in T, \A n \in T : n + 1 \in T
  PROVE  T = Nat
  <1> SUFFICES ASSUME Nat \ T # {} PROVE FALSE
    OBVIOUS
  <1>1. PICK x \in Nat \ T : \A y \in Nat \ T : x <= y
    BY LeastOf
  <1>2. x - 1 \in Nat /\ x - 1 \in T /\ (x - 1) + 1 = x
    BY <1>1
  <1> QED
    BY <1>1, <1>2

\* The arguments of the functions are sequences.
LEMMA BoundedSeqIsSeq ==
  ASSUME NEW S, NEW n
  PROVE  texts!BoundedSeq(S, n) \subseteq Seq(S)
  BY DEF texts!BoundedSeq, texts!SeqOf

\* Where find stops: at the first occurrence, if there is one.
LEMMA FindIs ==
  ASSUME NEW S, NEW s \in Seq(S), NEW d \in Seq(S)
  PROVE  LET fits(k) == k + Len(d) - 1 <= Len(s) /\ texts!Occurs(s, d, k)
             k == texts!Find(s, d) IN
         \/ k = 0 /\ \A j \in 1 .. Len(s) + 1 : ~fits(j)
         \/ k \in 1 .. Len(s) + 1 /\ fits(k) /\ \A j \in 1 .. k - 1 : ~fits(j)
  <1> DEFINE fits(k) == k + Len(d) - 1 <= Len(s) /\ texts!Occurs(s, d, k)
             q == [k \in 1 .. Len(s) + 1 |-> k]
             I == {k \in 1 .. Len(s) + 1 : fits(k)}
  <1>1. Len(q) = Len(s) + 1 /\ \A k \in 1 .. Len(s) + 1 : q[k] = k
    OBVIOUS
  <1>2. {k \in 1 .. Len(q) : fits(q[k])} = I
    BY <1>1
  <1>3. texts!Find(s, d) = IF I # {} THEN texts!Min(I) ELSE 0
    BY <1>2 DEF texts!Find, texts!SelectInSeq
  <1> HIDE DEF fits
  <1>4. CASE I = {}
    BY <1>3, <1>4 DEF fits
  <1>5. CASE I # {}
    <2>1. texts!Min(I) \in I /\ \A y \in I : texts!Min(I) <= y
      BY <1>5, FirstAndLastOf, Len(s) + 1 \in Nat, I \in SUBSET (1 .. Len(s) + 1)
    <2> DEFINE k == texts!Min(I)
    <2> HIDE DEF k
    <2>2. k \in 1 .. Len(s) + 1 /\ fits(k) /\ \A y \in I : k <= y
      BY <2>1 DEF k
    <2>3. ASSUME NEW j \in 1 .. k - 1 PROVE ~fits(j)
      <3>1. j \in 1 .. Len(s) + 1 /\ ~(k <= j)
        BY <2>2
      <3> QED
        BY <2>2, <3>1
    <2> QED
      BY <1>3, <1>5, <2>2, <2>3 DEF k, fits
  <1> QED
    BY <1>4, <1>5

\* What strip leaves after the left end.
LEMMA LStripIs ==
  ASSUME NEW S, NEW s \in Seq(S), NEW C
  PROVE  \E k \in 0 .. Len(s) :
           /\ texts!LStrip(s, C) = SubSeq(s, k + 1, Len(s))
           /\ \A j \in 1 .. k : s[j] \in C
           /\ k < Len(s) => s[k + 1] \notin C
  <1> DEFINE I == {j \in 1 .. Len(s) : s[j] \notin C}
  <1>0. Len(s) \in Nat /\ I \in SUBSET (1 .. Len(s))
    OBVIOUS
  <1>1. texts!LStrip(s, C) = LET first == IF I # {} THEN texts!Min(I) ELSE 0 IN
                             IF first = 0 THEN <<>> ELSE SubSeq(s, first, Len(s))
    BY DEF texts!LStrip, texts!SelectInSeq
  <1>2. CASE I = {}
    <2>1. texts!LStrip(s, C) = SubSeq(s, Len(s) + 1, Len(s))
      BY <1>1, <1>2
    <2>2. \A j \in 1 .. Len(s) : s[j] \in C
      BY <1>2
    <2> QED
      BY <1>0, <2>1, <2>2
  <1>3. CASE I # {}
    <2> DEFINE f == texts!Min(I)
    <2>1. f \in I /\ \A y \in I : f <= y
      BY <1>0, <1>3, FirstAndLastOf
    <2>2. texts!LStrip(s, C) = IF f = 0 THEN <<>> ELSE SubSeq(s, f, Len(s))
      BY <1>1, <1>3
    <2> HIDE DEF f
    <2>3. f - 1 \in 0 .. Len(s) /\ (f - 1) + 1 = f /\ f # 0 /\ s[f] \notin C
      BY <2>1
    <2>4. ASSUME NEW j \in 1 .. f - 1 PROVE s[j] \in C
      <3>1. j \in 1 .. Len(s) /\ ~(f <= j)
        BY <2>1
      <3> QED
        BY <2>1, <3>1
    <2> QED
      BY <2>2, <2>3, <2>4
  <1> QED
    BY <1>2, <1>3

\* What strip leaves after the right end.
LEMMA RStripIs ==
  ASSUME NEW S, NEW s \in Seq(S), NEW C
  PROVE  \E m \in 0 .. Len(s) :
           /\ texts!RStrip(s, C) = SubSeq(s, 1, m)
           /\ \A j \in m + 1 .. Len(s) : s[j] \in C
           /\ m > 0 => s[m] \notin C
  <1> DEFINE I == {j \in 1 .. Len(s) : s[j] \notin C}
  <1>0. Len(s) \in Nat /\ I \in SUBSET (1 .. Len(s))
    OBVIOUS
  <1>1. texts!RStrip(s, C) = SubSeq(s, 1, IF I # {} THEN texts!Max(I) ELSE 0)
    BY DEF texts!RStrip, texts!SelectLastInSeq
  <1>2. CASE I = {}
    <2>1. texts!RStrip(s, C) = SubSeq(s, 1, 0)
      BY <1>1, <1>2
    <2>2. \A j \in 1 .. Len(s) : s[j] \in C
      BY <1>2
    <2> QED
      BY <1>0, <2>1, <2>2
  <1>3. CASE I # {}
    <2> DEFINE m == texts!Max(I)
    <2>1. m \in I /\ \A y \in I : m >= y
      BY <1>0, <1>3, FirstAndLastOf
    <2>2. texts!RStrip(s, C) = SubSeq(s, 1, m)
      BY <1>1, <1>3
    <2> HIDE DEF m
    <2>3. m \in 0 .. Len(s) /\ s[m] \notin C
      BY <2>1
    <2>4. ASSUME NEW j \in m + 1 .. Len(s) PROVE s[j] \in C
      <3>1. j \in 1 .. Len(s) /\ ~(m >= j)
        BY <2>1
      <3> QED
        BY <2>1, <3>1
    <2> QED
      BY <2>2, <2>3, <2>4
  <1> QED
    BY <1>2, <1>3

\* strip leaves a part of the text that begins and ends with no member of the set, and
\* takes off nothing but members.
LEMMA StripIs ==
  ASSUME NEW S, NEW s \in Seq(S), NEW C, NEW t, t = texts!Strip(s, C)
  PROVE  /\ t \in Seq(S)
         /\ t # <<>> => Head(t) \notin C /\ texts!Last(t) \notin C
         /\ \E k \in 0 .. Len(s) :
              /\ SubSeq(s, k + 1, k + Len(t)) = t
              /\ \A j \in DOMAIN s \ (k + 1 .. k + Len(t)) : s[j] \in C
  <1> DEFINE u == texts!LStrip(s, C)
  <1>1. PICK k \in 0 .. Len(s) :
           /\ u = SubSeq(s, k + 1, Len(s))
           /\ \A j \in 1 .. k : s[j] \in C
           /\ k < Len(s) => s[k + 1] \notin C
    BY LStripIs
  <1>2. u \in Seq(S) /\ Len(u) = Len(s) - k /\ \A j \in 1 .. Len(s) - k : u[j] = s[k + j]
    BY <1>1
  <1>3. t = texts!RStrip(u, C)
    BY DEF texts!Strip
  <1> HIDE DEF u
  <1>4. PICK m \in 0 .. Len(u) :
           /\ t = SubSeq(u, 1, m)
           /\ \A j \in m + 1 .. Len(u) : u[j] \in C
           /\ m > 0 => u[m] \notin C
    BY <1>2, <1>3, RStripIs
  <1>5. t \in Seq(S) /\ Len(t) = m /\ \A j \in 1 .. m : t[j] = u[j]
    BY <1>2, <1>4
  <1>6. Len(s) \in Nat /\ DOMAIN s = 1 .. Len(s) /\ k + m <= Len(s) /\ m \in Nat /\ k \in Nat
    BY <1>2
  <1>7. \A j \in 1 .. m : t[j] = s[k + j]
    <2>1. \A j \in 1 .. m : j \in 1 .. Len(s) - k
      BY <1>6
    <2> QED
      BY <1>2, <1>5, <2>1
  <1>8. ASSUME t # <<>>
        PROVE  Head(t) \notin C /\ texts!Last(t) \notin C
    <2>1. m > 0
      BY <1>5, <1>8
    <2>2. Head(t) = s[k + 1] /\ k < Len(s)
      BY <1>5, <1>7, <1>6, <2>1
    <2>3. texts!Last(t) = u[m]
      BY <1>5, <2>1 DEF texts!Last
    <2> QED
      BY <1>1, <1>4, <2>1, <2>2, <2>3
  <1>9. SubSeq(s, k + 1, k + Len(t)) = t
    <2> DEFINE v == SubSeq(s, k + 1, k + m)
    <2>1. v \in Seq(S) /\ Len(v) = m /\ \A j \in 1 .. m : v[j] = s[k + j]
      <3>1. \A j \in k + 1 .. k + m : s[j] \in S
        BY <1>6
      <3>2. /\ v \in Seq(S) /\ Len(v) = IF k + 1 <= k + m THEN (k + m) - (k + 1) + 1 ELSE 0
            /\ \A j \in 1 .. (k + m) - (k + 1) + 1 : v[j] = s[(k + 1) + j - 1]
        BY <1>6, <3>1, SubSeqProperties
      <3> QED
        BY <1>6, <3>2
    <2> HIDE DEF v
    <2>2. v = t
      BY <1>5, <1>7, <2>1, SeqEqual
    <2> QED
      BY <1>5, <2>2 DEF v
  <1>10. ASSUME NEW j \in DOMAIN s \ (k + 1 .. k + Len(t))
         PROVE  s[j] \in C
    <2>1. CASE j <= k
      BY <1>1, <1>6, <2>1
    <2>2. CASE ~(j <= k)
      <3>1. j - k \in m + 1 .. Len(u) /\ k + (j - k) = j /\ j - k \in 1 .. Len(s) - k
        BY <1>2, <1>5, <1>6, <2>2
      <3> QED
        BY <1>2, <1>4, <3>1
    <2> QED
      BY <2>1, <2>2
  <1> QED
    BY <1>5, <1>8, <1>9, <1>10

\* The comparisons decide what they are asked.
LEMMA HasPrefixIs ==
  ASSUME NEW S, NEW s \in Seq(S), NEW p \in Seq(S)
  PROVE  texts!HasPrefix(s, p) <=> texts!IsPrefix(p, s) \/ texts!IsPrefix(s, p)
  <1>1. CASE Len(s) < Len(p)
    BY <1>1 DEF texts!HasPrefix, texts!IsPrefix
  <1>2. CASE ~(Len(s) < Len(p))
    BY <1>2 DEF texts!HasPrefix, texts!IsPrefix
  <1> QED
    BY <1>1, <1>2

\* The end of a string is the beginning of its reverse.
LEMMA HasAffixIs ==
  ASSUME NEW S, NEW s \in Seq(S), NEW p \in Seq(S)
  PROVE  texts!HasAffix(s, p) <=> texts!IsSuffix(p, s)
  <1> DEFINE n == Len(s)
             m == Len(p)
             rs == texts!Reverse(s)
             rp == texts!Reverse(p)
  <1>0. n \in Nat /\ m \in Nat
    OBVIOUS
  <1>1. rs \in Seq(S) /\ Len(rs) = n /\ \A j \in 1 .. n : rs[j] = s[n - j + 1]
    <2>1. \A j \in 1 .. n : n - j + 1 \in 1 .. n
      OBVIOUS
    <2> QED
      BY <2>1 DEF texts!Reverse
  <1>2. rp \in Seq(S) /\ Len(rp) = m /\ \A j \in 1 .. m : rp[j] = p[m - j + 1]
    <2>1. \A j \in 1 .. m : m - j + 1 \in 1 .. m
      OBVIOUS
    <2> QED
      BY <2>1 DEF texts!Reverse
  <1>3. texts!IsSuffix(p, s) <=> m <= n /\ SubSeq(rp, 1, m) = SubSeq(rs, 1, m)
    BY <1>1, <1>2 DEF texts!IsSuffix, texts!IsPrefix
  <1> HIDE DEF rs, rp
  <1>4. ASSUME m <= n
        PROVE  (SubSeq(rp, 1, m) = SubSeq(rs, 1, m)) <=> (SubSeq(s, n - m + 1, n) = p)
    <2> DEFINE x == SubSeq(rs, 1, m)
               y == SubSeq(s, n - m + 1, n)
    <2>1. x \in Seq(S) /\ Len(x) = m /\ \A j \in 1 .. m : x[j] = rs[j]
      BY <1>0, <1>1, <1>4
    <2>2. y \in Seq(S) /\ Len(y) = m /\ \A j \in 1 .. m : y[j] = s[n - m + j]
      BY <1>0, <1>4
    <2>3. SubSeq(rp, 1, m) = rp
      BY <1>2, SubSeqFull
    <2> HIDE DEF x, y
    <2>4. \A j \in 1 .. m : x[j] = y[m - j + 1]
      <3>1. \A j \in 1 .. m : j \in 1 .. n /\ m - j + 1 \in 1 .. m /\ n - m + (m - j + 1) = n - j + 1
        BY <1>0, <1>4
      <3> QED
        BY <1>1, <2>1, <2>2, <3>1
    <2>5. ASSUME rp = x PROVE y = p
      <3>1. ASSUME NEW j \in 1 .. m PROVE y[j] = p[j]
        <4>1. m - j + 1 \in 1 .. m /\ m - (m - j + 1) + 1 = j
          BY <1>0
        <4> QED
          BY <1>2, <2>4, <2>5, <4>1
      <3> QED
        BY <2>2, <3>1, SeqEqual
    <2>6. ASSUME y = p PROVE rp = x
      <3>1. \A j \in 1 .. m : rp[j] = x[j]
        BY <1>2, <2>4, <2>6
      <3> QED
        BY <1>2, <2>1, <3>1, SeqEqual
    <2> QED
      BY <2>3, <2>5, <2>6 DEF x, y
  <1> QED
    BY <1>0, <1>3, <1>4 DEF texts!HasAffix

\* f is the fold that join computes over the first n of the pieces q, starting with start.
Folds(f, start, d, q, n) ==
  f = [s \in SUBSET (1 .. n) |->
         IF s = {} THEN start ELSE f[s \ {texts!Max(s)}] \o d \o q[texts!Max(s)]]

\* The last of the first k + 1 numbers, and what is left without it.
LEMMA LastNumber ==
  ASSUME NEW k \in Nat
  PROVE  /\ 1 .. k + 1 # {}
         /\ texts!Max(1 .. k + 1) = k + 1
         /\ (1 .. k + 1) \ {k + 1} = 1 .. k
  <1>1. 1 .. k + 1 # {} /\ (1 .. k + 1) \ {k + 1} = 1 .. k /\ k + 1 \in 1 .. k + 1 /\ k + 1 \in Nat
    OBVIOUS
  <1> DEFINE m == texts!Max(1 .. k + 1)
  <1>2. m \in 1 .. k + 1 /\ \A y \in 1 .. k + 1 : m >= y
    BY <1>1, FirstAndLastOf
  <1> HIDE DEF m
  <1>3. m = k + 1
    BY <1>1, <1>2
  <1> QED
    BY <1>1, <1>3 DEF m

\* The fold exists.
LEMMA FoldExists ==
  ASSUME NEW start, NEW d, NEW q, NEW n \in Nat
  PROVE  \E f : Folds(f, start, d, q, n)
  <1> DEFINE T == {k \in Nat : \E f : Folds(f, start, d, q, k)}
  <1>1. 0 \in T
    <2> DEFINE f == [s \in SUBSET (1 .. 0) |-> start]
    <2>1. \A s \in SUBSET (1 .. 0) : s = {}
      OBVIOUS
    <2>2. f = [s \in SUBSET (1 .. 0) |->
                 IF s = {} THEN start ELSE f[s \ {texts!Max(s)}] \o d \o q[texts!Max(s)]]
      BY <2>1
    <2> HIDE DEF f
    <2>3. Folds(f, start, d, q, 0)
      BY <2>2 DEF Folds
    <2> QED
      BY <2>3
  <1>2. ASSUME NEW k \in T PROVE k + 1 \in T
    <2>1. PICK f : Folds(f, start, d, q, k)
      OBVIOUS
    <2> DEFINE g == [s \in SUBSET (1 .. k + 1) |->
                       IF k + 1 \in s THEN f[s \ {k + 1}] \o d \o q[k + 1] ELSE f[s]]
               value(s) == IF s = {} THEN start ELSE g[s \ {texts!Max(s)}] \o d \o q[texts!Max(s)]
    <2>2. \A s \in SUBSET (1 .. k) :
            f[s] = IF s = {} THEN start ELSE f[s \ {texts!Max(s)}] \o d \o q[texts!Max(s)]
      BY <2>1 DEF Folds
    <2>3. \A s \in SUBSET (1 .. k) : s \in SUBSET (1 .. k + 1) /\ k + 1 \notin s
      OBVIOUS
    <2>4. \A s \in SUBSET (1 .. k) : g[s] = f[s]
      BY <2>3
    <2>5. ASSUME NEW s \in SUBSET (1 .. k + 1) PROVE g[s] = value(s)
      <3>1. CASE k + 1 \in s
        <4> DEFINE m == texts!Max(s)
        <4>1. m \in s /\ \A y \in s : m >= y
          BY <3>1, FirstAndLastOf, k + 1 \in Nat
        <4> HIDE DEF m
        <4>2. m = k + 1
          BY <3>1, <4>1
        <4>3. s \ {k + 1} \in SUBSET (1 .. k)
          OBVIOUS
        <4> QED
          BY <2>4, <3>1, <4>2, <4>3 DEF m
      <3>2. CASE k + 1 \notin s
        <4>1. s \in SUBSET (1 .. k)
          <5>1. \A y \in 1 .. k + 1 : y # k + 1 => y \in 1 .. k
            OBVIOUS
          <5> QED
            BY <3>2, <5>1
        <4>2. s \ {texts!Max(s)} \in SUBSET (1 .. k)
          BY <4>1
        <4> QED
          BY <2>2, <2>4, <4>1, <4>2
      <3> QED
        BY <3>1, <3>2
    <2>6. g = [s \in SUBSET (1 .. k + 1) |-> value(s)]
      BY <2>5
    <2> HIDE DEF g
    <2>7. Folds(g, start, d, q, k + 1)
      BY <2>6 DEF Folds
    <2> QED
      BY <2>7
  <1> HIDE DEF T
  <1>3. T = Nat
    <2>1. T \in SUBSET Nat
      BY DEF T
    <2> QED
      BY <1>1, <1>2, <2>1, EveryNumber
  <1> QED
    BY <1>3 DEF T

\* What the fold makes of the first pieces depends on nothing else, and is a sequence.
LEMMA FoldsAgree ==
  ASSUME NEW S, NEW start \in Seq(S), NEW d \in Seq(S), NEW q \in Seq(Seq(S)), NEW x \in Seq(S),
         NEW f, Folds(f, start, d, q, Len(q)),
         NEW g, Folds(g, start, d, Append(q, x), Len(q) + 1)
  PROVE  f[1 .. Len(q)] \in Seq(S) /\ g[1 .. Len(q) + 1] = f[1 .. Len(q)] \o d \o x
  <1> DEFINE n == Len(q)
             r == Append(q, x)
             T == {k \in Nat : k <= n => f[1 .. k] \in Seq(S) /\ g[1 .. k] = f[1 .. k]}
  <1>0. n \in Nat /\ \A k \in 1 .. n : q[k] \in Seq(S) /\ r[k] = q[k]
    OBVIOUS
  <1>f. ASSUME NEW k \in Nat, k < n PROVE f[1 .. k + 1] = f[1 .. k] \o d \o q[k + 1]
    <2>1. 1 .. k + 1 \in SUBSET (1 .. n)
      BY <1>0, <1>f
    <2>2. f[1 .. k + 1] = IF 1 .. k + 1 = {} THEN start
                          ELSE f[(1 .. k + 1) \ {texts!Max(1 .. k + 1)}] \o d \o q[texts!Max(1 .. k + 1)]
      BY <2>1 DEF Folds
    <2> QED
      BY <2>2, LastNumber
  <1>g. ASSUME NEW k \in Nat, k < n + 1 PROVE g[1 .. k + 1] = g[1 .. k] \o d \o r[k + 1]
    <2>1. 1 .. k + 1 \in SUBSET (1 .. n + 1)
      BY <1>0, <1>g
    <2> HIDE DEF r
    <2>2. g[1 .. k + 1] = IF 1 .. k + 1 = {} THEN start
                          ELSE g[(1 .. k + 1) \ {texts!Max(1 .. k + 1)}] \o d \o r[texts!Max(1 .. k + 1)]
      BY <2>1 DEF Folds, r
    <2> QED
      BY <2>2, LastNumber
  <1>b. f[1 .. 0] = start /\ g[1 .. 0] = start
    <2>1. 1 .. 0 = {} /\ {} \in SUBSET (1 .. n) /\ {} \in SUBSET (1 .. n + 1)
      OBVIOUS
    <2> QED
      BY <2>1 DEF Folds
  <1>1. 0 \in T
    BY <1>b
  <1>2. ASSUME NEW k \in Nat, k \in T PROVE k + 1 \in T
    <2> SUFFICES ASSUME k + 1 <= n PROVE f[1 .. k + 1] \in Seq(S) /\ g[1 .. k + 1] = f[1 .. k + 1]
      OBVIOUS
    <2> HIDE DEF n, r
    <2>1. k \in Nat /\ k < n /\ k < n + 1 /\ n + 1 \in Nat /\ k + 1 \in 1 .. n
      BY <1>0
    <2>2. f[1 .. k + 1] = f[1 .. k] \o d \o q[k + 1]
      BY <1>f, <2>1
    <2>3. g[1 .. k + 1] = g[1 .. k] \o d \o r[k + 1]
      BY <1>g, <2>1
    <2>4. f[1 .. k] \in Seq(S) /\ g[1 .. k] = f[1 .. k]
      BY <1>0, <1>2, <2>1
    <2>5. f[1 .. k] \o d \in Seq(S)
      BY <2>4, ConcatProperties
    <2>6. (f[1 .. k] \o d) \o q[k + 1] \in Seq(S)
      BY <1>0, <2>1, <2>5, ConcatProperties
    <2> QED
      BY <1>0, <2>1, <2>2, <2>3, <2>4, <2>6
  <1> HIDE DEF T
  <1>3. T = Nat
    <2>1. T \in SUBSET Nat
      BY DEF T
    <2> QED
      BY <1>1, <1>2, <2>1, EveryNumber
  <1>4. f[1 .. n] \in Seq(S) /\ g[1 .. n] = f[1 .. n]
    BY <1>0, <1>3 DEF T
  <1>5. n < n + 1 /\ r[n + 1] = x
    BY <1>0
  <1>6. g[1 .. n + 1] = g[1 .. n] \o d \o r[n + 1]
    BY <1>0, <1>5, <1>g
  <1> QED
    BY <1>4, <1>5, <1>6

\* The fold that join computes.
JoinFold(d, ps) == CHOOSE f : Folds(f, Head(ps), d, Tail(ps), Len(ps) - 1)

\* join in terms of its fold.
LEMMA JoinIs ==
  ASSUME NEW S, NEW d \in Seq(S), NEW ps \in Seq(Seq(S)), ps # <<>>
  PROVE  /\ Folds(JoinFold(d, ps), Head(ps), d, Tail(ps), Len(ps) - 1)
         /\ texts!Join(d, ps) = JoinFold(d, ps)[1 .. Len(ps) - 1]
  <1>1. Len(ps) - 1 \in Nat /\ DOMAIN Tail(ps) = 1 .. Len(ps) - 1
    <2>1. Tail(ps) \in Seq(Seq(S)) /\ Len(Tail(ps)) = Len(ps) - 1
      BY HeadTailProperties
    <2> QED
      BY <2>1
  <1>2. \E f : Folds(f, Head(ps), d, Tail(ps), Len(ps) - 1)
    BY <1>1, FoldExists
  <1>3. texts!Join(d, ps) = JoinFold(d, ps)[1 .. Len(ps) - 1]
    BY <1>1, Zenon DEF texts!Join, texts!FoldLeft, texts!MapThenFoldSet, JoinFold, Folds
  <1> QED
    BY <1>2, <1>3 DEF JoinFold

\* join puts the delimiter before each further piece.
LEMMA JoinAppend ==
  ASSUME NEW S, NEW d \in Seq(S), NEW ps \in Seq(Seq(S)), NEW x \in Seq(S)
  PROVE  IF ps = <<>> THEN texts!Join(d, Append(ps, x)) = x
         ELSE /\ texts!Join(d, ps) \in Seq(S)
              /\ texts!Join(d, Append(ps, x)) = texts!Join(d, ps) \o d \o x
  <1> DEFINE ps2 == Append(ps, x)
             q == Tail(ps)
             q2 == Tail(ps2)
  <1>1. /\ ps2 \in Seq(Seq(S)) /\ ps2 # <<>> /\ Len(ps2) = Len(ps) + 1
        /\ Head(ps2) = (IF ps = <<>> THEN x ELSE Head(ps))
        /\ q2 = (IF ps = <<>> THEN <<>> ELSE Append(q, x))
    BY HeadTailAppend
  <1>2. /\ Folds(JoinFold(d, ps2), Head(ps2), d, q2, Len(ps2) - 1)
        /\ texts!Join(d, ps2) = JoinFold(d, ps2)[1 .. Len(ps2) - 1]
    BY <1>1, JoinIs
  <1> DEFINE g == JoinFold(d, ps2)
             f == JoinFold(d, ps)
  <1>3. CASE ps = <<>>
    <2>1. Len(ps2) - 1 = 0 /\ Head(ps2) = x
      BY <1>1, <1>3
    <2>2. Folds(g, x, d, q2, 0) /\ texts!Join(d, ps2) = g[1 .. 0]
      BY <1>2, <2>1
    <2> HIDE DEF g
    <2>3. g[1 .. 0] = x
      <3>1. 1 .. 0 = {} /\ 1 .. 0 \in SUBSET (1 .. 0)
        OBVIOUS
      <3> QED
        BY <2>2, <3>1 DEF Folds
    <2> QED
      BY <1>3, <2>2, <2>3
  <1>4. CASE ps # <<>>
    <2>1. /\ Folds(f, Head(ps), d, q, Len(ps) - 1)
          /\ texts!Join(d, ps) = f[1 .. Len(ps) - 1]
      BY <1>4, JoinIs
    <2>2. Head(ps) \in Seq(S) /\ q \in Seq(Seq(S)) /\ Len(q) = Len(ps) - 1
      BY <1>4, HeadTailProperties
    <2>3. Len(ps2) - 1 = Len(q) + 1 /\ Head(ps2) = Head(ps) /\ q2 = Append(q, x)
      BY <1>1, <1>4, <2>2
    <2>4. Folds(f, Head(ps), d, q, Len(q)) /\ texts!Join(d, ps) = f[1 .. Len(q)]
      BY <2>1, <2>2
    <2>5. Folds(g, Head(ps), d, Append(q, x), Len(q) + 1) /\ texts!Join(d, ps2) = g[1 .. Len(q) + 1]
      BY <1>2, <2>3
    <2> HIDE DEF f, g, q, q2, ps2
    <2>6. PICK start \in Seq(S) : start = Head(ps)
      BY <2>2
    <2>7. Folds(f, start, d, q, Len(q)) /\ Folds(g, start, d, Append(q, x), Len(q) + 1)
      BY <2>4, <2>5, <2>6
    <2>8. q \in Seq(Seq(S))
      BY <2>2
    <2>9. f[1 .. Len(q)] \in Seq(S) /\ g[1 .. Len(q) + 1] = f[1 .. Len(q)] \o d \o x
      BY <2>7, <2>8, FoldsAgree
    <2> QED
      BY <1>4, <2>4, <2>5, <2>9 DEF ps2
  <1> QED
    BY <1>3, <1>4

\* f is what FlattenSeq computes of the first n of the sequences q.
Flattens(f, q, n) == f = [k \in 1 .. n |-> IF k = 1 THEN q[k] ELSE f[k - 1] \o q[k]]

\* The concatenation exists.
LEMMA FlattenExists ==
  ASSUME NEW q, NEW n \in Nat
  PROVE  \E f : Flattens(f, q, n)
  <1> DEFINE T == {m \in Nat : \E f : Flattens(f, q, m)}
  <1>1. 0 \in T
    <2> DEFINE f == [k \in 1 .. 0 |-> q]
    <2>1. Flattens(f, q, 0)
      BY DEF Flattens
    <2> QED
      BY <2>1
  <1>2. ASSUME NEW m \in T PROVE m + 1 \in T
    <2>1. PICK f : Flattens(f, q, m)
      OBVIOUS
    <2> DEFINE g == [k \in 1 .. m + 1 |->
                       IF k = 1 THEN q[k] ELSE f[k - 1] \o q[k]]
    <2>2. \A k \in 1 .. m : f[k] = IF k = 1 THEN q[k] ELSE f[k - 1] \o q[k]
      BY <2>1 DEF Flattens
    <2>3. \A k \in 1 .. m : g[k] = f[k]
      BY <2>2
    <2>4. ASSUME NEW k \in 1 .. m + 1
          PROVE  g[k] = IF k = 1 THEN q[k] ELSE g[k - 1] \o q[k]
      <3>1. k # 1 => k - 1 \in 1 .. m
        OBVIOUS
      <3> QED
        BY <2>3, <3>1
    <2>5. g = [k \in 1 .. m + 1 |-> IF k = 1 THEN q[k] ELSE g[k - 1] \o q[k]]
      BY <2>4
    <2> HIDE DEF g
    <2>6. Flattens(g, q, m + 1)
      BY <2>5 DEF Flattens
    <2> QED
      BY <2>6
  <1> HIDE DEF T
  <1>3. T = Nat
    <2>1. T \in SUBSET Nat
      BY DEF T
    <2> QED
      BY <1>1, <1>2, <2>1, EveryNumber
  <1> QED
    BY <1>3 DEF T

\* The concatenation of some sequences and one more.
LEMMA FlattensAgree ==
  ASSUME NEW S, NEW q \in Seq(Seq(S)), NEW x \in Seq(S), q # <<>>,
         NEW f, Flattens(f, q, Len(q)),
         NEW g, Flattens(g, Append(q, x), Len(q) + 1)
  PROVE  f[Len(q)] \in Seq(S) /\ g[Len(q) + 1] = f[Len(q)] \o x
  <1> DEFINE n == Len(q)
             r == Append(q, x)
             T == {k \in Nat : k + 1 <= n => f[k + 1] \in Seq(S) /\ g[k + 1] = f[k + 1]}
  <1>0. n \in Nat /\ n > 0 /\ r[n + 1] = x /\ \A k \in 1 .. n : q[k] \in Seq(S) /\ r[k] = q[k]
    OBVIOUS
  <1>1. /\ \A k \in 1 .. n : f[k] = IF k = 1 THEN q[k] ELSE f[k - 1] \o q[k]
        /\ \A k \in 1 .. n + 1 : g[k] = IF k = 1 THEN r[k] ELSE g[k - 1] \o r[k]
    <2> HIDE DEF r
    <2> QED
      BY DEF Flattens, r
  <1> HIDE DEF n, r
  <1>2. 0 \in T
    <2>1. 1 \in 1 .. n /\ 1 \in 1 .. n + 1
      BY <1>0
    <2>2. f[1] = q[1] /\ g[1] = r[1] /\ r[1] = q[1] /\ q[1] \in Seq(S)
      BY <1>0, <1>1, <2>1
    <2> QED
      BY <2>2
  <1>3. ASSUME NEW k \in T PROVE k + 1 \in T
    <2> SUFFICES ASSUME k + 2 <= n PROVE f[k + 2] \in Seq(S) /\ g[k + 2] = f[k + 2]
      OBVIOUS
    <2>1. k \in Nat /\ k + 2 \in 1 .. n /\ k + 2 \in 1 .. n + 1 /\ k + 2 # 1 /\ (k + 2) - 1 = k + 1
      BY <1>0
    <2>2. f[k + 1] \in Seq(S) /\ g[k + 1] = f[k + 1]
      BY <1>0, <2>1
    <2>3. f[k + 2] = f[k + 1] \o q[k + 2] /\ g[k + 2] = g[k + 1] \o r[k + 2]
      BY <1>1, <2>1
    <2>4. f[k + 1] \o q[k + 2] \in Seq(S)
      BY <1>0, <2>1, <2>2, ConcatProperties
    <2> QED
      BY <1>0, <2>1, <2>2, <2>3, <2>4
  <1> HIDE DEF T
  <1>4. T = Nat
    <2>1. T \in SUBSET Nat
      BY DEF T
    <2> QED
      BY <1>2, <1>3, <2>1, EveryNumber
  <1>5. f[n] \in Seq(S) /\ g[n] = f[n]
    <2>1. n - 1 \in T /\ (n - 1) + 1 = n
      BY <1>0, <1>4
    <2> QED
      BY <1>0, <2>1 DEF T
  <1>6. g[n + 1] = g[n] \o r[n + 1]
    <2>1. n + 1 \in 1 .. n + 1 /\ n + 1 # 1 /\ (n + 1) - 1 = n
      BY <1>0
    <2> QED
      BY <1>1, <2>1
  <1> QED
    BY <1>0, <1>5, <1>6 DEF n

\* What FlattenSeq computes.
Flattening(q) == CHOOSE f : Flattens(f, q, Len(q))

\* FlattenSeq puts the last sequence after the others.
LEMMA FlattenAppend ==
  ASSUME NEW S, NEW q \in Seq(Seq(S)), NEW x \in Seq(S)
  PROVE  /\ texts!FlattenSeq(q) \in Seq(S)
         /\ texts!FlattenSeq(Append(q, x)) = texts!FlattenSeq(q) \o x
  <1>1. ASSUME NEW p \in Seq(Seq(S)), p # <<>>
        PROVE  Flattens(Flattening(p), p, Len(p)) /\ texts!FlattenSeq(p) = Flattening(p)[Len(p)]
    <2>1. \E f : Flattens(f, p, Len(p))
      BY FlattenExists, Len(p) \in Nat
    <2>2. Len(p) # 0
      BY <1>1
    <2>3. texts!FlattenSeq(p) = Flattening(p)[Len(p)]
      BY <2>2, Zenon DEF texts!FlattenSeq, Flattening, Flattens
    <2> QED
      BY <2>1, <2>3 DEF Flattening
  <1> DEFINE r == Append(q, x)
  <1>2. r \in Seq(Seq(S)) /\ r # <<>> /\ Len(r) = Len(q) + 1 /\ r[Len(q) + 1] = x
    BY AppendProperties
  <1>3. Flattens(Flattening(r), r, Len(q) + 1) /\ texts!FlattenSeq(r) = Flattening(r)[Len(q) + 1]
    BY <1>1, <1>2
  <1>4. CASE q = <<>>
    <2>1. texts!FlattenSeq(q) = <<>>
      BY <1>4 DEF texts!FlattenSeq
    <2>2. Len(q) + 1 = 1 /\ r[1] = x
      BY <1>2, <1>4
    <2> DEFINE g == Flattening(r)
    <2>3. Flattens(g, r, 1) /\ texts!FlattenSeq(r) = g[1]
      BY <1>3, <2>2
    <2> HIDE DEF g, r
    <2>4. g[1] = r[1]
      BY <2>3 DEF Flattens
    <2> QED
      BY <2>1, <2>2, <2>3, <2>4 DEF r
  <1>5. CASE q # <<>>
    <2> DEFINE g == Flattening(r)
               f == Flattening(q)
    <2>1. Flattens(f, q, Len(q)) /\ texts!FlattenSeq(q) = f[Len(q)]
      BY <1>1, <1>5
    <2>2. Flattens(g, Append(q, x), Len(q) + 1) /\ texts!FlattenSeq(r) = g[Len(q) + 1]
      BY <1>3
    <2> HIDE DEF f, g, r
    <2>3. f[Len(q)] \in Seq(S) /\ g[Len(q) + 1] = f[Len(q)] \o x
      BY <1>5, <2>1, <2>2, FlattensAgree
    <2> QED
      BY <2>1, <2>2, <2>3 DEF r
  <1> QED
    BY <1>4, <1>5

\* Where split cuts: the piece, the delimiter and the rest are the text, and no delimiter
\* begins before the end of the piece.
LEMMA CutIs ==
  ASSUME NEW S, NEW s \in Seq(S), NEW d \in Seq(S), texts!Find(s, d) # 0
  PROVE  LET k == texts!Find(s, d)
             p == SubSeq(s, 1, k - 1)
             r == SubSeq(s, k + Len(d), Len(s)) IN
         /\ p \in Seq(S) /\ r \in Seq(S)
         /\ (p \o d) \o r = s
         /\ texts!Find(p \o d, d) = Len(p) + 1
  <1>0. PICK k \in Nat : k = texts!Find(s, d)
    BY FindIs
  <1> DEFINE p == SubSeq(s, 1, k - 1)
             r == SubSeq(s, k + Len(d), Len(s))
             c == p \o d
  <1>n. PICK n \in Nat : n = Len(s)
    OBVIOUS
  <1>m. PICK m \in Nat : m = Len(d)
    OBVIOUS
  <1>1. /\ k \in 1 .. n + 1 /\ k + m - 1 <= n
        /\ texts!Occurs(s, d, k)
        /\ \A j \in 1 .. k - 1 : ~(j + m - 1 <= n /\ texts!Occurs(s, d, j))
    BY <1>0, <1>n, <1>m, FindIs
  <1>k. k \in 1 .. n + 1 /\ k + m - 1 <= n /\ k \in Nat /\ n \in Nat /\ m \in Nat
    BY <1>1
  <1>2. p \in Seq(S) /\ Len(p) = k - 1 /\ \A j \in 1 .. k - 1 : p[j] = s[j]
    BY <1>n, <1>1
  <1>3. SubSeq(s, k, k + m - 1) = d
    BY <1>m, <1>1 DEF texts!Occurs
  <1>e. PICK e \in Nat : e = k + m - 1
    BY <1>k
  <1>f. e <= n /\ k - 1 <= e
    BY <1>k, <1>e
  <1>5. r \in Seq(S) /\ Len(r) = n - e /\ \A h \in 1 .. n - e : r[h] = s[e + h]
    <2>1. k + Len(d) = e + 1
      BY <1>m, <1>k, <1>e
    <2>2. r = SubSeq(s, e + 1, n)
      BY <1>n, <2>1
    <2>3. \A h \in e + 1 .. n : s[h] \in S
      BY <1>n, <1>f
    <2>4. /\ SubSeq(s, e + 1, n) \in Seq(S)
          /\ Len(SubSeq(s, e + 1, n)) = IF e + 1 <= n THEN n - (e + 1) + 1 ELSE 0
          /\ \A h \in 1 .. n - (e + 1) + 1 : SubSeq(s, e + 1, n)[h] = s[e + 1 + h - 1]
      BY <2>3, SubSeqProperties
    <2> HIDE DEF r
    <2>5. Len(r) = n - e
      BY <1>f, <2>2, <2>4
    <2>6. ASSUME NEW h \in 1 .. n - e PROVE r[h] = s[e + h]
      <3>1. h \in 1 .. n - (e + 1) + 1 /\ e + 1 + h - 1 = e + h
        OBVIOUS
      <3> QED
        BY <2>2, <2>4, <3>1
    <2> QED
      BY <2>2, <2>4, <2>5, <2>6
  <1> HIDE DEF p, r
  <1>4. c \in Seq(S) /\ Len(c) = k + m - 1 /\ \A j \in 1 .. k + m - 1 : c[j] = s[j]
    <2>1. /\ c \in Seq(S) /\ Len(c) = Len(p) + Len(d)
          /\ \A j \in 1 .. Len(p) + Len(d) : c[j] = IF j <= Len(p) THEN p[j] ELSE d[j - Len(p)]
      BY <1>2, ConcatProperties
    <2>2. Len(p) + Len(d) = k + m - 1
      <3>1. Len(p) = k - 1 /\ Len(d) = m
        BY <1>m, <1>2
      <3> QED
        BY <1>k, <3>1
    <2>3. ASSUME NEW j \in 1 .. k + m - 1 PROVE c[j] = s[j]
      <3>1. CASE j <= k - 1
        BY <1>2, <2>1, <2>2, <3>1
      <3>2. CASE ~(j <= k - 1)
        <4>1. c[j] = d[j - (k - 1)] /\ j - (k - 1) \in 1 .. m
          BY <1>k, <1>2, <2>1, <2>2, <3>2
        <4>2. \A h \in 1 .. m : d[h] = s[k + h - 1]
          <5>1. SubSeq(s, k, e) = d
            BY <1>e, <1>3
          <5>2. \A h \in 1 .. m : SubSeq(s, k, e)[h] = s[k + h - 1]
            <6>1. \A h \in k .. e : s[h] \in S
              BY <1>n, <1>k, <1>f
            <6>2. \A h \in 1 .. e - k + 1 : SubSeq(s, k, e)[h] = s[k + h - 1]
              BY <1>k, <6>1, SubSeqProperties
            <6> QED
              <7>1. e - k + 1 = m
                BY <1>k, <1>e
              <7> QED
                BY <6>2, <7>1
          <5> QED
            BY <5>1, <5>2
        <4> QED
          BY <4>1, <4>2
      <3> QED
        BY <3>1, <3>2
    <2> QED
      BY <2>1, <2>2, <2>3
  <1> HIDE DEF c
  <1>6. c \o r = s
    <2> DEFINE t == c \o r
    <2>0. Len(c) = e
      BY <1>k, <1>e, <1>4
    <2>1. /\ t \in Seq(S) /\ Len(t) = Len(c) + Len(r)
          /\ \A j \in 1 .. Len(c) + Len(r) : t[j] = IF j <= Len(c) THEN c[j] ELSE r[j - Len(c)]
      BY <1>4, <1>5, ConcatProperties
    <2> HIDE DEF t
    <2>2. Len(c) + Len(r) = n
      BY <1>f, <1>5, <2>0
    <2>3. Len(t) = n /\ \A j \in 1 .. n : t[j] = IF j <= e THEN c[j] ELSE r[j - e]
      BY <2>0, <2>1, <2>2
    <2>4. ASSUME NEW j \in 1 .. n PROVE t[j] = s[j]
      <3>1. CASE j <= e
        <4>1. j \in 1 .. k + m - 1
          BY <1>k, <1>e, <3>1
        <4> QED
          BY <1>4, <2>3, <3>1, <4>1
      <3>2. CASE ~(j <= e)
        <4>1. j - e \in 1 .. n - e /\ e + (j - e) = j
          BY <3>2
        <4> QED
          BY <1>5, <2>3, <3>2, <4>1
      <3> QED
        BY <3>1, <3>2
    <2> QED
      BY <1>n, <2>1, <2>3, <2>4, SeqEqual DEF t
  <1>9. ASSUME NEW j \in 1 .. k, j + m - 1 <= k + m - 1
        PROVE  SubSeq(c, j, j + m - 1) = SubSeq(s, j, j + m - 1)
    <2> DEFINE x == SubSeq(c, j, j + m - 1)
               y == SubSeq(s, j, j + m - 1)
    <2>1. j \in Nat /\ j + m - 1 \in Int /\ \A h \in j .. j + m - 1 : h \in 1 .. k + m - 1 /\ h \in 1 .. n
      BY <1>1
    <2>2. \A h \in j .. j + m - 1 : c[h] \in S /\ s[h] \in S
      BY <1>n, <1>4, <2>1
    <2>3. x \in Seq(S) /\ Len(x) = m /\ \A h \in 1 .. m : x[h] = c[j + h - 1]
      <3>1. /\ x \in Seq(S) /\ Len(x) = IF j <= j + m - 1 THEN (j + m - 1) - j + 1 ELSE 0
            /\ \A h \in 1 .. (j + m - 1) - j + 1 : x[h] = c[j + h - 1]
        BY <1>k, <2>1, <2>2, SubSeqProperties
      <3> QED
        BY <1>k, <2>1, <3>1
    <2>4. y \in Seq(S) /\ Len(y) = m /\ \A h \in 1 .. m : y[h] = s[j + h - 1]
      <3>1. /\ y \in Seq(S) /\ Len(y) = IF j <= j + m - 1 THEN (j + m - 1) - j + 1 ELSE 0
            /\ \A h \in 1 .. (j + m - 1) - j + 1 : y[h] = s[j + h - 1]
        BY <1>k, <2>1, <2>2, SubSeqProperties
      <3> QED
        BY <1>k, <2>1, <3>1
    <2> HIDE DEF x, y
    <2>5. \A h \in 1 .. m : x[h] = y[h]
      <3>1. \A h \in 1 .. m : j + h - 1 \in 1 .. k + m - 1
        BY <1>k, <2>1
      <3> QED
        BY <1>4, <2>3, <2>4, <3>1
    <2>6. x = y
      BY <2>3, <2>4, <2>5, SeqEqual
    <2> QED
      BY <2>6 DEF x, y
  <1>10. texts!Occurs(c, d, k)
    <2>1. k \in 1 .. k
      BY <1>k
    <2>2. SubSeq(c, k, k + m - 1) = d
      <3>1. k + m - 1 <= k + m - 1
        BY <1>k
      <3>2. SubSeq(c, k, k + m - 1) = SubSeq(s, k, k + m - 1)
        BY <1>9, <2>1, <3>1
      <3> QED
        BY <1>3, <3>2
    <2> QED
      BY <1>m, <2>2 DEF texts!Occurs
  <1>11. \A j \in 1 .. k - 1 : ~(j + m - 1 <= Len(c) /\ texts!Occurs(c, d, j))
    <2> SUFFICES ASSUME NEW j \in 1 .. k - 1, texts!Occurs(c, d, j) PROVE FALSE
      OBVIOUS
    <2>1. j \in 1 .. k /\ j + m - 1 <= k + m - 1 /\ j + m - 1 <= n
      BY <1>1
    <2>2. texts!Occurs(s, d, j)
      BY <1>m, <1>9, <2>1 DEF texts!Occurs
    <2> QED
      BY <1>1, <2>1, <2>2
  <1>12. texts!Find(c, d) = k
    <2> DEFINE f == texts!Find(c, d)
    <2>1. \/ f = 0 /\ \A j \in 1 .. Len(c) + 1 : ~(j + m - 1 <= Len(c) /\ texts!Occurs(c, d, j))
          \/ /\ f \in 1 .. Len(c) + 1 /\ f + m - 1 <= Len(c) /\ texts!Occurs(c, d, f)
             /\ \A j \in 1 .. f - 1 : ~(j + m - 1 <= Len(c) /\ texts!Occurs(c, d, j))
      BY <1>m, <1>4, FindIs
    <2> HIDE DEF f
    <2>2. k \in 1 .. Len(c) + 1 /\ k + m - 1 <= Len(c)
      BY <1>1, <1>4
    <2>3. f # 0
      BY <1>10, <2>1, <2>2
    <2>4. f \in 1 .. Len(c) + 1 /\ ~(f \in 1 .. k - 1) /\ ~(k \in 1 .. f - 1)
      BY <1>10, <1>11, <2>1, <2>2, <2>3
    <2> QED
      BY <1>1, <2>4 DEF f
  <1>13. texts!Find(p \o d, d) = Len(p) + 1
    BY <1>k, <1>2, <1>12 DEF c
  <1> QED
    BY <1>0, <1>2, <1>5, <1>6, <1>13 DEF c, p, r

\* A text and the empty delimiter: it is found at once.
LEMMA EmptyIsFound ==
  ASSUME NEW S, NEW s \in Seq(S)
  PROVE  texts!Find(s, <<>>) # 0
  <1>1. PICK d \in Seq(S) : d = <<>> /\ Len(d) = 0
    BY EmptySeq
  <1>2. Len(s) \in Nat /\ 1 \in 1 .. Len(s) + 1 /\ 1 + Len(d) - 1 <= Len(s) /\ texts!Occurs(s, d, 1)
    BY <1>1 DEF texts!Occurs
  <1>3. texts!Find(s, d) # 0
    BY <1>2, FindIs
  <1> QED
    BY <1>1, <1>3

-------------------------------------------------------------------------------

\* What texts are made of by now.
Letters == Chars \cup {arr_delim}

\* What the escape makes of one character.
Cell(c) == IF c \in Marks THEN <<arr_delim, c>> ELSE <<c>>

\* What it makes of the first j characters of t.
Escaped(t, j) == texts!FlattenSeq([k \in 1 .. j |-> Cell(t[k])])

\* The escape has done some of the text and its position is right behind that.
EscapeInv ==
  \E j \in 0 .. Len(call.text) :
    /\ text = Escaped(call.text, j) \o SubSeq(call.text, j + 1, Len(call.text))
    /\ i = Len(Escaped(call.text, j)) + 1
    /\ size = Len(text)
    /\ pc = "done" => j = Len(call.text)

\* The inductive invariant of the functions over texts.
TextInv ==
  /\ text \in Seq(Letters)
  /\ pc = "idle" => call.fn = "none" /\ i = 1 /\ out = <<>>
  /\ pc # "idle" => call.fn \in {"split", "strip", "compare", "escape"}
  /\ call.fn # "none" => call.text \in Seq(Letters) /\ call.arg \in Seq(Letters)
  /\ call.fn = "split" => out \in Seq(Seq(Letters)) /\ texts!SplitIsExact
  /\ call.fn = "escape" => EscapeInv
  /\ call.fn \in {"strip", "compare"} /\ pc = "loop" => text = call.text
  /\ texts!StripIsExact
  /\ texts!CompareIsExact

\* A cell is a text.
LEMMA CellType ==
  ASSUME NEW c \in Letters
  PROVE  Cell(c) \in Seq(Letters)
  <1>1. arr_delim \in Letters
    BY DEF Letters
  <1>2. <<arr_delim, c>> \in Seq(Letters) /\ <<c>> \in Seq(Letters)
    BY <1>1
  <1> QED
    BY <1>2 DEF Cell

\* The cells of one character more.
LEMMA EscapedNext ==
  ASSUME NEW t \in Seq(Letters), NEW j \in Nat, j < Len(t)
  PROVE  /\ Escaped(t, j) \in Seq(Letters)
         /\ Escaped(t, j + 1) = Escaped(t, j) \o Cell(t[j + 1])
  <1> DEFINE q == [k \in 1 .. j |-> Cell(t[k])]
             r == [k \in 1 .. j + 1 |-> Cell(t[k])]
             x == Cell(t[j + 1])
  <1>1. \A c \in Letters : Cell(c) \in Seq(Letters)
    BY CellType
  <1>2. \A k \in 1 .. j + 1 : t[k] \in Letters /\ Cell(t[k]) \in Seq(Letters)
    BY <1>1
  <1>3. q \in Seq(Seq(Letters)) /\ Len(q) = j /\ \A k \in 1 .. j : q[k] = Cell(t[k])
    BY <1>2
  <1>4. r \in Seq(Seq(Letters)) /\ Len(r) = j + 1 /\ \A k \in 1 .. j + 1 : r[k] = Cell(t[k])
    BY <1>2
  <1>5. x \in Seq(Letters)
    BY <1>2
  <1> HIDE DEF q, r, x
  <1>6. /\ Append(q, x) \in Seq(Seq(Letters)) /\ Len(Append(q, x)) = j + 1
        /\ \A k \in 1 .. j : Append(q, x)[k] = q[k]
        /\ Append(q, x)[j + 1] = x
    BY <1>3, <1>5, AppendProperties
  <1>7. \A k \in 1 .. j + 1 : Append(q, x)[k] = r[k]
    BY <1>3, <1>4, <1>6 DEF x
  <1>8. Append(q, x) = r
    BY <1>4, <1>6, <1>7, SeqEqual
  <1>9. texts!FlattenSeq(q) \in Seq(Letters) /\ texts!FlattenSeq(r) = texts!FlattenSeq(q) \o x
    BY <1>3, <1>5, <1>8, FlattenAppend
  <1> QED
    BY <1>9 DEF Escaped, q, r, x

\* Of no characters, the escape makes nothing; of any, a text.
LEMMA EscapedType ==
  ASSUME NEW t \in Seq(Letters), NEW j \in 0 .. Len(t)
  PROVE  Escaped(t, 0) = <<>> /\ Escaped(t, j) \in Seq(Letters)
  <1>1. Escaped(t, 0) = <<>>
    <2>1. [k \in 1 .. 0 |-> Cell(t[k])] = <<>>
      OBVIOUS
    <2> QED
      BY <2>1 DEF Escaped, texts!FlattenSeq
  <1>2. CASE j < Len(t)
    BY <1>1, <1>2, EscapedNext
  <1>3. CASE j = 0
    BY <1>1, <1>3, EmptySeq
  <1>4. CASE j = Len(t) /\ j # 0
    <2>1. j - 1 \in Nat /\ j - 1 < Len(t) /\ (j - 1) + 1 = j /\ t[j] \in Letters
      BY <1>4
    <2>2. Escaped(t, j - 1) \in Seq(Letters) /\ Escaped(t, j) = Escaped(t, j - 1) \o Cell(t[j])
      BY <2>1, EscapedNext
    <2>3. Cell(t[j]) \in Seq(Letters)
      BY <2>1, CellType
    <2> QED
      BY <1>1, <2>2, <2>3, ConcatProperties
  <1> QED
    BY <1>2, <1>3, <1>4

\* The invariant says that every function answers with what it is defined to.
LEMMA TextInvExact == TextInv => ResultsAreExact
  <1> SUFFICES ASSUME TextInv, call.fn = "escape", pc = "done"
               PROVE  texts!EscapeIsExact
    BY DEF TextInv, ResultsAreExact, texts!ResultsAreExact, texts!SplitIsExact,
           texts!EscapeIsExact
  <1>1. call.text \in Seq(Letters)
    BY DEF TextInv
  <1> DEFINE n == Len(call.text)
  <1>2. text = Escaped(call.text, n) \o SubSeq(call.text, n + 1, n)
    BY DEF TextInv, EscapeInv
  <1>3. SubSeq(call.text, n + 1, n) = <<>> /\ n \in Nat /\ DOMAIN call.text = 1 .. n
    BY <1>1
  <1>4. Escaped(call.text, n) \in Seq(Letters)
    <2>1. n \in 0 .. Len(call.text)
      BY <1>3
    <2> QED
      BY <1>1, <2>1, EscapedType
  <1>5. text = Escaped(call.text, n)
    BY <1>2, <1>3, <1>4, ConcatEmptySeq
  <1> QED
    BY <1>3, <1>5 DEF texts!EscapeIsExact, Escaped, Cell

\* Nothing is called at first.
LEMMA TextInit == texts!Init => TextInv
  BY DEF texts!Init, TextInv, texts!StripIsExact, texts!CompareIsExact

\* A call takes its arguments.
LEMMA TextBegin ==
  ASSUME TextInv, NEW fn \in {"split", "strip", "compare", "escape"},
         NEW s \in Seq(Chars), NEW arg \in Seq(Chars), texts!Begin(fn, s, arg)
  PROVE  TextInv'
  <1>1. /\ call' = [fn |-> fn, text |-> s, arg |-> arg] /\ text' = s /\ size' = Len(s)
        /\ pc' = "loop" /\ i' = 1 /\ out' = <<>>
    BY DEF TextInv, texts!Begin
  <1>2. s \in Seq(Letters) /\ arg \in Seq(Letters)
    BY DEF Letters
  <1>3. ASSUME fn = "split" PROVE out' \in Seq(Seq(Letters)) /\ texts!SplitIsExact'
    <2>1. out' \in Seq(Seq(Letters)) /\ DOMAIN out' = {}
      BY <1>1
    <2>2. texts!Join(arg, Append(out', s)) = s
      BY <1>1, <1>2, <2>1, JoinAppend
    <2> QED
      BY <1>1, <2>1, <2>2 DEF texts!SplitIsExact
  <1>4. ASSUME fn = "escape" PROVE EscapeInv'
    <2>1. Escaped(s, 0) = <<>> /\ Len(s) \in Nat /\ 0 \in 0 .. Len(s) /\ Len(<<>>) + 1 = 1
      BY <1>2, EscapedType
    <2>2. <<>> \o SubSeq(s, 0 + 1, Len(s)) = s
      BY <1>2, SubSeqFull, ConcatEmptySeq
    <2> QED
      BY <1>1, <2>1, <2>2 DEF EscapeInv
  <1> QED
    BY <1>1, <1>2, <1>3, <1>4 DEF TextInv, texts!StripIsExact, texts!CompareIsExact

\* The first piece joined is itself.
LEMMA JoinFirst ==
  ASSUME NEW S, NEW d \in Seq(S), NEW x \in Seq(S)
  PROVE  texts!Join(d, Append(<<>>, x)) = x
  BY JoinAppend, <<>> \in Seq(Seq(S))

\* Further ones come after a delimiter.
LEMMA JoinNext ==
  ASSUME NEW S, NEW d \in Seq(S), NEW ps \in Seq(Seq(S)), ps # <<>>, NEW x \in Seq(S)
  PROVE  /\ texts!Join(d, ps) \in Seq(S)
         /\ texts!Join(d, Append(ps, x)) = (texts!Join(d, ps) \o d) \o x
  BY JoinAppend

\* split cuts at the first delimiter or ends with what is left.
LEMMA TextSplit ==
  ASSUME TextInv, texts!SplitStep
  PROVE  TextInv'
  <1> DEFINE arg == call.arg
  <1>1. /\ call.fn = "split" /\ pc = "loop" /\ UNCHANGED call
        /\ text \in Seq(Letters) /\ arg \in Seq(Letters) /\ call.text \in Seq(Letters)
        /\ out \in Seq(Seq(Letters))
        /\ texts!Join(arg, Append(out, text)) = call.text
        /\ \A h \in DOMAIN out : texts!Find(out[h] \o arg, arg) = Len(out[h]) + 1
    BY DEF TextInv, texts!SplitStep, texts!SplitIsExact
  <1>k. PICK k \in Nat : k = texts!Find(text, arg)
    <2> HIDE DEF arg
    <2> QED
      BY <1>1, FindIs
  <1>2. CASE k # 0
    <2> DEFINE p == SubSeq(text, 1, k - 1)
               r == SubSeq(text, k + Len(arg), Len(text))
    <2>1. out' = Append(out, p) /\ text' = r /\ pc' = "loop"
      BY <1>1, <1>k, <1>2 DEF texts!SplitStep, texts!Rest
    <2>2. text \in Seq(Letters) /\ arg \in Seq(Letters)
      BY <1>1
    <2> HIDE DEF arg
    <2>3. /\ p \in Seq(Letters) /\ r \in Seq(Letters)
          /\ (p \o arg) \o r = text
          /\ texts!Find(p \o arg, arg) = Len(p) + 1
      BY <1>k, <1>2, <2>2, CutIs
    <2> HIDE DEF p, r
    <2>4. /\ out' \in Seq(Seq(Letters)) /\ out' # <<>> /\ Len(out') = Len(out) + 1
          /\ \A h \in 1 .. Len(out) : out'[h] = out[h]
          /\ out'[Len(out) + 1] = p
      <3>1. out \in Seq(Seq(Letters)) /\ p \in Seq(Letters)
        BY <1>1, <2>3
      <3> QED
        BY <2>1, <3>1, AppendProperties
    <2>5. /\ texts!Join(arg, out') \in Seq(Letters)
          /\ texts!Join(arg, Append(out', r)) = (texts!Join(arg, out') \o arg) \o r
      <3>1. out' \in Seq(Seq(Letters)) /\ out' # <<>> /\ r \in Seq(Letters)
        BY <2>3, <2>4
      <3> QED
        BY <2>2, <3>1, JoinNext
    <2>6. texts!Join(arg, Append(out', text')) = call.text
      <3>1. CASE out = <<>>
        <4>1. texts!Join(arg, out') = p /\ texts!Join(arg, Append(out, text)) = text
          BY <1>1, <2>1, <2>3, <3>1, JoinFirst
        <4> QED
          BY <1>1, <2>1, <2>3, <2>5, <4>1
      <3>2. CASE out # <<>>
        <4>1. PICK js \in Seq(Letters) : js = texts!Join(arg, out)
          BY <1>1, <3>2, JoinNext
        <4>2. texts!Join(arg, out') = (js \o arg) \o p
          BY <1>1, <2>1, <2>3, <3>2, <4>1, JoinNext
        <4>3. texts!Join(arg, Append(out, text)) = (js \o arg) \o text
          BY <1>1, <3>2, <4>1, JoinNext
        <4>4. PICK w \in Seq(Letters) : w = js \o arg
          BY <1>1, ConcatProperties
        <4>5. ((w \o p) \o arg) \o r = w \o ((p \o arg) \o r)
          <5>1. PICK x, y, z \in Seq(Letters) : x = p /\ y = arg /\ z = r
            BY <2>2, <2>3
          <5>2. ((w \o x) \o y) \o z = w \o ((x \o y) \o z)
            OBVIOUS
          <5> QED
            BY <5>1, <5>2
        <4> QED
          BY <1>1, <2>1, <2>3, <2>5, <4>2, <4>3, <4>4, <4>5
      <3> QED
        BY <3>1, <3>2
    <2>7. \A h \in DOMAIN out' : texts!Find(out'[h] \o arg, arg) = Len(out'[h]) + 1
      <3>1. DOMAIN out = 1 .. Len(out) /\ DOMAIN out' = 1 .. Len(out) + 1 /\ Len(out) \in Nat
        BY <1>1, <2>4
      <3>2. ASSUME NEW h \in 1 .. Len(out) + 1
            PROVE  texts!Find(out'[h] \o arg, arg) = Len(out'[h]) + 1
        <4>1. CASE h \in 1 .. Len(out)
          BY <1>1, <2>4, <3>1, <4>1
        <4>2. CASE h = Len(out) + 1
          BY <2>3, <2>4, <4>2
        <4> QED
          BY <3>1, <4>1, <4>2
      <3> QED
        BY <3>1, <3>2
    <2> QED
      BY <1>1, <2>1, <2>3, <2>4, <2>6, <2>7
      DEF arg, TextInv, texts!SplitIsExact, texts!StripIsExact, texts!CompareIsExact
  <1>3. CASE k = 0
    <2>1. out' = Append(out, text) /\ text' = text /\ pc' = "done"
      BY <1>1, <1>k, <1>3 DEF texts!SplitStep
    <2>2. /\ out' \in Seq(Seq(Letters)) /\ Len(out') = Len(out) + 1
          /\ \A h \in 1 .. Len(out) : out'[h] = out[h]
          /\ out'[Len(out) + 1] = text
      BY <1>1, <2>1, AppendProperties
    <2>3. texts!Join(arg, out') = call.text
      BY <1>1, <2>1
    <2>4. arg # <<>>
      BY <1>1, <1>k, <1>3, EmptyIsFound
    <2>5. \A h \in DOMAIN out' :
            IF h = Len(out') THEN texts!Find(out'[h], arg) = 0
                             ELSE texts!Find(out'[h] \o arg, arg) = Len(out'[h]) + 1
      <3>1. DOMAIN out = 1 .. Len(out) /\ DOMAIN out' = 1 .. Len(out) + 1 /\ Len(out) \in Nat
        BY <1>1, <2>2
      <3>2. ASSUME NEW h \in 1 .. Len(out) + 1
            PROVE  IF h = Len(out') THEN texts!Find(out'[h], arg) = 0
                                    ELSE texts!Find(out'[h] \o arg, arg) = Len(out'[h]) + 1
        <4>1. CASE h \in 1 .. Len(out)
          <5>1. h # Len(out') /\ out'[h] = out[h] /\ h \in DOMAIN out
            BY <2>2, <3>1, <4>1
          <5> QED
            BY <1>1, <5>1
        <4>2. CASE h = Len(out) + 1
          BY <1>k, <1>3, <2>2, <4>2
        <4> QED
          BY <3>1, <4>1, <4>2
      <3> QED
        BY <3>1, <3>2
    <2> QED
      BY <1>1, <2>1, <2>2, <2>3, <2>4, <2>5
      DEF TextInv, texts!SplitIsExact, texts!StripIsExact, texts!CompareIsExact
  <1> QED
    BY <1>2, <1>3

\* What an insertion behind f puts between f and what follows.
LEMMA InsertBehind ==
  ASSUME NEW S, NEW f \in Seq(S), NEW r \in Seq(S), NEW e \in S
  PROVE  texts!InsertAt(f \o r, Len(f) + 1, e) = (f \o <<e>>) \o r
  <1>n. PICK n \in Nat : n = Len(f)
    OBVIOUS
  <1>m. PICK m \in Nat : m = Len(r)
    OBVIOUS
  <1> DEFINE t == f \o r
  <1>1. /\ t \in Seq(S) /\ Len(t) = n + m
        /\ \A j \in 1 .. n + m : t[j] = IF j <= n THEN f[j] ELSE r[j - n]
    BY <1>n, <1>m, ConcatProperties
  <1> HIDE DEF t
  <1>2. SubSeq(t, 1, n) = f
    <2> DEFINE x == SubSeq(t, 1, n)
    <2>1. x \in Seq(S) /\ Len(x) = n /\ \A j \in 1 .. n : x[j] = t[j]
      BY <1>1
    <2> HIDE DEF x
    <2>2. \A j \in 1 .. n : x[j] = f[j]
      BY <1>1, <2>1
    <2> QED
      BY <1>n, <2>1, <2>2, SeqEqual DEF x
  <1>3. SubSeq(t, n + 1, n + m) = r
    <2> DEFINE x == SubSeq(t, n + 1, n + m)
    <2>1. \A j \in n + 1 .. n + m : t[j] \in S
      BY <1>1
    <2>2. /\ x \in Seq(S) /\ Len(x) = IF n + 1 <= n + m THEN (n + m) - (n + 1) + 1 ELSE 0
          /\ \A j \in 1 .. (n + m) - (n + 1) + 1 : x[j] = t[n + 1 + j - 1]
      BY <2>1, SubSeqProperties
    <2> HIDE DEF x
    <2>3. Len(x) = m
      BY <2>2
    <2>4. ASSUME NEW j \in 1 .. m PROVE x[j] = r[j]
      <3>1. j \in 1 .. (n + m) - (n + 1) + 1 /\ n + 1 + j - 1 = n + j /\ n + j \in 1 .. n + m
        OBVIOUS
      <3>2. x[j] = t[n + j]
        BY <2>2, <3>1
      <3> QED
        BY <1>1, <3>1, <3>2
    <2> QED
      BY <1>m, <2>2, <2>3, <2>4, SeqEqual DEF x
  <1>4. texts!InsertAt(t, n + 1, e) = SubSeq(t, 1, n) \o <<e>> \o SubSeq(t, n + 1, n + m)
    <2>1. (n + 1) - 1 = n /\ Len(t) = n + m
      BY <1>1
    <2> QED
      BY <2>1 DEF texts!InsertAt
  <1> QED
    BY <1>n, <1>2, <1>3, <1>4 DEF t

\* The escape deals with one character, or ends.
LEMMA TextEscape ==
  ASSUME TextInv, texts!EscapeStep
  PROVE  TextInv'
  <1> DEFINE t == call.text
  <1>1. /\ call.fn = "escape" /\ pc = "loop" /\ UNCHANGED <<call, out>>
        /\ text \in Seq(Letters) /\ t \in Seq(Letters) /\ EscapeInv
    BY DEF TextInv, texts!EscapeStep
  <1>n. PICK n \in Nat : n = Len(t)
    BY <1>1
  <1>2. PICK j \in 0 .. n :
          /\ text = Escaped(t, j) \o SubSeq(t, j + 1, n)
          /\ i = Len(Escaped(t, j)) + 1
          /\ size = Len(text)
    BY <1>1, <1>n DEF EscapeInv
  <1>3. Escaped(t, j) \in Seq(Letters)
    BY <1>1, <1>n, EscapedType
  <1>4. PICK f \in Seq(Letters) : f = Escaped(t, j)
    BY <1>3
  <1>5. PICK m \in Nat : m = Len(f)
    OBVIOUS
  <1>6. SubSeq(t, j + 1, n) \in Seq(Letters) /\ Len(SubSeq(t, j + 1, n)) = n - j
    <2>1. \A h \in j + 1 .. n : t[h] \in Letters
      BY <1>1, <1>n
    <2>2. /\ SubSeq(t, j + 1, n) \in Seq(Letters)
          /\ Len(SubSeq(t, j + 1, n)) = IF j + 1 <= n THEN n - (j + 1) + 1 ELSE 0
      BY <2>1, SubSeqProperties
    <2> QED
      BY <2>2
  <1>7. PICK r \in Seq(Letters) : r = SubSeq(t, j + 1, n) /\ Len(r) = n - j
    BY <1>6
  <1>8. /\ text = f \o r /\ i = m + 1 /\ size = m + (n - j)
        /\ \A h \in 1 .. m + (n - j) : text[h] = IF h <= m THEN f[h] ELSE r[h - m]
    <2>1. text = f \o r /\ i = m + 1 /\ size = Len(f \o r)
      BY <1>2, <1>4, <1>5, <1>7
    <2>2. Len(f \o r) = m + (n - j)
      BY <1>5, <1>7
    <2>3. \A h \in 1 .. m + (n - j) : (f \o r)[h] = IF h <= m THEN f[h] ELSE r[h - m]
      BY <1>5, <1>7
    <2> QED
      BY <2>1, <2>2, <2>3
  <1>9. CASE i > size
    <2>1. pc' = "done" /\ UNCHANGED <<text, i, size>>
      BY <1>9 DEF texts!EscapeStep
    <2>2. j = n
      BY <1>8, <1>9
    <2>3. EscapeInv'
      BY <1>1, <1>2, <1>n, <2>1, <2>2 DEF EscapeInv
    <2> QED
      BY <1>1, <2>1, <2>3 DEF TextInv, texts!StripIsExact, texts!CompareIsExact
  <1>10. CASE ~(i > size)
    <2>1. j < n
      BY <1>8, <1>10
    <2> DEFINE c == t[j + 1]
    <2>2. c \in Letters /\ text[i] = c
      <3>1. m + 1 \in 1 .. m + (n - j) /\ ~(m + 1 <= m) /\ (m + 1) - m = 1
        BY <2>1
      <3>2. text[i] = r[1]
        BY <1>8, <3>1
      <3>3. r[1] = c
        BY <1>1, <1>n, <1>7, <2>1
      <3>4. j + 1 \in 1 .. n
        BY <2>1
      <3> QED
        BY <1>1, <1>n, <3>2, <3>3, <3>4
    <2> HIDE DEF c
    <2>3. r = <<c>> \o SubSeq(t, j + 2, n) /\ SubSeq(t, j + 2, n) \in Seq(Letters)
      <3>1. j + 1 \in 1 .. Len(t) /\ n \in j + 1 .. Len(t) /\ (j + 1) + 1 = j + 2
        BY <1>n, <2>1
      <3>2. \A h \in j + 2 .. n : t[h] \in Letters
        BY <1>1, <1>n
      <3>3. SubSeq(t, j + 2, n) \in Seq(Letters)
        BY <3>2, SubSeqProperties
      <3>4. SubSeq(t, j + 1, n) = <<t[j + 1]>> \o SubSeq(t, (j + 1) + 1, n)
        BY <1>1, <3>1, SubSeqRecursiveFirst
      <3> QED
        BY <1>7, <3>1, <3>3, <3>4 DEF c
    <2>4. PICK z \in Seq(Letters) : z = SubSeq(t, j + 2, n)
      BY <2>3
    <2>5. PICK e \in Letters : e = arr_delim
      BY DEF Letters
    <2>6. PICK x \in Letters : x = c
      BY <2>2
    <2>7. Escaped(t, j + 1) = f \o Cell(x)
      <3>1. j \in Nat /\ j < Len(t)
        BY <1>n, <2>1
      <3> QED
        BY <1>1, <1>4, <2>6, <3>1, EscapedNext DEF c
    <2>8. r = <<x>> \o z
      BY <2>3, <2>4, <2>6
    <2>9. /\ text' = Escaped(t, j + 1) \o z
          /\ i' = Len(Escaped(t, j + 1)) + 1
          /\ size' = Len(text') /\ text' \in Seq(Letters) /\ pc' = "loop"
      <3>1. CASE x \in Marks
        <4>1. /\ text' = texts!InsertAt(text, i, arr_delim) /\ i' = i + 2 /\ size' = size + 1
              /\ UNCHANGED pc
          BY <1>10, <2>2, <2>6, <3>1 DEF texts!EscapeStep
        <4>2. text' = (f \o <<e>>) \o r
          BY <1>5, <1>8, <2>5, <4>1, InsertBehind
        <4>3. Cell(x) = <<e, x>>
          BY <2>5, <3>1 DEF Cell
        <4>4. /\ (f \o <<e>>) \o (<<x>> \o z) = (f \o <<e, x>>) \o z
              /\ Len(f \o <<e, x>>) = m + 2 /\ (f \o <<e, x>>) \o z \in Seq(Letters)
              /\ Len((f \o <<e>>) \o r) = m + 1 + Len(r)
          BY <1>5
        <4>5. text' = Escaped(t, j + 1) \o z /\ text' \in Seq(Letters)
          BY <2>7, <2>8, <4>2, <4>3, <4>4
        <4>6. i' = Len(Escaped(t, j + 1)) + 1
          BY <1>8, <2>7, <4>1, <4>3, <4>4
        <4>7. size' = Len(text')
          <5>1. Len(text') = m + 1 + (n - j)
            BY <1>7, <4>2, <4>4
          <5> QED
            BY <1>8, <4>1, <5>1
        <4> QED
          BY <1>1, <4>1, <4>5, <4>6, <4>7
      <3>2. CASE x \notin Marks
        <4>1. UNCHANGED <<text, size, pc>> /\ i' = i + 1
          BY <1>10, <2>2, <2>6, <3>2 DEF texts!EscapeStep
        <4>2. Cell(x) = <<x>>
          BY <3>2 DEF Cell
        <4>3. f \o (<<x>> \o z) = (f \o <<x>>) \o z /\ Len(f \o <<x>>) = m + 1
          BY <1>5
        <4> QED
          BY <1>1, <1>2, <1>8, <2>7, <2>8, <4>1, <4>2, <4>3
      <3> QED
        BY <3>1, <3>2
    <2>10. EscapeInv'
      <3>1. j + 1 \in 0 .. n /\ (j + 1) + 1 = j + 2
        BY <2>1
      <3> QED
        BY <1>1, <1>n, <2>4, <2>9, <3>1 DEF EscapeInv
    <2> QED
      BY <1>1, <2>9, <2>10 DEF TextInv, texts!StripIsExact, texts!CompareIsExact
  <1> QED
    BY <1>9, <1>10

\* strip answers in one step.
LEMMA TextStrip ==
  ASSUME TextInv, texts!StripStep
  PROVE  TextInv'
  <1>1. /\ call.fn = "strip" /\ text = call.text /\ text \in Seq(Letters)
        /\ text' = texts!Strip(text, texts!ToSet(call.arg)) /\ pc' = "done"
        /\ UNCHANGED <<call, i, size, out>>
    BY DEF TextInv, texts!StripStep
  <1> DEFINE C == texts!ToSet(call.arg)
  <1>2. /\ text' \in Seq(Letters)
        /\ text' # <<>> => Head(text') \notin C /\ texts!Last(text') \notin C
        /\ \E k \in 0 .. Len(text) :
             /\ SubSeq(text, k + 1, k + Len(text')) = text'
             /\ \A j \in DOMAIN text \ (k + 1 .. k + Len(text')) : text[j] \in C
    <2> HIDE DEF C
    <2>1. text' = texts!Strip(text, C)
      BY <1>1 DEF C
    <2> QED
      BY <1>1, <2>1, StripIs
  <1>3. texts!StripIsExact'
    BY <1>1, <1>2 DEF texts!StripIsExact
  <1> QED
    BY <1>1, <1>2, <1>3 DEF TextInv, texts!CompareIsExact

\* So do the comparisons.
LEMMA TextCompare ==
  ASSUME TextInv, texts!CompareStep
  PROVE  TextInv'
  <1>1. /\ call.fn = "compare" /\ text = call.text /\ text \in Seq(Letters) /\ call.arg \in Seq(Letters)
        /\ out' = <<texts!HasPrefix(text, call.arg), texts!HasAffix(text, call.arg)>>
        /\ pc' = "done" /\ UNCHANGED <<call, text, i, size>>
    BY DEF TextInv, texts!CompareStep
  <1>2. /\ texts!HasPrefix(text, call.arg) <=> texts!IsPrefix(call.arg, text) \/ texts!IsPrefix(text, call.arg)
        /\ texts!HasAffix(text, call.arg) <=> texts!IsSuffix(call.arg, text)
    BY <1>1, HasPrefixIs, HasAffixIs
  <1>3. texts!CompareIsExact'
    <2>1. /\ texts!HasPrefix(text, call.arg) \in BOOLEAN /\ texts!HasAffix(text, call.arg) \in BOOLEAN
          /\ texts!IsSuffix(call.arg, text) \in BOOLEAN
      BY DEF texts!HasPrefix, texts!HasAffix, texts!IsSuffix, texts!IsPrefix
    <2>2. /\ texts!HasPrefix(text, call.arg) = (texts!IsPrefix(call.arg, text) \/ texts!IsPrefix(text, call.arg))
          /\ texts!HasAffix(text, call.arg) = texts!IsSuffix(call.arg, text)
      BY <1>2, <2>1
    <2> QED
      BY <1>1, <2>2 DEF texts!CompareIsExact
  <1> QED
    BY <1>1, <1>3 DEF TextInv, texts!StripIsExact

\* Every step keeps the invariant.
LEMMA TextStep == TextInv /\ [texts!Next]_textVars => TextInv'
  <1> SUFFICES ASSUME TextInv, [texts!Next]_textVars PROVE TextInv'
    OBVIOUS
  <1>1. ASSUME NEW s \in texts!BoundedSeq(Chars, MaxLen), NEW arg \in texts!BoundedSeq(Chars, MaxArg),
               NEW fn \in {"split", "strip", "compare", "escape"}, texts!Begin(fn, s, arg)
        PROVE  TextInv'
    <2>1. s \in Seq(Chars) /\ arg \in Seq(Chars)
      BY BoundedSeqIsSeq
    <2> QED
      BY <1>1, <2>1, TextBegin
  <1>2. CASE UNCHANGED textVars
    BY <1>2 DEF textVars, TextInv, EscapeInv, texts!SplitIsExact, texts!StripIsExact, texts!CompareIsExact
  <1> QED
    BY <1>1, <1>2, TextSplit, TextEscape, TextStrip, TextCompare DEF texts!Next
-------------------------------------------------------------------------------
\* Messages of differences: one run of diff_lines.

\* Messages and strings use the same FlattenSeq, which puts the last sequence behind the others.
LEMMA FlattenMore ==
  ASSUME NEW S, NEW q \in Seq(Seq(S)), NEW x \in Seq(S)
  PROVE  /\ messages!FlattenSeq(q) \in Seq(S)
         /\ messages!FlattenSeq(Append(q, x)) = messages!FlattenSeq(q) \o x
  <1>1. ASSUME NEW p PROVE messages!FlattenSeq(p) = texts!FlattenSeq(p)
    BY Zenon DEF messages!FlattenSeq, texts!FlattenSeq
  <1> QED
    BY <1>1, FlattenAppend

LEMMA FlattenNone == messages!FlattenSeq(<<>>) = <<>>
  BY DEF messages!FlattenSeq

\* The first n + 1 of a sequence are the first n and one more.
LEMMA OneMore ==
  ASSUME NEW S, NEW s \in Seq(S), NEW n \in Nat, n + 1 <= Len(s)
  PROVE  /\ SubSeq(s, 1, n) \in Seq(S) /\ Len(SubSeq(s, 1, n)) = n
         /\ s[n + 1] \in S
         /\ SubSeq(s, 1, n + 1) = Append(SubSeq(s, 1, n), s[n + 1])
  <1>1. PICK m \in Nat : m = Len(s)
    OBVIOUS
  <1>2. n + 1 \in 1 .. m /\ n \in 0 .. m
    BY <1>1
  <1>3. /\ SubSeq(s, 1, n) \in Seq(S) /\ Len(SubSeq(s, 1, n)) = n /\ s[n + 1] \in S
        /\ \A k \in 1 .. n : SubSeq(s, 1, n)[k] = s[k]
    BY <1>1, <1>2, SubSeqProperties
  <1>4. /\ SubSeq(s, 1, n + 1) \in Seq(S) /\ Len(SubSeq(s, 1, n + 1)) = n + 1
        /\ \A k \in 1 .. n + 1 : SubSeq(s, 1, n + 1)[k] = s[k]
    BY <1>1, <1>2, SubSeqProperties
  <1> DEFINE u == Append(SubSeq(s, 1, n), s[n + 1])
  <1>5. u \in Seq(S) /\ Len(u) = n + 1 /\ u[n + 1] = s[n + 1] /\ \A k \in 1 .. n : u[k] = s[k]
    BY <1>3, AppendProperties
  <1> HIDE DEF u
  <1>6. \A k \in 1 .. n + 1 : SubSeq(s, 1, n + 1)[k] = u[k]
    BY <1>4, <1>5
  <1>7. SubSeq(s, 1, n + 1) = u
    BY <1>4, <1>5, <1>6, SeqEqual
  <1> QED
    BY <1>3, <1>7 DEF u

\* One more element behind two sequences.
LEMMA AppendBehind ==
  ASSUME NEW S, NEW q \in Seq(S), NEW p \in Seq(S), NEW x \in S
  PROVE  q \o p \in Seq(S) /\ q \o Append(p, x) = Append(q \o p, x)
  <1>1. q \o p \in Seq(S) /\ <<x>> \in Seq(S)
    BY ConcatProperties
  <1>2. Append(p, x) = p \o <<x>> /\ Append(q \o p, x) = (q \o p) \o <<x>>
    BY <1>1, AppendIsConcat
  <1> QED
    BY <1>1, <1>2, ConcatAssociative

\* FlattenSeq puts the sequences behind each other, however they are grouped.
LEMMA FlattenConcat ==
  ASSUME NEW S, NEW q \in Seq(Seq(S)), NEW r \in Seq(Seq(S))
  PROVE  messages!FlattenSeq(q \o r) = messages!FlattenSeq(q) \o messages!FlattenSeq(r)
  <1>00. \A u, v, w \in Seq(S) : (u \o v) \o w = u \o (v \o w)
    BY ConcatAssociative
  <1> DEFINE F(x) == messages!FlattenSeq(x)
             T == {n \in Nat : n <= Len(r) => F(q \o SubSeq(r, 1, n)) = F(q) \o F(SubSeq(r, 1, n))}
  <1>0. /\ \A x \in Seq(Seq(S)) : F(x) \in Seq(S)
        /\ \A x \in Seq(Seq(S)), y \in Seq(S) : F(Append(x, y)) = F(x) \o y
        /\ F(<<>>) = <<>>
    <2>1. \A x \in Seq(Seq(S)) : F(x) \in Seq(S)
      <3>1. <<>> \in Seq(S)
        OBVIOUS
      <3> QED
        BY <3>1, FlattenMore
    <2>2. \A x \in Seq(Seq(S)), y \in Seq(S) : F(Append(x, y)) = F(x) \o y
      BY FlattenMore
    <2> QED
      BY <2>1, <2>2, FlattenNone
  <1> HIDE DEF F
  <1>1. 0 \in T
    <2>1. SubSeq(r, 1, 0) = <<>>
      BY SubSeqEmpty
    <2>2. q \o <<>> = q /\ F(q) \o <<>> = F(q)
      BY <1>0, ConcatEmptySeq
    <2> QED
      BY <1>0, <2>1, <2>2
  <1>2. ASSUME NEW n \in T PROVE n + 1 \in T
    <2> SUFFICES ASSUME n + 1 <= Len(r)
                 PROVE  F(q \o SubSeq(r, 1, n + 1)) = F(q) \o F(SubSeq(r, 1, n + 1))
      OBVIOUS
    <2> DEFINE p == SubSeq(r, 1, n)
               x == r[n + 1]
    <2>1. p \in Seq(Seq(S)) /\ x \in Seq(S) /\ SubSeq(r, 1, n + 1) = Append(p, x)
      BY OneMore
    <2>2. F(q \o p) = F(q) \o F(p)
      BY n <= Len(r)
    <2> HIDE DEF p, x
    <2>3. q \o p \in Seq(Seq(S)) /\ q \o Append(p, x) = Append(q \o p, x)
      <3> DEFINE P == Seq(S)
      <3>1. q \in Seq(P) /\ p \in Seq(P) /\ x \in P
        BY <2>1
      <3> HIDE DEF P
      <3>2. q \o p \in Seq(P) /\ q \o Append(p, x) = Append(q \o p, x)
        BY <3>1, AppendBehind
      <3> QED
        BY <3>2 DEF P
    <2>4. F(Append(q \o p, x)) = (F(q) \o F(p)) \o x /\ F(Append(p, x)) = F(p) \o x
      BY <1>0, <2>1, <2>2, <2>3
    <2>5. (F(q) \o F(p)) \o x = F(q) \o (F(p) \o x)
      <3>1. F(q) \in Seq(S) /\ F(p) \in Seq(S) /\ x \in Seq(S)
        BY <1>0, <2>1
      <3> QED
        BY <1>00, <3>1
    <2> QED
      BY <2>1, <2>3, <2>4, <2>5
  <1>3. Len(r) \in T
    <2>1. T \in SUBSET Nat
      OBVIOUS
    <2> HIDE DEF T
    <2>2. T = Nat
      BY <1>1, <1>2, <2>1, EveryNumber
    <2> QED
      BY <2>2
  <1>4. SubSeq(r, 1, Len(r)) = r
    BY SubSeqFull
  <1>5. F(q \o r) = F(q) \o F(r)
    <2>1. F(q \o SubSeq(r, 1, Len(r))) = F(q) \o F(SubSeq(r, 1, Len(r)))
      BY <1>3
    <2> QED
      BY <1>4, <2>1
  <1> QED
    BY <1>5 DEF F

\* A sequence is what is before one of its elements, that element, and what is behind it.
LEMMA SplitAt ==
  ASSUME NEW S, NEW s \in Seq(S), NEW at \in 1 .. Len(s)
  PROVE  /\ SubSeq(s, 1, at - 1) \in Seq(S) /\ <<s[at]>> \in Seq(S)
         /\ SubSeq(s, at + 1, Len(s)) \in Seq(S)
         /\ s = SubSeq(s, 1, at - 1) \o (<<s[at]>> \o SubSeq(s, at + 1, Len(s)))
  <1>0. PICK n \in Nat : n = Len(s)
    OBVIOUS
  <1>1. /\ SubSeq(s, 1, at - 1) \in Seq(S) /\ <<s[at]>> \in Seq(S) /\ SubSeq(s, at + 1, n) \in Seq(S)
        /\ SubSeq(s, at, n) \in Seq(S)
    BY <1>0, SubSeqProperties
  <1>2. SubSeq(s, at, n) = <<s[at]>> \o SubSeq(s, at + 1, n)
    <2>1. at \in 1 .. Len(s) /\ n \in at .. Len(s)
      BY <1>0
    <2> QED
      BY <2>1, SubSeqRecursiveFirst
  <1>3. SubSeq(s, 1, at - 1) \o SubSeq(s, at, n) = SubSeq(s, 1, n)
    <2>1. 1 \in 1 .. Len(s) + 1 /\ at - 1 \in 1 - 1 .. Len(s) /\ n \in at - 1 .. Len(s) /\ (at - 1) + 1 = at
      BY <1>0
    <2> QED
      BY <2>1, ConcatAdjacentSubSeq
  <1>4. SubSeq(s, 1, n) = s
    BY <1>0, SubSeqFull
  <1> QED
    BY <1>0, <1>1, <1>2, <1>3, <1>4

\* What one of the sequences contributes to FlattenSeq stands behind what those before it do.
LEMMA FlattenSplit ==
  ASSUME NEW S, NEW q \in Seq(Seq(S)), NEW n \in Nat, NEW at \in 1 .. n, n = Len(q)
  PROVE  LET before == messages!FlattenSeq(SubSeq(q, 1, at - 1))
             behind == messages!FlattenSeq(SubSeq(q, at + 1, n)) IN
         /\ before \in Seq(S) /\ q[at] \in Seq(S) /\ behind \in Seq(S)
         /\ messages!FlattenSeq(q) = before \o (q[at] \o behind)
  <1> DEFINE R == Seq(S)
  <1>4a. q \in Seq(R)
    OBVIOUS
  <1> HIDE DEF R
  <1>4b. /\ SubSeq(q, 1, at - 1) \in Seq(R) /\ <<q[at]>> \in Seq(R)
        /\ SubSeq(q, at + 1, n) \in Seq(R)
        /\ q = SubSeq(q, 1, at - 1) \o (<<q[at]>> \o SubSeq(q, at + 1, n))
    <2>1. at \in 1 .. Len(q)
      OBVIOUS
    <2> QED
      BY <1>4a, <2>1, SplitAt
  <1>4c. q[at] \in R
    BY <1>4a
  <1> DEFINE F(x) == messages!FlattenSeq(x)
             p == SubSeq(q, 1, at - 1)
             r == SubSeq(q, at + 1, n)
  <1>1. /\ p \in Seq(Seq(S)) /\ <<q[at]>> \in Seq(Seq(S)) /\ r \in Seq(Seq(S)) /\ q[at] \in Seq(S)
        /\ q = p \o (<<q[at]>> \o r)
    BY <1>4b, <1>4c DEF R
  <1>2. /\ \A x \in Seq(Seq(S)) : F(x) \in Seq(S)
        /\ \A x, y \in Seq(Seq(S)) : F(x \o y) = F(x) \o F(y) /\ x \o y \in Seq(Seq(S))
    <2>1. <<>> \in Seq(S)
      OBVIOUS
    <2>2. \A x \in Seq(Seq(S)) : F(x) \in Seq(S)
      BY <2>1, FlattenMore
    <2>3. \A x, y \in Seq(Seq(S)) : F(x \o y) = F(x) \o F(y)
      BY FlattenConcat
    <2>4. \A x, y \in Seq(Seq(S)) : x \o y \in Seq(Seq(S))
      BY ConcatProperties
    <2> QED
      BY <2>2, <2>3, <2>4
  <1>3. F(<<q[at]>>) = q[at]
    <2>1. /\ messages!FlattenSeq(Append(<<>>, q[at])) = messages!FlattenSeq(<<>>) \o q[at]
      <3>1. <<>> \in Seq(Seq(S))
        OBVIOUS
      <3> QED
        BY <1>1, <3>1, FlattenMore
    <2>2. Append(<<>>, q[at]) = <<q[at]>> /\ <<>> \o q[at] = q[at]
      BY <1>1, ConcatEmptySeq
    <2> QED
      BY <2>1, <2>2, FlattenNone
  <1> HIDE DEF F, p, r
  <1>4. F(<<q[at]>> \o r) = q[at] \o F(r) /\ <<q[at]>> \o r \in Seq(Seq(S))
    BY <1>1, <1>2, <1>3
  <1>5. F(q) = F(p) \o (q[at] \o F(r))
    <2>1. F(p \o (<<q[at]>> \o r)) = F(p) \o F(<<q[at]>> \o r)
      BY <1>1, <1>2, <1>4
    <2> QED
      BY <1>1, <1>4, <2>1
  <1>6. F(p) \in Seq(S) /\ F(r) \in Seq(S)
    BY <1>1, <1>2
  <1> QED
    BY <1>1, <1>5, <1>6 DEF F, p, r

\* Whatever is in the result of FlattenSeq comes from one of the sequences.
LEMMA FlattenHas ==
  ASSUME NEW S, NEW q \in Seq(Seq(S)), NEW k \in DOMAIN messages!FlattenSeq(q)
  PROVE  \E at \in DOMAIN q : \E m \in DOMAIN q[at] : messages!FlattenSeq(q)[k] = q[at][m]
  <1> DEFINE F(x) == messages!FlattenSeq(x)
             From(y, n) == \E at \in 1 .. n : \E m \in DOMAIN q[at] : y = q[at][m]
             T == {n \in Nat : n <= Len(q) =>
                     \A j \in DOMAIN F(SubSeq(q, 1, n)) : From(F(SubSeq(q, 1, n))[j], n)}
  <1>1. 0 \in T
    <2>1. SubSeq(q, 1, 0) = <<>>
      BY SubSeqEmpty
    <2>2. DOMAIN F(SubSeq(q, 1, 0)) = {}
      <3>1. F(SubSeq(q, 1, 0)) = <<>>
        BY <2>1, FlattenNone
      <3>2. DOMAIN <<>> = {}
        OBVIOUS
      <3> QED
        BY <3>1, <3>2
    <2> QED
      BY <2>2
  <1>2. ASSUME NEW n \in T PROVE n + 1 \in T
    <2> SUFFICES ASSUME n + 1 <= Len(q), NEW j \in DOMAIN F(SubSeq(q, 1, n + 1))
                 PROVE  From(F(SubSeq(q, 1, n + 1))[j], n + 1)
      BY SMTT(30)
    <2> DEFINE p == SubSeq(q, 1, n)
               x == q[n + 1]
    <2>1. p \in Seq(Seq(S)) /\ x \in Seq(S) /\ SubSeq(q, 1, n + 1) = Append(p, x)
      BY OneMore
    <2>2. F(p) \in Seq(S) /\ F(SubSeq(q, 1, n + 1)) = F(p) \o x
      BY <2>1, FlattenMore
    <2>3. \A h \in DOMAIN F(p) : From(F(p)[h], n)
      BY n <= Len(q)
    <2> HIDE DEF F, p
    <2>4. PICK l \in Nat : l = Len(F(p))
      BY <2>2
    <2>5. j \in 1 .. l + Len(x) /\ (F(p) \o x)[j] = IF j <= l THEN F(p)[j] ELSE x[j - l]
      BY <2>1, <2>2, <2>4, ConcatProperties
    <2>6. CASE j <= l
      <3>1. From(F(p)[j], n)
        <4>1. DOMAIN F(p) = 1 .. l /\ j \in 1 .. l
          BY <2>1, <2>2, <2>4, <2>5, <2>6
        <4> QED
          BY <2>3, <4>1
      <3>2. PICK at \in 1 .. n : \E m \in DOMAIN q[at] : F(p)[j] = q[at][m]
        BY <3>1
      <3> QED
        BY <2>2, <2>5, <2>6, <3>2, SMTT(30)
    <2>7. CASE j > l
      <3>1. n + 1 \in 1 .. n + 1 /\ j - l \in DOMAIN q[n + 1]
        BY <2>1, <2>5, <2>7
      <3> QED
        BY <2>2, <2>5, <2>7, <3>1, SMTT(30)
    <2> QED
      BY <2>4, <2>5, <2>6, <2>7
  <1>3. Len(q) \in T
    <2>1. T \in SUBSET Nat
      OBVIOUS
    <2> HIDE DEF T
    <2>2. T = Nat
      BY <1>1, <1>2, <2>1, EveryNumber
    <2> QED
      BY <2>2
  <1>4. SubSeq(q, 1, Len(q)) = q
    BY SubSeqFull
  <1>5. k \in DOMAIN F(SubSeq(q, 1, Len(q)))
    BY <1>4
  <1>6. From(F(SubSeq(q, 1, Len(q)))[k], Len(q))
    BY <1>3, <1>5
  <1>7. From(F(q)[k], Len(q))
    BY <1>4, <1>6
  <1>8. DOMAIN q = 1 .. Len(q)
    OBVIOUS
  <1> QED
    BY <1>7, <1>8

\* Edits with values of V.
Edits(V) == [action : {"EQ", "ADD", "DEL"}, val : V]

\* What each edit of s contributes to Without(x, s).
Cells(x, s) == [k \in DOMAIN s |-> IF s[k].action = x THEN <<>> ELSE <<s[k]>>]

\* Cells of two lists of edits.
LEMMA CellsConcat ==
  ASSUME NEW E, NEW x, NEW s \in Seq(E), NEW t \in Seq(E)
  PROVE  /\ Cells(x, s) \in Seq(Seq(E)) /\ Cells(x, t) \in Seq(Seq(E))
         /\ Cells(x, s \o t) = Cells(x, s) \o Cells(x, t)
  <1>1. ASSUME NEW u \in Seq(E)
        PROVE  /\ Cells(x, u) \in Seq(Seq(E)) /\ Len(Cells(x, u)) = Len(u)
               /\ \A k \in 1 .. Len(u) : Cells(x, u)[k] = IF u[k].action = x THEN <<>> ELSE <<u[k]>>
    <2>1. \A k \in 1 .. Len(u) : (IF u[k].action = x THEN <<>> ELSE <<u[k]>>) \in Seq(E)
      OBVIOUS
    <2>2. DOMAIN u = 1 .. Len(u) /\ Len(u) \in Nat
      OBVIOUS
    <2> QED
      BY <2>1, <2>2 DEF Cells
  <1>2. s \o t \in Seq(E) /\ Len(s \o t) = Len(s) + Len(t)
    BY ConcatProperties
  <1> DEFINE p == Cells(x, s)
             q == Cells(x, t)
             r == Cells(x, s \o t)
             R == Seq(E)
  <1>3. p \in Seq(R) /\ q \in Seq(R) /\ r \in Seq(R) /\ Len(p) = Len(s) /\ Len(q) = Len(t)
        /\ Len(r) = Len(s) + Len(t)
    BY <1>1, <1>2
  <1>4. PICK n \in Nat : n = Len(s)
    OBVIOUS
  <1>5. PICK m \in Nat : m = Len(t)
    OBVIOUS
  <1>6. /\ \A k \in 1 .. n : p[k] = IF s[k].action = x THEN <<>> ELSE <<s[k]>>
        /\ \A k \in 1 .. m : q[k] = IF t[k].action = x THEN <<>> ELSE <<t[k]>>
        /\ \A k \in 1 .. n + m : r[k] = IF (s \o t)[k].action = x THEN <<>> ELSE <<(s \o t)[k]>>
    BY <1>1, <1>2, <1>4, <1>5
  <1>7. \A k \in 1 .. n + m : (s \o t)[k] = IF k <= n THEN s[k] ELSE t[k - n]
    BY <1>4, <1>5, ConcatProperties
  <1> HIDE DEF p, q, r, R
  <1>8. /\ p \o q \in Seq(R) /\ Len(p \o q) = n + m
        /\ \A k \in 1 .. n + m : (p \o q)[k] = IF k <= n THEN p[k] ELSE q[k - n]
    BY <1>3, <1>4, <1>5, ConcatProperties
  <1>9. ASSUME NEW k \in 1 .. n + m PROVE r[k] = (p \o q)[k]
    <2>0. k \in Int /\ n \in Int
      OBVIOUS
    <2>1. CASE k <= n
      <3>1. k \in 1 .. n
        BY <2>1
      <3> QED
        BY <1>6, <1>7, <1>8, <3>1, <2>1
    <2>2. CASE ~(k <= n)
      <3>1. k - n \in 1 .. m /\ ~(k <= n)
        BY <2>2
      <3> QED
        BY <1>6, <1>7, <1>8, <3>1
    <2> QED
      BY <2>1, <2>2
  <1>10. r = p \o q
    BY <1>3, <1>4, <1>5, <1>8, <1>9, SeqEqual
  <1> QED
    BY <1>3, <1>10 DEF p, q, r, R

\* Without takes lists of edits to such lists.
LEMMA WithoutType ==
  ASSUME NEW E, NEW x, NEW s \in Seq(E)
  PROVE  messages!Without(x, s) \in Seq(E)
  <1>1. messages!Without(x, s) = messages!FlattenSeq(Cells(x, s))
    BY DEF messages!Without, Cells
  <1>2. Cells(x, s) \in Seq(Seq(E))
    BY CellsConcat
  <1>3. <<>> \in Seq(E)
    OBVIOUS
  <1> QED
    BY <1>1, <1>2, <1>3, FlattenMore

\* Kept, Result and Changes of two lists of edits.
LEMMA WithoutConcat ==
  ASSUME NEW E, NEW x, NEW s \in Seq(E), NEW t \in Seq(E)
  PROVE  messages!Without(x, s \o t) = messages!Without(x, s) \o messages!Without(x, t)
  <1>1. /\ messages!Without(x, s) = messages!FlattenSeq(Cells(x, s))
        /\ messages!Without(x, t) = messages!FlattenSeq(Cells(x, t))
        /\ messages!Without(x, s \o t) = messages!FlattenSeq(Cells(x, s \o t))
    BY DEF messages!Without, Cells
  <1>2. /\ Cells(x, s) \in Seq(Seq(E)) /\ Cells(x, t) \in Seq(Seq(E))
        /\ Cells(x, s \o t) = Cells(x, s) \o Cells(x, t)
    BY CellsConcat
  <1>3. messages!FlattenSeq(Cells(x, s) \o Cells(x, t))
           = messages!FlattenSeq(Cells(x, s)) \o messages!FlattenSeq(Cells(x, t))
    BY <1>2, FlattenConcat
  <1> QED
    BY <1>1, <1>2, <1>3

\* Without of no edit and of one.
LEMMA WithoutSmall ==
  ASSUME NEW E, NEW x, NEW e \in E
  PROVE  /\ messages!Without(x, <<>>) = <<>>
         /\ messages!Without(x, <<e>>) = IF e.action = x THEN <<>> ELSE <<e>>
  <1>1. \A u : messages!Without(x, u) = messages!FlattenSeq(Cells(x, u))
    BY DEF messages!Without, Cells
  <1>2. Cells(x, <<>>) = <<>>
    <2>1. DOMAIN <<>> = {} /\ Len(<<>>) = 0
      OBVIOUS
    <2>2. Cells(x, <<>>) \in Seq(Seq(E)) /\ <<>> \in Seq(E)
      <3>1. <<>> \in Seq(E)
        OBVIOUS
      <3> QED
        BY <3>1, CellsConcat
    <2>3. DOMAIN Cells(x, <<>>) = {}
      BY <2>1 DEF Cells
    <2>4. Len(Cells(x, <<>>)) = 0
      BY <2>2, <2>3
    <2> QED
      BY <2>2, <2>4
  <1> DEFINE c == IF e.action = x THEN <<>> ELSE <<e>>
  <1>3. Cells(x, <<e>>) = <<c>>
    <2>1. <<e>> \in Seq(E) /\ Len(<<e>>) = 1 /\ DOMAIN <<e>> = {1} /\ <<e>>[1] = e
      OBVIOUS
    <2>2. DOMAIN Cells(x, <<e>>) = {1} /\ Cells(x, <<e>>)[1] = c
      BY <2>1 DEF Cells
    <2>3. Cells(x, <<e>>) \in Seq(Seq(E))
      BY <2>1, CellsConcat
    <2> HIDE DEF c
    <2> QED
      BY <2>2, <2>3
  <1>4. c \in Seq(E)
    OBVIOUS
  <1> HIDE DEF c
  <1>5. messages!FlattenSeq(<<c>>) = c
    <2>1. <<>> \in Seq(Seq(E)) /\ Append(<<>>, c) = <<c>>
      BY <1>4
    <2>2. messages!FlattenSeq(Append(<<>>, c)) = messages!FlattenSeq(<<>>) \o c
      BY <1>4, <2>1, FlattenMore
    <2>3. <<>> \o c = c
      BY <1>4, ConcatEmptySeq
    <2> QED
      BY <2>1, <2>2, <2>3, FlattenNone
  <1> QED
    BY <1>1, <1>2, <1>3, <1>5, FlattenNone DEF c

\* The values of the edits of s that are not of action x: the side that has no such edits.
Side(x, s) == messages!ValuesOf(messages!Without(x, s))

\* The actions of the edits that a side may lack, as names that the provers leave closed.
Added == "ADD"
Deleted == "DEL"

\* The values of a list of edits.
LEMMA ValuesType ==
  ASSUME NEW V, NEW s \in Seq(Edits(V))
  PROVE  /\ messages!ValuesOf(s) \in Seq(V) /\ Len(messages!ValuesOf(s)) = Len(s)
         /\ \A k \in 1 .. Len(s) : messages!ValuesOf(s)[k] = s[k].val
  <1>1. \A k \in 1 .. Len(s) : s[k].val \in V
    <2>1. \A e \in Edits(V) : e.val \in V
      BY DEF Edits
    <2>2. \A k \in 1 .. Len(s) : s[k] \in Edits(V)
      OBVIOUS
    <2> QED
      BY <2>1, <2>2
  <1>2. DOMAIN s = 1 .. Len(s) /\ Len(s) \in Nat
    OBVIOUS
  <1> QED
    BY <1>1, <1>2 DEF messages!ValuesOf

\* The values of two lists of edits.
LEMMA ValuesConcat ==
  ASSUME NEW V, NEW s \in Seq(Edits(V)), NEW t \in Seq(Edits(V))
  PROVE  messages!ValuesOf(s \o t) = messages!ValuesOf(s) \o messages!ValuesOf(t)
  <1>2. s \o t \in Seq(Edits(V)) /\ Len(s \o t) = Len(s) + Len(t)
    BY ConcatProperties
  <1> DEFINE p == messages!ValuesOf(s)
             q == messages!ValuesOf(t)
             r == messages!ValuesOf(s \o t)
  <1>3. p \in Seq(V) /\ q \in Seq(V) /\ r \in Seq(V) /\ Len(p) = Len(s) /\ Len(q) = Len(t)
        /\ Len(r) = Len(s) + Len(t)
    BY <1>2, ValuesType
  <1>4. PICK n \in Nat : n = Len(s)
    OBVIOUS
  <1>5. PICK m \in Nat : m = Len(t)
    OBVIOUS
  <1>6. /\ \A k \in 1 .. n : p[k] = s[k].val
        /\ \A k \in 1 .. m : q[k] = t[k].val
        /\ \A k \in 1 .. n + m : r[k] = (s \o t)[k].val
    BY <1>2, <1>4, <1>5, ValuesType
  <1>7. \A k \in 1 .. n + m : (s \o t)[k] = IF k <= n THEN s[k] ELSE t[k - n]
    BY <1>4, <1>5, ConcatProperties
  <1> HIDE DEF p, q, r
  <1>8. /\ p \o q \in Seq(V) /\ Len(p \o q) = n + m
        /\ \A k \in 1 .. n + m : (p \o q)[k] = IF k <= n THEN p[k] ELSE q[k - n]
    <2>1. p \in Seq(V) /\ q \in Seq(V)
      BY <1>3
    <2>2. /\ p \o q \in Seq(V) /\ Len(p \o q) = Len(p) + Len(q)
          /\ \A k \in 1 .. Len(p) + Len(q) : (p \o q)[k] = IF k <= Len(p) THEN p[k] ELSE q[k - Len(p)]
      BY <2>1, ConcatProperties
    <2> QED
      BY <1>3, <1>4, <1>5, <2>2
  <1>9. ASSUME NEW k \in 1 .. n + m PROVE r[k] = (p \o q)[k]
    <2>1. CASE k <= n
      <3>1. k \in 1 .. n
        BY <2>1
      <3> QED
        BY <1>6, <1>7, <1>8, <3>1, <2>1
    <2>2. CASE ~(k <= n)
      <3>1. k - n \in 1 .. m /\ ~(k <= n)
        BY <2>2
      <3> QED
        BY <1>6, <1>7, <1>8, <3>1
    <2> QED
      BY <2>1, <2>2
  <1>10. r = p \o q
    BY <1>3, <1>4, <1>5, <1>8, <1>9, SeqEqual
  <1> QED
    BY <1>10 DEF p, q, r

\* A side of a list of edits.
LEMMA SideType ==
  ASSUME NEW V, NEW x, NEW s \in Seq(Edits(V))
  PROVE  Side(x, s) \in Seq(V)
  <1>1. messages!Without(x, s) \in Seq(Edits(V))
    BY WithoutType
  <1> QED
    BY <1>1, ValuesType DEF Side

\* A side of two lists of edits.
LEMMA SideConcat ==
  ASSUME NEW V, NEW x, NEW s \in Seq(Edits(V)), NEW t \in Seq(Edits(V))
  PROVE  Side(x, s \o t) = Side(x, s) \o Side(x, t)
  <1>1. messages!Without(x, s) \in Seq(Edits(V)) /\ messages!Without(x, t) \in Seq(Edits(V))
    BY WithoutType
  <1>2. messages!Without(x, s \o t) = messages!Without(x, s) \o messages!Without(x, t)
    BY WithoutConcat
  <1> QED
    BY <1>1, <1>2, ValuesConcat DEF Side

\* A side of a list with one more edit.
LEMMA SideAppend ==
  ASSUME NEW V, NEW x, NEW s \in Seq(Edits(V)), NEW e \in Edits(V)
  PROVE  /\ Side(x, <<>>) = <<>>
         /\ Side(x, Append(s, e)) = IF e.action = x THEN Side(x, s) ELSE Append(Side(x, s), e.val)
  <1>1. messages!Without(x, <<>>) = <<>>
        /\ messages!Without(x, <<e>>) = IF e.action = x THEN <<>> ELSE <<e>>
    BY WithoutSmall
  <1>2. messages!ValuesOf(<<>>) = <<>> /\ messages!ValuesOf(<<e>>) = <<e.val>>
    <2> DEFINE none == <<>>
               one == <<e>>
    <2>1. none \in Seq(Edits(V)) /\ one \in Seq(Edits(V)) /\ Len(none) = 0 /\ Len(one) = 1 /\ one[1] = e
      OBVIOUS
    <2> HIDE DEF none, one
    <2>2. messages!ValuesOf(none) \in Seq(V) /\ Len(messages!ValuesOf(none)) = 0
      BY <2>1, ValuesType
    <2>3. messages!ValuesOf(one) \in Seq(V) /\ Len(messages!ValuesOf(one)) = 1 /\ messages!ValuesOf(one)[1] = e.val
      BY <2>1, ValuesType
    <2> USE DEF none, one
    <2> QED
      BY <2>2, <2>3
  <1>3. <<e>> \in Seq(Edits(V)) /\ Append(s, e) = s \o <<e>>
    BY AppendIsConcat
  <1>4. Side(x, s) \in Seq(V)
    BY SideType
  <1>5. Side(x, s \o <<e>>) = Side(x, s) \o Side(x, <<e>>)
    BY <1>3, SideConcat, ZenonT(60)
  <1>6. Side(x, <<e>>) = IF e.action = x THEN <<>> ELSE <<e.val>>
    BY <1>1, <1>2 DEF Side
  <1>7. e.val \in V
    BY DEF Edits
  <1>8. Side(x, s) \o <<>> = Side(x, s) /\ Side(x, s) \o <<e.val>> = Append(Side(x, s), e.val)
    BY <1>4, <1>7, ConcatEmptySeq, AppendIsConcat
  <1>9. Side(x, <<>>) = <<>>
    BY <1>1, <1>2 DEF Side
  <1> QED
    BY <1>3, <1>5, <1>6, <1>8, <1>9

\* A side of no edits.
LEMMA SideEmpty ==
  ASSUME NEW x
  PROVE  Side(x, <<>>) = <<>>
  <1> DEFINE e == [action |-> "EQ", val |-> 0]
  <1>1. <<>> \in Seq(Edits({0})) /\ e \in Edits({0})
    BY DEF Edits
  <1> HIDE DEF e
  <1> QED
    BY <1>1, SideAppend

\* The lists of edits up to p, made from those that f has before p.
Grown(f, u, w, p) ==
  (IF p = <<0, 0>> THEN {<<>>} ELSE {})
  \cup (IF p[1] > 0
          THEN {Append(s, [action |-> "DEL", val |-> u[p[1]]]) : s \in f[<<p[1] - 1, p[2]>>]}
          ELSE {})
  \cup (IF p[2] > 0
          THEN {Append(s, [action |-> "ADD", val |-> w[p[2]]]) : s \in f[<<p[1], p[2] - 1>>]}
          ELSE {})
  \cup (IF p[1] > 0 /\ p[2] > 0 /\ u[p[1]] = w[p[2]]
          THEN {Append(s, [action |-> "EQ", val |-> u[p[1]]]) : s \in f[<<p[1] - 1, p[2] - 1>>]}
          ELSE {})

Grows(f, u, w) == f = [p \in messages!Corners(u, w) |-> Grown(f, u, w, p)]

LEMMA ScriptsAre ==
  ASSUME NEW u, NEW w
  PROVE  messages!Scripts(u, w) = (CHOOSE f : Grows(f, u, w))[<<Len(u), Len(w)>>]
  BY Zenon DEF messages!Scripts, Grows, Grown

\* Corners stand before corners.
LEMMA CornersBefore ==
  ASSUME NEW V, NEW u \in Seq(V), NEW w \in Seq(V), NEW p \in messages!Corners(u, w)
  PROVE  /\ p = <<p[1], p[2]>> /\ p[1] \in Nat /\ p[2] \in Nat /\ p[1] <= Len(u) /\ p[2] <= Len(w)
         /\ p[1] > 0 => <<p[1] - 1, p[2]>> \in messages!Corners(u, w)
         /\ p[2] > 0 => <<p[1], p[2] - 1>> \in messages!Corners(u, w)
         /\ p[1] > 0 /\ p[2] > 0 => <<p[1] - 1, p[2] - 1>> \in messages!Corners(u, w)
  <1>1. PICK n \in Nat : n = Len(u)
    OBVIOUS
  <1>2. PICK m \in Nat : m = Len(w)
    OBVIOUS
  <1>3. p \in (0 .. n) \X (0 .. m) /\ messages!Corners(u, w) = (0 .. n) \X (0 .. m)
    BY <1>1, <1>2 DEF messages!Corners
  <1>4. p = <<p[1], p[2]>> /\ p[1] \in 0 .. n /\ p[2] \in 0 .. m
    BY <1>3
  <1> QED
    BY <1>1, <1>2, <1>3, <1>4

\* The lists of edits that Scripts speaks of exist.
LEMMA GrowsExists ==
  ASSUME NEW V, NEW u \in Seq(V), NEW w \in Seq(V)
  PROVE  \E f : Grows(f, u, w)
  <1> DEFINE D == messages!Corners(u, w)
  <1>0. \A p \in D : p[1] \in Nat /\ p[2] \in Nat /\ p[1] <= Len(u) /\ p[2] <= Len(w)
    <2> TAKE p \in D
    <2> QED
      BY CornersBefore
  <1>9. \A p \in D :
          /\ p[1] > 0 => <<p[1] - 1, p[2]>> \in D
          /\ p[2] > 0 => <<p[1], p[2] - 1>> \in D
          /\ p[1] > 0 /\ p[2] > 0 => <<p[1] - 1, p[2] - 1>> \in D
    <2> TAKE p \in D
    <2> QED
      BY CornersBefore
  <1> HIDE DEF D
  <1> DEFINE Upto(f, n) == /\ f = [p \in D |-> f[p]]
                          /\ \A p \in D : p[1] + p[2] < n => f[p] = Grown(f, u, w, p)
             T == {n \in Nat : \E f : Upto(f, n)}
  <1>1. 0 \in T
    <2> DEFINE f == [p \in D |-> {}]
    <2>1. f = [p \in D |-> f[p]]
      OBVIOUS
    <2>2. \A p \in D : ~(p[1] + p[2] < 0)
      BY <1>0
    <2> HIDE DEF f
    <2>3. Upto(f, 0)
      BY <2>1, <2>2
    <2> QED
      BY <2>3
  <1>2. ASSUME NEW n \in T PROVE n + 1 \in T
    <2>1. PICK f : Upto(f, n)
      OBVIOUS
    <2> DEFINE g == [p \in D |-> IF p[1] + p[2] < n THEN f[p] ELSE Grown(f, u, w, p)]
    <2>2. g = [p \in D |-> g[p]]
      OBVIOUS
    <2>3. \A p \in D : g[p] = IF p[1] + p[2] < n THEN f[p] ELSE Grown(f, u, w, p)
      OBVIOUS
    <2>4. \A p \in D : p[1] + p[2] < n => f[p] = Grown(f, u, w, p)
      BY <2>1
    <2> HIDE DEF g
    <2>5. ASSUME NEW p \in D, p[1] + p[2] < n + 1 PROVE g[p] = Grown(g, u, w, p)
      <3>1. p[1] \in Nat /\ p[2] \in Nat /\ n \in Nat /\ p[1] + p[2] < n + 1
        BY <1>0, <2>5
      <3>2. \A q \in D : q[1] + q[2] < n => g[q] = f[q]
        BY <2>3
      <3>3. ASSUME p[1] > 0 PROVE g[<<p[1] - 1, p[2]>>] = f[<<p[1] - 1, p[2]>>]
        <4> DEFINE q == <<p[1] - 1, p[2]>>
        <4>1. q \in D
          BY <1>9, <3>3
        <4>2. q[1] + q[2] < n
          BY <3>1, <3>3
        <4> HIDE DEF q
        <4>3. g[q] = f[q]
          BY <3>2, <4>1, <4>2
        <4> QED
          BY <4>3 DEF q
      <3>4. ASSUME p[2] > 0 PROVE g[<<p[1], p[2] - 1>>] = f[<<p[1], p[2] - 1>>]
        <4> DEFINE q == <<p[1], p[2] - 1>>
        <4>1. q \in D
          BY <1>9, <3>4
        <4>2. q[1] + q[2] < n
          BY <3>1, <3>4
        <4> HIDE DEF q
        <4>3. g[q] = f[q]
          BY <3>2, <4>1, <4>2
        <4> QED
          BY <4>3 DEF q
      <3>5. ASSUME p[1] > 0, p[2] > 0 PROVE g[<<p[1] - 1, p[2] - 1>>] = f[<<p[1] - 1, p[2] - 1>>]
        <4> DEFINE q == <<p[1] - 1, p[2] - 1>>
        <4>1. q \in D
          BY <1>9, <3>5
        <4>2. q[1] + q[2] < n
          BY <3>1, <3>5
        <4> HIDE DEF q
        <4>3. g[q] = f[q]
          BY <3>2, <4>1, <4>2
        <4> QED
          BY <4>3 DEF q
      <3>6. Grown(g, u, w, p) = Grown(f, u, w, p)
        BY <3>3, <3>4, <3>5 DEF Grown
      <3> QED
        BY <2>3, <2>4, <3>6
    <2>6. Upto(g, n + 1)
      BY <2>2, <2>5
    <2> QED
      BY <2>6
  <1> HIDE DEF T
  <1>3. T = Nat
    <2>1. T \in SUBSET Nat
      BY DEF T
    <2> QED
      BY <1>1, <1>2, <2>1, EveryNumber
  <1>4. PICK n \in Nat : n = Len(u) + Len(w) + 1
    OBVIOUS
  <1>5. PICK f : Upto(f, n)
    BY <1>3 DEF T
  <1>6. \A p \in D : p[1] + p[2] < n
    <2> TAKE p \in D
    <2>1. p[1] \in Nat /\ p[2] \in Nat /\ p[1] <= Len(u) /\ p[2] <= Len(w) /\ Len(u) \in Nat /\ Len(w) \in Nat
      BY <1>0
    <2> QED
      BY <1>4, <2>1
  <1>7. \A p \in D : f[p] = Grown(f, u, w, p)
    BY <1>5, <1>6
  <1>8. f = [p \in D |-> Grown(f, u, w, p)]
    BY <1>5, <1>7
  <1> QED
    BY <1>8 DEF Grows, D

\* s is a list of edits that turns the first x of u into the first y of w.
Turns(s, V, u, x, w, y) ==
  /\ s \in Seq(Edits(V))
  /\ Side("ADD", s) = SubSeq(u, 1, x)
  /\ Side("DEL", s) = SubSeq(w, 1, y)

\* A deletion, an addition or a common value leads from corner to corner.
LEMMA TurnsNext ==
  ASSUME NEW V, NEW u \in Seq(V), NEW w \in Seq(V), NEW r,
         NEW x \in Nat, NEW y \in Nat, x <= Len(u), y <= Len(w), Turns(r, V, u, x, w, y)
  PROVE  /\ x + 1 <= Len(u) =>
              Turns(Append(r, [action |-> "DEL", val |-> u[x + 1]]), V, u, x + 1, w, y)
         /\ y + 1 <= Len(w) =>
              Turns(Append(r, [action |-> "ADD", val |-> w[y + 1]]), V, u, x, w, y + 1)
         /\ x + 1 <= Len(u) /\ y + 1 <= Len(w) /\ u[x + 1] = w[y + 1] =>
              Turns(Append(r, [action |-> "EQ", val |-> u[x + 1]]), V, u, x + 1, w, y + 1)
  <1>1. ASSUME NEW v \in V, NEW act \in {"EQ", "ADD", "DEL"}
        PROVE  LET e == [action |-> act, val |-> v] IN
               /\ Append(r, e) \in Seq(Edits(V))
               /\ Side("ADD", Append(r, e)) = IF act = "ADD" THEN Side("ADD", r) ELSE Append(Side("ADD", r), v)
               /\ Side("DEL", Append(r, e)) = IF act = "DEL" THEN Side("DEL", r) ELSE Append(Side("DEL", r), v)
    <2> DEFINE e == [action |-> act, val |-> v]
    <2>1. e \in Edits(V) /\ e.action = act /\ e.val = v
      BY DEF Edits
    <2> HIDE DEF e
    <2>2. r \in Seq(Edits(V))
      BY DEF Turns
    <2>3. Append(r, e) \in Seq(Edits(V))
      BY <2>1, <2>2, AppendProperties
    <2>4. Side("ADD", Append(r, e)) = IF act = "ADD" THEN Side("ADD", r) ELSE Append(Side("ADD", r), v)
      BY <2>1, <2>2, SideAppend
    <2>5. Side("DEL", Append(r, e)) = IF act = "DEL" THEN Side("DEL", r) ELSE Append(Side("DEL", r), v)
      BY <2>1, <2>2, SideAppend
    <2> QED
      BY <2>3, <2>4, <2>5 DEF e
  <1>2. x + 1 <= Len(u) => u[x + 1] \in V /\ SubSeq(u, 1, x + 1) = Append(SubSeq(u, 1, x), u[x + 1])
    BY OneMore
  <1>3. y + 1 <= Len(w) => w[y + 1] \in V /\ SubSeq(w, 1, y + 1) = Append(SubSeq(w, 1, y), w[y + 1])
    BY OneMore
  <1>4. Side("ADD", r) = SubSeq(u, 1, x) /\ Side("DEL", r) = SubSeq(w, 1, y)
    BY DEF Turns
  <1>5. ASSUME x + 1 <= Len(u)
        PROVE  Turns(Append(r, [action |-> "DEL", val |-> u[x + 1]]), V, u, x + 1, w, y)
    <2>1. u[x + 1] \in V /\ "DEL" \in {"EQ", "ADD", "DEL"}
      BY <1>2, <1>5
    <2> QED
      BY <1>1, <1>2, <1>4, <1>5, <2>1 DEF Turns
  <1>6. ASSUME y + 1 <= Len(w)
        PROVE  Turns(Append(r, [action |-> "ADD", val |-> w[y + 1]]), V, u, x, w, y + 1)
    <2>1. w[y + 1] \in V /\ "ADD" \in {"EQ", "ADD", "DEL"}
      BY <1>3, <1>6
    <2> QED
      BY <1>1, <1>3, <1>4, <1>6, <2>1 DEF Turns
  <1>7. ASSUME x + 1 <= Len(u), y + 1 <= Len(w), u[x + 1] = w[y + 1]
        PROVE  Turns(Append(r, [action |-> "EQ", val |-> u[x + 1]]), V, u, x + 1, w, y + 1)
    <2>1. u[x + 1] \in V /\ "EQ" \in {"EQ", "ADD", "DEL"}
      BY <1>2, <1>7
    <2> QED
      BY <1>1, <1>2, <1>3, <1>4, <1>7, <2>1 DEF Turns
  <1> QED
    BY <1>5, <1>6, <1>7

\* Every list of edits that Scripts has of two arrays turns one into the other.
LEMMA ScriptsTurn ==
  ASSUME NEW V, NEW u \in Seq(V), NEW w \in Seq(V), NEW s \in messages!Scripts(u, w)
  PROVE  s \in Seq(Edits(V)) /\ Side(Added, s) = u /\ Side(Deleted, s) = w
  <1> DEFINE f == CHOOSE g : Grows(g, u, w)
             D == messages!Corners(u, w)
  <1>0. \A p \in D : p[1] \in Nat /\ p[2] \in Nat /\ p[1] <= Len(u) /\ p[2] <= Len(w)
    <2> TAKE p \in D
    <2> QED
      BY CornersBefore
  <1>1. \A p \in D :
          /\ p[1] > 0 => <<p[1] - 1, p[2]>> \in D
          /\ p[2] > 0 => <<p[1], p[2] - 1>> \in D
          /\ p[1] > 0 /\ p[2] > 0 => <<p[1] - 1, p[2] - 1>> \in D
    <2> TAKE p \in D
    <2> QED
      BY CornersBefore
  <1>2. s \in f[<<Len(u), Len(w)>>] /\ <<Len(u), Len(w)>> \in D
    <2>1. <<Len(u), Len(w)>> \in D
      BY DEF messages!Corners
    <2> QED
      BY <2>1, ScriptsAre
  <1>3. \A p \in D : f[p] = Grown(f, u, w, p)
    <2> HIDE DEF f
    <2>1. Grows(f, u, w)
      BY GrowsExists DEF f
    <2> QED
      BY <2>1 DEF Grows
  <1> HIDE DEF f, D
  <1> DEFINE T == {n \in Nat : \A p \in D : p[1] + p[2] < n =>
                     \A r \in f[p] : Turns(r, V, u, p[1], w, p[2])}
  <1>4. 0 \in T
    BY <1>0
  <1>5. ASSUME NEW n \in T PROVE n + 1 \in T
    <2> SUFFICES ASSUME NEW p \in D, p[1] + p[2] < n + 1, NEW r \in f[p]
                 PROVE  Turns(r, V, u, p[1], w, p[2])
      OBVIOUS
    <2>1. p[1] \in Nat /\ p[2] \in Nat /\ n \in Nat /\ p[1] <= Len(u) /\ p[2] <= Len(w)
          /\ Len(u) \in Nat /\ Len(w) \in Nat
      BY <1>0
    <2>2. r \in Grown(f, u, w, p)
      BY <1>3
    <2>3. \A q \in D : q[1] + q[2] < n => \A t \in f[q] : Turns(t, V, u, q[1], w, q[2])
      OBVIOUS
    <2> HIDE DEF T
    <2>4. CASE p = <<0, 0>> /\ r = <<>>
      <3>1. Side("ADD", <<>>) = <<>> /\ Side("DEL", <<>>) = <<>>
        BY SideEmpty
      <3>2. SubSeq(u, 1, 0) = <<>> /\ SubSeq(w, 1, 0) = <<>>
        BY SubSeqEmpty
      <3>3. p[1] = 0 /\ p[2] = 0 /\ <<>> \in Seq(Edits(V))
        BY <2>4
      <3> QED
        BY <2>4, <3>1, <3>2, <3>3 DEF Turns
    <2>5. ASSUME p[1] > 0, NEW t \in f[<<p[1] - 1, p[2]>>],
                 r = Append(t, [action |-> "DEL", val |-> u[p[1]]])
          PROVE  Turns(r, V, u, p[1], w, p[2])
      <3> DEFINE q == <<p[1] - 1, p[2]>>
      <3>1. q \in D
        BY <1>1, <2>5
      <3>2. q[1] = p[1] - 1 /\ q[2] = p[2] /\ q[1] + q[2] < n
        BY <2>1, <2>5
      <3>3. Turns(t, V, u, p[1] - 1, w, p[2])
        BY <2>3, <2>5, <3>1, <3>2
      <3> HIDE DEF q
      <3>4. PICK x \in Nat : x + 1 = p[1] /\ p[1] - 1 = x /\ x <= Len(u) /\ x + 1 <= Len(u)
        BY <2>1, <2>5
      <3> QED
        BY <2>1, <2>5, <3>3, <3>4, TurnsNext
    <2>6. ASSUME p[2] > 0, NEW t \in f[<<p[1], p[2] - 1>>],
                 r = Append(t, [action |-> "ADD", val |-> w[p[2]]])
          PROVE  Turns(r, V, u, p[1], w, p[2])
      <3> DEFINE q == <<p[1], p[2] - 1>>
      <3>1. q \in D
        BY <1>1, <2>6
      <3>2. q[1] = p[1] /\ q[2] = p[2] - 1 /\ q[1] + q[2] < n
        BY <2>1, <2>6
      <3>3. Turns(t, V, u, p[1], w, p[2] - 1)
        BY <2>3, <2>6, <3>1, <3>2
      <3> HIDE DEF q
      <3>4. PICK y \in Nat : y + 1 = p[2] /\ p[2] - 1 = y /\ y <= Len(w) /\ y + 1 <= Len(w)
        BY <2>1, <2>6
      <3> QED
        BY <2>1, <2>6, <3>3, <3>4, TurnsNext
    <2>7. ASSUME p[1] > 0, p[2] > 0, u[p[1]] = w[p[2]], NEW t \in f[<<p[1] - 1, p[2] - 1>>],
                 r = Append(t, [action |-> "EQ", val |-> u[p[1]]])
          PROVE  Turns(r, V, u, p[1], w, p[2])
      <3> DEFINE q == <<p[1] - 1, p[2] - 1>>
      <3>1. q \in D
        BY <1>1, <2>7
      <3>2. q[1] = p[1] - 1 /\ q[2] = p[2] - 1 /\ q[1] + q[2] < n
        BY <2>1, <2>7, SMTT(30)
      <3>3. Turns(t, V, u, p[1] - 1, w, p[2] - 1)
        BY <2>3, <2>7, <3>1, <3>2
      <3> HIDE DEF q
      <3>4. PICK x \in Nat : x + 1 = p[1] /\ p[1] - 1 = x /\ x <= Len(u) /\ x + 1 <= Len(u)
        BY <2>1, <2>7
      <3>5. PICK y \in Nat : y + 1 = p[2] /\ p[2] - 1 = y /\ y <= Len(w) /\ y + 1 <= Len(w)
        BY <2>1, <2>7
      <3> QED
        BY <2>1, <2>7, <3>3, <3>4, <3>5, TurnsNext
    <2> QED
      BY <2>2, <2>4, <2>5, <2>6, <2>7 DEF Grown
  <1>6. PICK n \in Nat : n = Len(u) + Len(w) + 1
    OBVIOUS
  <1>7. n \in T
    <2>1. T \in SUBSET Nat
      OBVIOUS
    <2> HIDE DEF T
    <2>2. T = Nat
      BY <1>4, <1>5, <2>1, EveryNumber
    <2> QED
      BY <2>2
  <1>8. Turns(s, V, u, Len(u), w, Len(w))
    <2> DEFINE p == <<Len(u), Len(w)>>
    <2>1. p \in D /\ p[1] = Len(u) /\ p[2] = Len(w) /\ p[1] + p[2] < n
      BY <1>2, <1>6
    <2> QED
      BY <1>2, <1>7, <2>1
  <1>9. SubSeq(u, 1, Len(u)) = u /\ SubSeq(w, 1, Len(w)) = w
    BY SubSeqFull
  <1> QED
    BY <1>8, <1>9 DEF Turns, Added, Deleted

\* The length of a common subsequence up to p, from what f has before p.
Common(f, u, w, p) ==
  IF p[1] = 0 \/ p[2] = 0 THEN 0
  ELSE IF u[p[1]] = w[p[2]] THEN f[<<p[1] - 1, p[2] - 1>>] + 1
  ELSE messages!Max({f[<<p[1] - 1, p[2]>>], f[<<p[1], p[2] - 1>>]})

Measures(f, u, w) == f = [p \in messages!Corners(u, w) |-> Common(f, u, w, p)]

LEMMA LcsLengthIs ==
  ASSUME NEW u, NEW w
  PROVE  messages!LcsLength(u, w) = (CHOOSE f : Measures(f, u, w))[<<Len(u), Len(w)>>]
  BY Zenon DEF messages!LcsLength, Measures, Common

\* The lengths that LcsLength speaks of exist.
LEMMA MeasuresExist ==
  ASSUME NEW V, NEW u \in Seq(V), NEW w \in Seq(V)
  PROVE  \E f : Measures(f, u, w)
  <1> DEFINE D == messages!Corners(u, w)
  <1>0. \A p \in D : p[1] \in Nat /\ p[2] \in Nat /\ p[1] <= Len(u) /\ p[2] <= Len(w)
    <2> TAKE p \in D
    <2> QED
      BY CornersBefore
  <1>9. \A p \in D :
          /\ p[1] > 0 => <<p[1] - 1, p[2]>> \in D
          /\ p[2] > 0 => <<p[1], p[2] - 1>> \in D
          /\ p[1] > 0 /\ p[2] > 0 => <<p[1] - 1, p[2] - 1>> \in D
    <2> TAKE p \in D
    <2> QED
      BY CornersBefore
  <1> HIDE DEF D
  <1> DEFINE Upto(f, n) == /\ f = [p \in D |-> f[p]]
                          /\ \A p \in D : p[1] + p[2] < n => f[p] = Common(f, u, w, p)
             T == {n \in Nat : \E f : Upto(f, n)}
  <1>1. 0 \in T
    <2> DEFINE f == [p \in D |-> 0]
    <2>1. f = [p \in D |-> f[p]]
      OBVIOUS
    <2>2. \A p \in D : ~(p[1] + p[2] < 0)
      BY <1>0
    <2> HIDE DEF f
    <2>3. Upto(f, 0)
      BY <2>1, <2>2
    <2> QED
      BY <2>3
  <1>2. ASSUME NEW n \in T PROVE n + 1 \in T
    <2>1. PICK f : Upto(f, n)
      OBVIOUS
    <2> DEFINE g == [p \in D |-> IF p[1] + p[2] < n THEN f[p] ELSE Common(f, u, w, p)]
    <2>2. g = [p \in D |-> g[p]]
      OBVIOUS
    <2>3. \A p \in D : g[p] = IF p[1] + p[2] < n THEN f[p] ELSE Common(f, u, w, p)
      OBVIOUS
    <2>4. \A p \in D : p[1] + p[2] < n => f[p] = Common(f, u, w, p)
      BY <2>1
    <2> HIDE DEF g
    <2>5. ASSUME NEW p \in D, p[1] + p[2] < n + 1 PROVE g[p] = Common(g, u, w, p)
      <3>1. p[1] \in Nat /\ p[2] \in Nat /\ n \in Nat /\ p[1] + p[2] < n + 1
        BY <1>0, <2>5
      <3>2. \A q \in D : q[1] + q[2] < n => g[q] = f[q]
        BY <2>3
      <3>3. ASSUME p[1] > 0 PROVE g[<<p[1] - 1, p[2]>>] = f[<<p[1] - 1, p[2]>>]
        <4> DEFINE q == <<p[1] - 1, p[2]>>
        <4>1. q \in D
          BY <1>9, <3>3
        <4>2. q[1] + q[2] < n
          BY <3>1, <3>3
        <4> HIDE DEF q
        <4>3. g[q] = f[q]
          BY <3>2, <4>1, <4>2
        <4> QED
          BY <4>3 DEF q
      <3>4. ASSUME p[2] > 0 PROVE g[<<p[1], p[2] - 1>>] = f[<<p[1], p[2] - 1>>]
        <4> DEFINE q == <<p[1], p[2] - 1>>
        <4>1. q \in D
          BY <1>9, <3>4
        <4>2. q[1] + q[2] < n
          BY <3>1, <3>4
        <4> HIDE DEF q
        <4>3. g[q] = f[q]
          BY <3>2, <4>1, <4>2
        <4> QED
          BY <4>3 DEF q
      <3>5. ASSUME p[1] > 0, p[2] > 0 PROVE g[<<p[1] - 1, p[2] - 1>>] = f[<<p[1] - 1, p[2] - 1>>]
        <4> DEFINE q == <<p[1] - 1, p[2] - 1>>
        <4>1. q \in D
          BY <1>9, <3>5
        <4>2. q[1] + q[2] < n
          BY <3>1, <3>5
        <4> HIDE DEF q
        <4>3. g[q] = f[q]
          BY <3>2, <4>1, <4>2
        <4> QED
          BY <4>3 DEF q
      <3>6. Common(g, u, w, p) = Common(f, u, w, p)
        <4>1. CASE p[1] = 0 \/ p[2] = 0
          BY <4>1 DEF Common
        <4>2. CASE ~(p[1] = 0 \/ p[2] = 0)
          <5>1. p[1] > 0 /\ p[2] > 0
            BY <3>1, <4>2
          <5>2. /\ g[<<p[1] - 1, p[2]>>] = f[<<p[1] - 1, p[2]>>]
                /\ g[<<p[1], p[2] - 1>>] = f[<<p[1], p[2] - 1>>]
                /\ g[<<p[1] - 1, p[2] - 1>>] = f[<<p[1] - 1, p[2] - 1>>]
            BY <3>3, <3>4, <3>5, <5>1
          <5> QED
            BY <5>2 DEF Common
        <4> QED
          BY <4>1, <4>2
      <3> QED
        BY <2>3, <2>4, <3>6
    <2>6. Upto(g, n + 1)
      BY <2>2, <2>5
    <2> QED
      BY <2>6
  <1> HIDE DEF T
  <1>3. T = Nat
    <2>1. T \in SUBSET Nat
      BY DEF T
    <2> QED
      BY <1>1, <1>2, <2>1, EveryNumber
  <1>4. PICK n \in Nat : n = Len(u) + Len(w) + 1
    OBVIOUS
  <1>5. PICK f : Upto(f, n)
    BY <1>3 DEF T
  <1>6. \A p \in D : p[1] + p[2] < n
    <2> TAKE p \in D
    <2>1. p[1] \in Nat /\ p[2] \in Nat /\ p[1] <= Len(u) /\ p[2] <= Len(w) /\ Len(u) \in Nat /\ Len(w) \in Nat
      BY <1>0
    <2> QED
      BY <1>4, <2>1
  <1>7. \A p \in D : f[p] = Common(f, u, w, p)
    BY <1>5, <1>6
  <1>8. f = [p \in D |-> Common(f, u, w, p)]
    BY <1>5, <1>7
  <1> QED
    BY <1>8 DEF Measures, D

\* An array has all of itself in common with itself.
LEMMA LcsOfSame ==
  ASSUME NEW V, NEW u \in Seq(V)
  PROVE  messages!EditDistance(u, u) = 0
  <1> DEFINE f == CHOOSE g : Measures(g, u, u)
  <1>1. Measures(f, u, u)
    BY MeasuresExist
  <1>2. messages!LcsLength(u, u) = f[<<Len(u), Len(u)>>]
    BY LcsLengthIs
  <1> HIDE DEF f
  <1>3. PICK m \in Nat : m = Len(u)
    OBVIOUS
  <1>4. \A k \in 0 .. m : <<k, k>> \in messages!Corners(u, u) /\ <<k, k>>[1] = k /\ <<k, k>>[2] = k
    BY <1>3 DEF messages!Corners
  <1>5. \A k \in 0 .. m : f[<<k, k>>] = IF k = 0 THEN 0 ELSE f[<<k - 1, k - 1>>] + 1
    <2> TAKE k \in 0 .. m
    <2> DEFINE p == <<k, k>>
    <2>1. p \in messages!Corners(u, u) /\ p[1] = k /\ p[2] = k
      BY <1>4
    <2> HIDE DEF p
    <2>2. f[p] = Common(f, u, u, p)
      BY <1>1, <2>1 DEF Measures
    <2>3. f[p] = IF k = 0 THEN 0 ELSE f[<<k - 1, k - 1>>] + 1
      BY <2>1, <2>2 DEF Common
    <2> QED
      BY <2>3 DEF p
  <1> DEFINE T == {k \in Nat : k <= m => f[<<k, k>>] = k}
  <1>6. 0 \in T
    <2>1. 0 \in 0 .. m
      OBVIOUS
    <2> QED
      BY <1>5, <2>1
  <1>7. ASSUME NEW k \in T PROVE k + 1 \in T
    <2> SUFFICES ASSUME k + 1 <= m PROVE f[<<k + 1, k + 1>>] = k + 1
      OBVIOUS
    <2>1. k \in Nat /\ k + 1 \in 0 .. m /\ k + 1 # 0 /\ (k + 1) - 1 = k /\ f[<<k, k>>] = k
      OBVIOUS
    <2> QED
      BY <1>5, <2>1
  <1>8. f[<<m, m>>] = m
    <2>1. T \in SUBSET Nat
      OBVIOUS
    <2> HIDE DEF T
    <2>2. T = Nat
      BY <1>6, <1>7, <2>1, EveryNumber
    <2> QED
      BY <2>2 DEF T
  <1> QED
    BY <1>2, <1>3, <1>8 DEF messages!EditDistance

\* If no edit changes anything, the edits are the common values.
LEMMA NoChangeIsEqual ==
  ASSUME NEW V, NEW s \in Seq(Edits(V)), Len(messages!Changes(s)) = 0
  PROVE  \A k \in DOMAIN s : s[k].action = "EQ"
  <1> SUFFICES ASSUME NEW k \in DOMAIN s, s[k].action # "EQ" PROVE FALSE
    OBVIOUS
  <1> DEFINE E == Edits(V)
             q == Cells("EQ", s)
  <1>1. s \in Seq(E)
    OBVIOUS
  <1> HIDE DEF E
  <1>2. messages!Changes(s) = messages!FlattenSeq(q)
    BY DEF messages!Changes, messages!Without, Cells
  <1>3. q \in Seq(Seq(E)) /\ DOMAIN q = DOMAIN s /\ q[k] = <<s[k]>>
    <2>1. q \in Seq(Seq(E))
      BY <1>1, CellsConcat
    <2> QED
      BY <2>1 DEF Cells
  <1> HIDE DEF q
  <1>4. PICK n \in Nat : n = Len(q)
    BY <1>3
  <1>5. k \in 1 .. n
    BY <1>3, <1>4
  <1> DEFINE before == messages!FlattenSeq(SubSeq(q, 1, k - 1))
             behind == messages!FlattenSeq(SubSeq(q, k + 1, n))
  <1>6. /\ before \in Seq(E) /\ q[k] \in Seq(E) /\ behind \in Seq(E)
        /\ messages!FlattenSeq(q) = before \o (q[k] \o behind)
    BY <1>3, <1>4, <1>5, FlattenSplit, ZenonT(60)
  <1> HIDE DEF before, behind
  <1>7. q[k] \o behind \in Seq(E) /\ Len(q[k] \o behind) = Len(q[k]) + Len(behind)
    BY <1>6, ConcatProperties
  <1>8. Len(before \o (q[k] \o behind)) = Len(before) + (Len(q[k]) + Len(behind))
    BY <1>6, <1>7, ConcatProperties
  <1>9. Len(q[k]) = 1 /\ Len(before) \in Nat /\ Len(behind) \in Nat
    BY <1>3, <1>6
  <1> QED
    BY <1>2, <1>6, <1>8, <1>9

\* The shortest list of edits from an array to itself keeps every value.
LEMMA MinimalOfSame ==
  ASSUME NEW V, NEW u \in Seq(V), NEW s \in messages!MinimalScripts(u, u)
  PROVE  \A k \in DOMAIN s : s[k].action = "EQ"
  <1>1. s \in messages!Scripts(u, u) /\ Len(messages!Changes(s)) = messages!EditDistance(u, u)
    BY DEF messages!MinimalScripts, messages!IsMinimal
  <1>2. s \in Seq(Edits(V))
    BY <1>1, ScriptsTurn
  <1>3. messages!EditDistance(u, u) = 0
    BY LcsOfSame
  <1> QED
    BY <1>1, <1>2, <1>3, NoChangeIsEqual

\* A list of edits that keeps every value has the same sides.
LEMMA EqualSides ==
  ASSUME NEW s, \A k \in DOMAIN s : s[k].action = "EQ"
  PROVE  messages!Kept(s) = messages!Result(s) /\ Side(Added, s) = Side(Deleted, s)
  <1>1. Cells("ADD", s) = Cells("DEL", s)
    BY DEF Cells
  <1>2. /\ messages!Without("ADD", s) = messages!FlattenSeq(Cells("ADD", s))
        /\ messages!Without("DEL", s) = messages!FlattenSeq(Cells("DEL", s))
    BY DEF messages!Without, Cells
  <1>3. messages!Without("ADD", s) = messages!Without("DEL", s)
    BY <1>1, <1>2
  <1> QED
    BY <1>3 DEF messages!Kept, messages!Result, Side, Added, Deleted

\* The size of a batch.
LEMMA BatchSize ==
  ASSUME NEW m \in Nat, NEW n \in Nat
  PROVE  messages!Min({m, n}) \in 0 .. n
  <1>1. \E x \in {m, n} : \A y \in {m, n} : x <= y
    OBVIOUS
  <1> DEFINE x == messages!Min({m, n})
  <1>2. x \in {m, n} /\ \A y \in {m, n} : x <= y
    BY <1>1 DEF messages!Min
  <1> HIDE DEF x
  <1>3. x \in 0 .. n
    BY <1>2
  <1> QED
    BY <1>3 DEF x

\* The edits that are collected of a batch are a part of it.
LEMMA DiffEndIs ==
  ASSUME NEW E, NEW s \in Seq(E)
  PROVE  messages!DiffEnd(s) \in 0 .. Len(s)
  <1>1. PICK n \in Nat : n = Len(s)
    OBVIOUS
  <1> DEFINE common == {k \in DOMAIN s : s[k].action = "EQ"}
  <1>2. common \in SUBSET (1 .. n)
    BY <1>1
  <1>3. messages!DiffEnd(s) = IF common = {} THEN Len(s) ELSE messages!Max(common)
    BY DEF messages!DiffEnd
  <1> HIDE DEF common
  <1>4. messages!Max(common) = texts!Max(common)
    BY DEF messages!Max, texts!Max
  <1>5. common # {} => texts!Max(common) \in common
    BY <1>2, FirstAndLastOf
  <1>6. CASE common = {}
    BY <1>1, <1>3, <1>6
  <1>7. CASE common # {}
    <2>1. messages!DiffEnd(s) \in 1 .. n
      BY <1>2, <1>3, <1>4, <1>5, <1>7
    <2> QED
      BY <1>1, <2>1
  <1> QED
    BY <1>6, <1>7

\* A sequence in two parts.
LEMMA TwoParts ==
  ASSUME NEW S, NEW s \in Seq(S), NEW k \in 0 .. Len(s)
  PROVE  /\ SubSeq(s, 1, k) \in Seq(S) /\ SubSeq(s, k + 1, Len(s)) \in Seq(S)
         /\ s = SubSeq(s, 1, k) \o SubSeq(s, k + 1, Len(s))
  <1>1. PICK n \in Nat : n = Len(s)
    OBVIOUS
  <1>2. SubSeq(s, 1, k) \in Seq(S) /\ SubSeq(s, k + 1, n) \in Seq(S)
    BY <1>1, SubSeqProperties
  <1>3. SubSeq(s, 1, k) \o SubSeq(s, k + 1, n) = SubSeq(s, 1, n)
    <2>1. 1 \in 1 .. Len(s) + 1 /\ k \in 1 - 1 .. Len(s) /\ n \in k .. Len(s)
      BY <1>1
    <2> QED
      BY <2>1, ConcatAdjacentSubSeq
  <1> QED
    BY <1>1, <1>2, <1>3, SubSeqFull

\* What is behind the first part.
LEMMA SecondPart ==
  ASSUME NEW S, NEW p \in Seq(S), NEW q \in Seq(S)
  PROVE  SubSeq(p \o q, Len(p) + 1, Len(p \o q)) = q
  <1> DEFINE r == p \o q
  <1>1. PICK n \in Nat : n = Len(p)
    OBVIOUS
  <1>2. PICK m \in Nat : m = Len(q)
    OBVIOUS
  <1>3. r \in Seq(S) /\ Len(r) = n + m /\ \A k \in 1 .. n + m : r[k] = IF k <= n THEN p[k] ELSE q[k - n]
    BY <1>1, <1>2, ConcatProperties
  <1> HIDE DEF r
  <1> DEFINE t == SubSeq(r, n + 1, n + m)
  <1>4. t \in Seq(S) /\ Len(t) = m /\ \A k \in 1 .. m : t[k] = r[n + k]
    <2>1. \A k \in n + 1 .. n + m : r[k] \in S
      BY <1>3
    <2>2. /\ t \in Seq(S)
          /\ Len(t) = IF n + 1 <= n + m THEN n + m - (n + 1) + 1 ELSE 0
          /\ \A k \in 1 .. n + m - (n + 1) + 1 : t[k] = r[n + 1 + k - 1]
      BY <2>1, SubSeqProperties
    <2>3. \A k \in 1 .. m : k \in 1 .. n + m - (n + 1) + 1 /\ n + 1 + k - 1 = n + k
      OBVIOUS
    <2> HIDE DEF t
    <2> QED
      BY <2>2, <2>3
  <1> HIDE DEF t
  <1>5. ASSUME NEW k \in 1 .. m PROVE t[k] = q[k]
    <2>1. n + k \in 1 .. n + m /\ ~(n + k <= n) /\ (n + k) - n = k
      OBVIOUS
    <2> QED
      BY <1>3, <1>4, <2>1
  <1>6. t = q
    BY <1>2, <1>4, <1>5, SeqEqual
  <1> QED
    BY <1>1, <1>3, <1>6 DEF r, t

\* How the run stands: the lines were read, the edits so far and the rest make up both texts,
\* and equal texts have no edit that changes anything.
MessageInv ==
  /\ left \in Seq(messages!Lines) /\ right \in Seq(messages!Lines)
  /\ expect \in Seq(messages!Lines) /\ got \in Seq(messages!Lines)
  /\ restE \in Seq(messages!Lines) /\ restG \in Seq(messages!Lines)
  /\ diffs \in Seq(Edits(messages!Lines))
  /\ batch_limit \in Nat
  /\ phase = "read" => expect = <<>> /\ got = <<>> /\ restE = <<>> /\ restG = <<>> /\ diffs = <<>>
  /\ phase # "read" => expect = messages!ProcessLines(left) /\ got = messages!ProcessLines(right)
  /\ phase = "done" => restE = <<>> /\ restG = <<>>
  /\ Side(Added, diffs) \o restE = expect
  /\ Side(Deleted, diffs) \o restG = got
  /\ expect = got => restE = restG /\ \A k \in DOMAIN diffs : diffs[k].action = "EQ"

\* process_lines takes lines to lines.
LEMMA ProcessType ==
  ASSUME NEW lines \in Seq(messages!Lines)
  PROVE  messages!ProcessLines(lines) \in Seq(messages!Lines)
  <1> DEFINE q == [k \in DOMAIN lines |->
                     IF messages!Considered(messages!Trimmed(lines[k]))
                       THEN <<messages!Trimmed(lines[k])>> ELSE <<>>]
  <1>1. \A line \in messages!Lines : messages!Trimmed(line) \in messages!Lines
    BY DEF messages!Lines, messages!Trimmed
  <1>2. \A k \in 1 .. Len(lines) : q[k] \in Seq(messages!Lines)
    BY <1>1
  <1>3. DOMAIN lines = 1 .. Len(lines) /\ Len(lines) \in Nat
    OBVIOUS
  <1>4. q \in Seq(Seq(messages!Lines))
    BY <1>2, <1>3
  <1>5. messages!ProcessLines(lines) = messages!FlattenSeq(q)
    BY DEF messages!ProcessLines
  <1>6. <<>> \in Seq(messages!Lines)
    OBVIOUS
  <1> HIDE DEF q
  <1> QED
    BY <1>4, <1>5, <1>6, FlattenMore

\* At the start nothing was read.
LEMMA MessageInit == messages!Init => MessageInv
  <1> SUFFICES ASSUME messages!Init PROVE MessageInv
    OBVIOUS
  <1>1. \A n : messages!BoundedSeq(messages!Lines, n) = texts!BoundedSeq(messages!Lines, n)
    BY Zenon DEF messages!BoundedSeq, messages!SeqOf, texts!BoundedSeq, texts!SeqOf
  <1>2. left \in Seq(messages!Lines) /\ right \in Seq(messages!Lines)
    BY <1>1, BoundedSeqIsSeq DEF messages!Init
  <1>3. Side(Added, <<>>) = <<>> /\ Side(Deleted, <<>>) = <<>>
    BY SideEmpty
  <1>4. <<>> \o <<>> = <<>>
    OBVIOUS
  <1>5. expect = <<>> /\ got = <<>> /\ restE = <<>> /\ restG = <<>> /\ diffs = <<>> /\ phase = "read"
        /\ batch_limit \in Nat
    BY MessageParameters DEF messages!Init
  <1>6. <<>> \in Seq(messages!Lines) /\ <<>> \in Seq(Edits(messages!Lines)) /\ DOMAIN <<>> = {}
    OBVIOUS
  <1> QED
    BY <1>2, <1>3, <1>4, <1>5, <1>6 DEF MessageInv

\* The lines are read: all of them are still to be compared.
LEMMA MessageRead == MessageInv /\ messages!Read => MessageInv'
  <1> SUFFICES ASSUME MessageInv, messages!Read PROVE MessageInv'
    OBVIOUS
  <1> DEFINE p == messages!ProcessLines(left)
             q == messages!ProcessLines(right)
  <1>1. p \in Seq(messages!Lines) /\ q \in Seq(messages!Lines)
    BY ProcessType DEF MessageInv
  <1>2. /\ expect' = p /\ got' = q /\ restE' = p /\ restG' = q
        /\ phase' = "batch" /\ diffs' = diffs /\ diffs = <<>>
        /\ left' = left /\ right' = right /\ batch_limit' = batch_limit
        /\ ignore_empty_lines' = ignore_empty_lines /\ trim_spaces' = trim_spaces
    BY DEF messages!Read, MessageInv, messages!inputVars
  <1>3. messages!ProcessLines(left)' = p /\ messages!ProcessLines(right)' = q
    BY <1>2 DEF messages!ProcessLines, messages!Trimmed, messages!Considered
  <1>4. Side(Added, <<>>) = <<>> /\ Side(Deleted, <<>>) = <<>>
    BY SideEmpty
  <1>5. <<>> \o p = p /\ <<>> \o q = q
    BY <1>1, ConcatEmptySeq
  <1>6. <<>> \in Seq(Edits(messages!Lines)) /\ DOMAIN <<>> = {}
    OBVIOUS
  <1> HIDE DEF p, q
  <1>7. Side(Added, diffs') \o restE' = expect' /\ Side(Deleted, diffs') \o restG' = got'
    BY <1>2, <1>4, <1>5
  <1>8. left' \in Seq(messages!Lines) /\ right' \in Seq(messages!Lines) /\ batch_limit' \in Nat
    BY <1>2 DEF MessageInv
  <1>9. diffs' \in Seq(Edits(messages!Lines)) /\ DOMAIN diffs' = {}
    BY <1>2, <1>6
  <1> QED
    BY <1>1, <1>2, <1>3, <1>7, <1>8, <1>9 DEF MessageInv

\* q behind p, and the part of p from one place to another, as names that the provers leave closed.
Behind(p, q) == p \o q
Part(p, from, to) == SubSeq(p, from, to)

\* The edits of a batch that are collected use up the first lines of the rest.
LEMMA BatchSide ==
  ASSUME NEW V, NEW x, NEW lines \in Seq(V), NEW n \in Nat, n <= Len(lines), NEW s \in Seq(Edits(V)),
         NEW m \in Nat, m <= Len(s), Side(x, s) = Part(lines, 1, n)
  PROVE  LET c == Part(s, 1, m)
             r == Part(lines, Len(messages!Without(x, c)) + 1, Len(lines)) IN
         Behind(Side(x, c), r) = lines
  <1>0. \A f, g, h \in Seq(V) : (f \o g) \o h = f \o (g \o h)
    BY ConcatAssociative, SMTT(30)
  <1> DEFINE E == Edits(V)
             c == SubSeq(s, 1, m)
             d == SubSeq(s, m + 1, Len(s))
             t == SubSeq(lines, n + 1, Len(lines))
             p == Side(x, c)
             q == Side(x, d)
  <1>1. c \in Seq(E) /\ d \in Seq(E) /\ s = c \o d
    <2>1. s \in Seq(E) /\ m \in 0 .. Len(s)
      OBVIOUS
    <2> HIDE DEF E
    <2> QED
      BY <2>1, TwoParts
  <1>2. t \in Seq(V) /\ lines = SubSeq(lines, 1, n) \o t
    <2>1. n \in 0 .. Len(lines)
      OBVIOUS
    <2> QED
      BY <2>1, TwoParts
  <1> HIDE DEF c, d, t
  <1>3. p \in Seq(V) /\ q \in Seq(V) /\ Side(x, s) = p \o q
    <2>1. c \in Seq(Edits(V)) /\ d \in Seq(Edits(V))
      BY <1>1
    <2>2. Side(x, c) \in Seq(V) /\ Side(x, d) \in Seq(V)
      BY <2>1, SideType
    <2>3. Side(x, c \o d) = Side(x, c) \o Side(x, d)
      BY <2>1, SideConcat
    <2> QED
      BY <1>1, <2>2, <2>3
  <1>4. Len(messages!Without(x, c)) = Len(p)
    <2>1. messages!Without(x, c) \in Seq(E)
      BY <1>1, WithoutType
    <2> QED
      BY <2>1, ValuesType DEF Side
  <1> HIDE DEF p, q
  <1>5. lines = (p \o q) \o t
    BY <1>2, <1>3 DEF Part
  <1>6. q \o t \in Seq(V) /\ lines = p \o (q \o t)
    <2>1. q \o t \in Seq(V)
      BY <1>2, <1>3, ConcatProperties
    <2>2. (p \o q) \o t = p \o (q \o t)
      <3>1. p \in Seq(V) /\ q \in Seq(V) /\ t \in Seq(V)
        BY <1>2, <1>3
      <3> QED
        BY <1>0, <3>1
    <2> QED
      BY <1>5, <2>1, <2>2
  <1>7. SubSeq(lines, Len(p) + 1, Len(lines)) = q \o t
    BY <1>3, <1>6, SecondPart
  <1> QED
    BY <1>1, <1>3, <1>4, <1>6, <1>7 DEF c, p, Part, Behind

\* What is collected and what is left of a batch.
LEMMA BatchTypes ==
  ASSUME NEW V, NEW x, NEW lines \in Seq(V), NEW n \in Nat, n <= Len(lines), NEW s \in Seq(Edits(V)),
         NEW m \in Nat, m <= Len(s), Side(x, s) = Part(lines, 1, n)
  PROVE  LET c == Part(s, 1, m)
             r == Part(lines, Len(messages!Without(x, c)) + 1, Len(lines)) IN
         c \in Seq(Edits(V)) /\ r \in Seq(V) /\ Side(x, c) \in Seq(V)
  <1> DEFINE E == Edits(V)
             c == Part(s, 1, m)
  <1>1. c \in Seq(E)
    <2>1. s \in Seq(E) /\ m \in 0 .. Len(s)
      OBVIOUS
    <2> HIDE DEF E
    <2> QED
      BY <2>1, TwoParts DEF Part
  <1> HIDE DEF c
  <1>2. Side(x, c) \in Seq(V)
    BY <1>1, SideType
  <1>3. Len(messages!Without(x, c)) \in Nat
    <2>1. messages!Without(x, c) \in Seq(E)
      BY <1>1, WithoutType
    <2> QED
      BY <2>1
  <1>4. Part(lines, Len(messages!Without(x, c)) + 1, Len(lines)) \in Seq(V)
    BY <1>3 DEF Part
  <1> QED
    BY <1>1, <1>2, <1>4 DEF c

\* One more collected part of a side.
LEMMA OnSide ==
  ASSUME NEW V, NEW x, NEW s \in Seq(Edits(V)), NEW c \in Seq(Edits(V)), NEW r \in Seq(V)
  PROVE  Behind(Side(x, s \o c), r) = Behind(Side(x, s), Behind(Side(x, c), r))
  <1>1. Side(x, s) \in Seq(V) /\ Side(x, c) \in Seq(V)
    BY SideType
  <1>2. Side(x, s \o c) = Side(x, s) \o Side(x, c)
    BY SideConcat
  <1> QED
    BY <1>1, <1>2, ConcatAssociative DEF Behind

\* Edits that keep their values, behind such edits.
LEMMA AllEqual ==
  ASSUME NEW E, NEW s \in Seq(E), NEW c \in Seq(E),
         \A k \in DOMAIN s : s[k].action = "EQ", \A k \in DOMAIN c : c[k].action = "EQ"
  PROVE  \A k \in DOMAIN (s \o c) : (s \o c)[k].action = "EQ"
  <1>1. PICK n \in Nat : n = Len(s)
    OBVIOUS
  <1>2. PICK m \in Nat : m = Len(c)
    OBVIOUS
  <1>3. /\ DOMAIN (s \o c) = 1 .. n + m /\ DOMAIN s = 1 .. n /\ DOMAIN c = 1 .. m
        /\ \A k \in 1 .. n + m : (s \o c)[k] = IF k <= n THEN s[k] ELSE c[k - n]
    BY <1>1, <1>2, ConcatProperties
  <1> SUFFICES ASSUME NEW k \in 1 .. n + m PROVE (s \o c)[k].action = "EQ"
    BY <1>3
  <1>4. CASE k <= n
    <2>1. k \in 1 .. n
      BY <1>4
    <2> QED
      BY <1>3, <1>4, <2>1
  <1>5. CASE ~(k <= n)
    <2>1. k - n \in 1 .. m
      BY <1>5
    <2> QED
      BY <1>3, <1>5, <2>1
  <1> QED
    BY <1>4, <1>5

\* The last batch: all of the rest is compared.
LEMMA MessageLast == MessageInv /\ messages!LastBatch => MessageInv'
  <1> SUFFICES ASSUME MessageInv, messages!LastBatch PROVE MessageInv'
    OBVIOUS
  <1> DEFINE V == messages!Lines
  <1>1. PICK s : s \in messages!MinimalScripts(restE, restG) /\ diffs' = diffs \o s
    BY DEF messages!LastBatch
  <1>2. /\ restE \in Seq(V) /\ restG \in Seq(V) /\ diffs \in Seq(Edits(V))
        /\ Side(Added, diffs) \o restE = expect /\ Side(Deleted, diffs) \o restG = got
        /\ left \in Seq(V) /\ right \in Seq(V) /\ expect \in Seq(V) /\ got \in Seq(V)
        /\ batch_limit \in Nat
        /\ expect = got => restE = restG /\ \A k \in DOMAIN diffs : diffs[k].action = "EQ"
    BY DEF MessageInv
  <1>3. /\ restE' = <<>> /\ restG' = <<>> /\ phase' = "done" /\ phase = "batch"
        /\ expect' = expect /\ got' = got /\ left' = left /\ right' = right
        /\ batch_limit' = batch_limit /\ trim_spaces' = trim_spaces
        /\ ignore_empty_lines' = ignore_empty_lines
    BY DEF messages!LastBatch, messages!inputVars
  <1>4. expect' = messages!ProcessLines(left)' /\ got' = messages!ProcessLines(right)'
    BY <1>3 DEF MessageInv, messages!ProcessLines, messages!Trimmed, messages!Considered
  <1> HIDE DEF V
  <1>5. s \in Seq(Edits(V)) /\ Side(Added, s) = restE /\ Side(Deleted, s) = restG
    BY <1>1, <1>2, ScriptsTurn DEF messages!MinimalScripts
  <1>6. diffs' \in Seq(Edits(V))
    BY <1>1, <1>2, <1>5, ConcatProperties
  <1>7. <<>> \in Seq(V)
    OBVIOUS
  <1>8. Side(Added, diffs') \o <<>> = expect
    <2>1. Side(Added, diffs \o s) \o <<>> = Side(Added, diffs) \o (Side(Added, s) \o <<>>)
      <3> DEFINE nil == <<>>
      <3>1. diffs \in Seq(Edits(V)) /\ s \in Seq(Edits(V)) /\ nil \in Seq(V)
        BY <1>2, <1>5, <1>7
      <3> HIDE DEF nil
      <3>2. Behind(Side(Added, diffs \o s), nil) = Behind(Side(Added, diffs), Behind(Side(Added, s), nil))
        BY <3>1, OnSide
      <3> QED
        BY <3>2 DEF Behind, nil
    <2>2. restE \o <<>> = restE
      BY <1>2, ConcatEmptySeq
    <2> QED
      BY <1>1, <1>2, <1>5, <2>1, <2>2
  <1>9. Side(Deleted, diffs') \o <<>> = got
    <2>1. Side(Deleted, diffs \o s) \o <<>> = Side(Deleted, diffs) \o (Side(Deleted, s) \o <<>>)
      <3> DEFINE nil == <<>>
      <3>1. diffs \in Seq(Edits(V)) /\ s \in Seq(Edits(V)) /\ nil \in Seq(V)
        BY <1>2, <1>5, <1>7
      <3> HIDE DEF nil
      <3>2. Behind(Side(Deleted, diffs \o s), nil) = Behind(Side(Deleted, diffs), Behind(Side(Deleted, s), nil))
        BY <3>1, OnSide
      <3> QED
        BY <3>2 DEF Behind, nil
    <2>2. restG \o <<>> = restG
      BY <1>2, ConcatEmptySeq
    <2> QED
      BY <1>1, <1>2, <1>5, <2>1, <2>2
  <1>10. ASSUME expect = got PROVE \A k \in DOMAIN diffs' : diffs'[k].action = "EQ"
    <2>1. restE = restG /\ \A k \in DOMAIN diffs : diffs[k].action = "EQ"
      BY <1>2, <1>10
    <2>2. \A k \in DOMAIN s : s[k].action = "EQ"
      BY <1>1, <1>2, <2>1, MinimalOfSame
    <2>3. \A k \in DOMAIN (diffs \o s) : (diffs \o s)[k].action = "EQ"
      BY <1>2, <1>5, <2>1, <2>2, AllEqual
    <2> QED
      BY <1>1, <2>3
  <1> QED
    BY <1>2, <1>3, <1>4, <1>6, <1>7, <1>8, <1>9, <1>10 DEF MessageInv, V

\* A batch before the last one.
LEMMA MessageBatch == MessageInv /\ messages!Batch => MessageInv'
  <1> SUFFICES ASSUME MessageInv, messages!Batch PROVE MessageInv'
    OBVIOUS
  <1> DEFINE V == messages!Lines
             u == messages!Prefix(restE)
             w == messages!Prefix(restG)
  <1>1. PICK s : s \in messages!MinimalScripts(u, w) /\
          LET c == SubSeq(s, 1, messages!DiffEnd(s)) IN
          /\ diffs' = diffs \o c
          /\ restE' = messages!Rest(restE, messages!Kept(c))
          /\ restG' = messages!Rest(restG, messages!Result(c))
    BY DEF messages!Batch
  <1>2. /\ restE \in Seq(V) /\ restG \in Seq(V) /\ diffs \in Seq(Edits(V))
        /\ Side(Added, diffs) \o restE = expect /\ Side(Deleted, diffs) \o restG = got
        /\ left \in Seq(V) /\ right \in Seq(V) /\ expect \in Seq(V) /\ got \in Seq(V)
        /\ batch_limit \in Nat
        /\ expect = got => restE = restG /\ \A k \in DOMAIN diffs : diffs[k].action = "EQ"
    BY DEF MessageInv
  <1>3. /\ phase' = phase /\ phase = "batch"
        /\ expect' = expect /\ got' = got /\ left' = left /\ right' = right
        /\ batch_limit' = batch_limit /\ trim_spaces' = trim_spaces
        /\ ignore_empty_lines' = ignore_empty_lines
    BY DEF messages!Batch, messages!inputVars
  <1>4. expect' = messages!ProcessLines(left)' /\ got' = messages!ProcessLines(right)'
    BY <1>3 DEF MessageInv, messages!ProcessLines, messages!Trimmed, messages!Considered
  <1> HIDE DEF V
  <1>5. PICK n : n \in 0 .. Len(restE) /\ u = SubSeq(restE, 1, n)
    <2>1. Len(restE) \in Nat
      BY <1>2
    <2> QED
      BY <1>2, <2>1, BatchSize DEF messages!Prefix
  <1>6. PICK m : m \in 0 .. Len(restG) /\ w = SubSeq(restG, 1, m)
    <2>1. Len(restG) \in Nat
      BY <1>2
    <2> QED
      BY <1>2, <2>1, BatchSize DEF messages!Prefix
  <1>7. u \in Seq(V) /\ w \in Seq(V)
    BY <1>2, <1>5, <1>6, TwoParts, SMTT(30)
  <1>8. restE = restG => u = w
    BY DEF messages!Prefix
  <1> HIDE DEF u, w
  <1> DEFINE c == SubSeq(s, 1, messages!DiffEnd(s))
  <1>9. s \in Seq(Edits(V)) /\ Side(Added, s) = u /\ Side(Deleted, s) = w
    BY <1>1, <1>7, ScriptsTurn DEF messages!MinimalScripts
  <1>10. PICK h : h \in 0 .. Len(s) /\ h = messages!DiffEnd(s)
    BY <1>9, DiffEndIs
  <1>11. /\ restE' = SubSeq(restE, Len(messages!Without(Added, c)) + 1, Len(restE))
         /\ restG' = SubSeq(restG, Len(messages!Without(Deleted, c)) + 1, Len(restG))
         /\ diffs' = diffs \o c
    BY <1>1 DEF messages!Rest, messages!Kept, messages!Result, Added, Deleted
  <1>12. /\ c \in Seq(Edits(V)) /\ restE' \in Seq(V)
         /\ Side(Added, c) \in Seq(V) /\ Side(Added, c) \o restE' = restE
    <2>1. /\ restE \in Seq(V) /\ n \in Nat /\ n <= Len(restE)
          /\ s \in Seq(Edits(V)) /\ h \in Nat /\ h <= Len(s)
          /\ Side(Added, s) = Part(restE, 1, n)
      BY <1>2, <1>5, <1>9, <1>10 DEF Part
    <2>2. c = Part(s, 1, h) /\ restE' = Part(restE, Len(messages!Without(Added, c)) + 1, Len(restE))
      BY <1>10, <1>11 DEF Part
    <2> HIDE DEF c
    <2>3. c \in Seq(Edits(V)) /\ restE' \in Seq(V) /\ Side(Added, c) \in Seq(V)
      BY <2>1, <2>2, BatchTypes
    <2>4. Behind(Side(Added, c), restE') = restE
      BY <2>1, <2>2, BatchSide
    <2> QED
      BY <2>3, <2>4 DEF Behind
  <1>13. restG' \in Seq(V) /\ Side(Deleted, c) \in Seq(V) /\ Side(Deleted, c) \o restG' = restG
    <2>1. /\ restG \in Seq(V) /\ m \in Nat /\ m <= Len(restG)
          /\ s \in Seq(Edits(V)) /\ h \in Nat /\ h <= Len(s)
          /\ Side(Deleted, s) = Part(restG, 1, m)
      BY <1>2, <1>6, <1>9, <1>10 DEF Part
    <2>2. c = Part(s, 1, h) /\ restG' = Part(restG, Len(messages!Without(Deleted, c)) + 1, Len(restG))
      BY <1>10, <1>11 DEF Part
    <2> HIDE DEF c
    <2>3. c \in Seq(Edits(V)) /\ restG' \in Seq(V) /\ Side(Deleted, c) \in Seq(V)
      BY <2>1, <2>2, BatchTypes
    <2>4. Behind(Side(Deleted, c), restG') = restG
      BY <2>1, <2>2, BatchSide
    <2> QED
      BY <2>3, <2>4 DEF Behind
  <1>14. ASSUME expect = got
         PROVE  restE' = restG' /\ \A k \in DOMAIN diffs' : diffs'[k].action = "EQ"
    <2>1. restE = restG /\ u = w /\ \A k \in DOMAIN diffs : diffs[k].action = "EQ"
      BY <1>2, <1>8, <1>14
    <2>2. \A k \in DOMAIN s : s[k].action = "EQ"
      BY <1>1, <1>7, <2>1, MinimalOfSame
    <2>3. \A k \in DOMAIN c : c[k].action = "EQ"
      <3>1. PICK l \in Nat : l = Len(s)
        BY <1>9
      <3>2. Len(c) = h /\ \A k \in 1 .. h : c[k] = s[k]
        BY <1>9, <1>10, <3>1, SubSeqProperties
      <3>3. DOMAIN c = 1 .. h /\ DOMAIN s = 1 .. l /\ h <= l /\ h \in Nat
        BY <1>9, <1>10, <1>12, <3>1, <3>2
      <3>4. ASSUME NEW k \in 1 .. h PROVE c[k].action = "EQ"
        <4>1. k \in DOMAIN s
          BY <3>3
        <4> QED
          BY <2>2, <3>2, <4>1
      <3> QED
        BY <3>3, <3>4
    <2> HIDE DEF c
    <2>4. \A k \in DOMAIN (diffs \o c) : (diffs \o c)[k].action = "EQ"
      BY <1>2, <1>12, <2>1, <2>3, AllEqual
    <2>5. messages!Kept(c) = messages!Result(c)
      BY <2>3, EqualSides
    <2> QED
      BY <1>11, <2>1, <2>4, <2>5 DEF messages!Kept, messages!Result, Added, Deleted
  <1> HIDE DEF c
  <1>15. diffs' \in Seq(Edits(V))
    BY <1>2, <1>11, <1>12, ConcatProperties
  <1>16. Side(Added, diffs') \o restE' = expect
    <2>1. Side(Added, diffs \o c) \o restE' = Side(Added, diffs) \o (Side(Added, c) \o restE')
      <3>1. diffs \in Seq(Edits(V)) /\ c \in Seq(Edits(V)) /\ restE' \in Seq(V)
        BY <1>2, <1>12
      <3>2. Behind(Side(Added, diffs \o c), restE') = Behind(Side(Added, diffs), Behind(Side(Added, c), restE'))
        BY <3>1, OnSide
      <3> QED
        BY <3>2 DEF Behind
    <2> QED
      BY <1>2, <1>11, <1>12, <2>1
  <1>17. Side(Deleted, diffs') \o restG' = got
    <2>1. Side(Deleted, diffs \o c) \o restG' = Side(Deleted, diffs) \o (Side(Deleted, c) \o restG')
      <3>1. diffs \in Seq(Edits(V)) /\ c \in Seq(Edits(V)) /\ restG' \in Seq(V)
        BY <1>2, <1>12, <1>13
      <3>2. Behind(Side(Deleted, diffs \o c), restG') = Behind(Side(Deleted, diffs), Behind(Side(Deleted, c), restG'))
        BY <3>1, OnSide
      <3> QED
        BY <3>2 DEF Behind
    <2> QED
      BY <1>2, <1>11, <1>13, <2>1
  <1> QED
    BY <1>2, <1>3, <1>4, <1>12, <1>13, <1>14, <1>15, <1>16, <1>17 DEF MessageInv, V

LEMMA MessageStep == MessageInv /\ [messages!Next]_messageVars => MessageInv'
  <1>1. MessageInv /\ UNCHANGED messageVars => MessageInv'
    BY DEF MessageInv, messageVars, messages!ProcessLines, messages!Trimmed, messages!Considered
  <1> QED
    BY <1>1, MessageRead, MessageLast, MessageBatch DEF messages!Next

\* An edit that a side has: its value stands behind those of the edits before it.
LEMMA PlaceOf ==
  ASSUME NEW V, NEW x, NEW s \in Seq(Edits(V)), NEW j \in 1 .. Len(s), s[j].action # x
  PROVE  LET k == Len(messages!Without(x, SubSeq(s, 1, j - 1))) IN
         k \in Nat /\ k < Len(Side(x, s)) /\ Side(x, s)[k + 1] = s[j].val
  <1> DEFINE E == Edits(V)
             p == SubSeq(s, 1, j - 1)
             t == SubSeq(s, j + 1, Len(s))
             e == s[j]
             f == <<e>>
             P == Side(x, p)
             T == Side(x, t)
  <1>1. e \in Edits(V) /\ e.val \in V /\ e.action # x
    <2>1. s[j] \in Edits(V)
      OBVIOUS
    <2> QED
      BY <2>1 DEF Edits
  <1>2. p \in Seq(E) /\ f \in Seq(E) /\ t \in Seq(E) /\ s = p \o (f \o t)
    <2>1. s \in Seq(E)
      OBVIOUS
    <2> HIDE DEF E
    <2> QED
      BY <2>1, SplitAt
  <1> HIDE DEF p, t, e
  <1>3. Side(x, f) = <<e.val>>
    <2>1. messages!Without(x, <<e>>) = <<e>>
      BY <1>1, WithoutSmall
    <2>2. [k \in DOMAIN <<e>> |-> <<e>>[k].val] = <<e.val>>
      OBVIOUS
    <2> QED
      BY <2>1, <2>2 DEF Side, messages!ValuesOf
  <1> HIDE DEF f
  <1>4. P \in Seq(V) /\ T \in Seq(V) /\ Len(messages!Without(x, p)) = Len(P)
    <2>1. p \in Seq(Edits(V)) /\ t \in Seq(Edits(V))
      BY <1>2
    <2>2. P \in Seq(V) /\ T \in Seq(V)
      BY <2>1, SideType
    <2>3. messages!Without(x, p) \in Seq(Edits(V))
      BY <2>1, WithoutType
    <2> QED
      BY <2>2, <2>3, ValuesType DEF Side
  <1>5. Side(x, s) = P \o (<<e.val>> \o T)
    <2>1. p \in Seq(Edits(V)) /\ f \in Seq(Edits(V)) /\ t \in Seq(Edits(V))
      BY <1>2
    <2> DEFINE g == f \o t
    <2>2. g \in Seq(Edits(V))
      BY <1>2, ConcatProperties
    <2>3. Side(x, g) = Side(x, f) \o Side(x, t)
      BY <2>1, SideConcat, SMTT(30)
    <2>4. s = p \o g
      BY <1>2
    <2> HIDE DEF g
    <2>5. Side(x, p \o g) = Side(x, p) \o Side(x, g)
      <3>1. p \in Seq(Edits(V)) /\ g \in Seq(Edits(V))
        BY <2>1, <2>2
      <3> QED
        BY <3>1, SideConcat
    <2> QED
      BY <1>3, <2>3, <2>4, <2>5
  <1> HIDE DEF P, T
  <1>6. PICK n \in Nat : n = Len(P)
    BY <1>4
  <1>7. n < Len(P \o (<<e.val>> \o T)) /\ (P \o (<<e.val>> \o T))[n + 1] = e.val
    <2>1. <<e.val>> \in Seq(V) /\ Len(<<e.val>>) = 1
      BY <1>1
    <2>2. PICK m \in Nat : m = Len(T)
      BY <1>4
    <2>3. /\ <<e.val>> \o T \in Seq(V) /\ Len(<<e.val>> \o T) = 1 + m
          /\ (<<e.val>> \o T)[1] = e.val
      BY <1>4, <2>1, <2>2, ConcatProperties
    <2> QED
      BY <1>4, <1>6, <2>3, ConcatProperties
  <1> QED
    BY <1>4, <1>5, <1>6, <1>7 DEF p, e

\* What the message says of the edit at j.
ShownAs(j) == [action |-> diffs[j].action, val |-> diffs[j].val,
               at |-> messages!Numbers(SubSeq(diffs, 1, j - 1))]

\* What each edit contributes to the message.
ShownCells == [k \in DOMAIN diffs |-> IF messages!Shown(k) THEN <<ShownAs(k)>> ELSE <<>>]

\* The message is made of what the edits contribute.
LEMMA MessageCells ==
  ASSUME NEW E, diffs \in Seq(E)
  PROVE  LET S == {ShownAs(j) : j \in DOMAIN diffs} IN
         /\ messages!Message = messages!FlattenSeq(ShownCells)
         /\ ShownCells \in Seq(Seq(S))
         /\ DOMAIN ShownCells = DOMAIN diffs
  <1> DEFINE S == {ShownAs(j) : j \in DOMAIN diffs}
  <1>1. messages!Message = messages!FlattenSeq(ShownCells)
    BY DEF messages!Message, ShownCells, ShownAs
  <1>2. PICK n \in Nat : n = Len(diffs)
    OBVIOUS
  <1>3. DOMAIN diffs = 1 .. n
    BY <1>2
  <1>4. ASSUME NEW k \in 1 .. n PROVE ShownCells[k] \in Seq(S)
    <2>1. ShownAs(k) \in S
      BY <1>3
    <2> HIDE DEF S
    <2>2. <<ShownAs(k)>> \in Seq(S) /\ <<>> \in Seq(S)
      BY <2>1
    <2> QED
      BY <1>3, <2>2 DEF ShownCells
  <1>5. ShownCells = [k \in 1 .. n |-> ShownCells[k]] /\ DOMAIN ShownCells = 1 .. n
    BY <1>3 DEF ShownCells
  <1> HIDE DEF S
  <1>6. ShownCells \in Seq(Seq(S))
    BY <1>4, <1>5
  <1> QED
    BY <1>1, <1>3, <1>5, <1>6 DEF S

\* A line of the message stands for an edit that is shown.
LEMMA MessageLine ==
  ASSUME NEW E, diffs \in Seq(E), NEW k \in DOMAIN messages!Message
  PROVE  \E j \in DOMAIN diffs : messages!Shown(j) /\ messages!Message[k] = ShownAs(j)
  <1> DEFINE S == {ShownAs(j) : j \in DOMAIN diffs}
  <1>1. /\ messages!Message = messages!FlattenSeq(ShownCells)
        /\ ShownCells \in Seq(Seq(S)) /\ DOMAIN ShownCells = DOMAIN diffs
    BY MessageCells
  <1> HIDE DEF S
  <1>2. PICK j \in DOMAIN ShownCells : \E m \in DOMAIN ShownCells[j] :
          messages!FlattenSeq(ShownCells)[k] = ShownCells[j][m]
    BY <1>1, FlattenHas
  <1>3. PICK m \in DOMAIN ShownCells[j] : messages!Message[k] = ShownCells[j][m]
    BY <1>1, <1>2
  <1>4. CASE messages!Shown(j)
    <2>1. ShownCells[j] = <<ShownAs(j)>>
      BY <1>1, <1>4 DEF ShownCells
    <2> HIDE DEF ShownAs
    <2>2. m = 1
      BY <2>1
    <2> QED
      BY <1>1, <1>3, <1>4, <2>1, <2>2
  <1>5. CASE ~messages!Shown(j)
    <2>1. ShownCells[j] = <<>>
      BY <1>1, <1>5 DEF ShownCells
    <2> QED
      BY <2>1
  <1> QED
    BY <1>4, <1>5

\* The numbers of a message line are the places of its value in the compared texts.
LEMMA DoneIsTrue == MessageInv => messages!MessageIsTrue
  <1> SUFFICES ASSUME MessageInv, phase = "done", NEW k \in DOMAIN messages!Message
               PROVE  LET l == messages!Message[k] IN
                      /\ l.action # "ADD" => l.at[1] < Len(expect) /\ expect[l.at[1] + 1] = l.val
                      /\ l.action # "DEL" => l.at[2] < Len(got) /\ got[l.at[2] + 1] = l.val
    BY DEF messages!MessageIsTrue
  <1> DEFINE V == messages!Lines
  <1>1. /\ diffs \in Seq(Edits(V)) /\ restE = <<>> /\ restG = <<>>
        /\ Side(Added, diffs) \o restE = expect /\ Side(Deleted, diffs) \o restG = got
    BY DEF MessageInv
  <1> HIDE DEF V
  <1>2. Side(Added, diffs) = expect /\ Side(Deleted, diffs) = got
    <2>1. Side(Added, diffs) \in Seq(V) /\ Side(Deleted, diffs) \in Seq(V)
      BY <1>1, SideType
    <2>2. Side(Added, diffs) \o <<>> = Side(Added, diffs) /\ Side(Deleted, diffs) \o <<>> = Side(Deleted, diffs)
      BY <2>1, ConcatEmptySeq
    <2> QED
      BY <1>1, <2>2
  <1>3. PICK j \in DOMAIN diffs : messages!Message[k] = ShownAs(j)
    BY <1>1, MessageLine
  <1>4. j \in 1 .. Len(diffs)
    BY <1>1
  <1> DEFINE before == SubSeq(diffs, 1, j - 1)
             x == Len(messages!Without(Added, before))
             y == Len(messages!Without(Deleted, before))
             l == messages!Message[k]
  <1>5. l.action = diffs[j].action /\ l.val = diffs[j].val /\ l.at = <<x, y>>
    BY <1>3 DEF ShownAs, messages!Numbers, messages!Kept, messages!Result, Added, Deleted
  <1>6. diffs[j].action # Added => x < Len(expect) /\ expect[x + 1] = diffs[j].val
    <2>1. diffs[j].action # Added => x < Len(Side(Added, diffs)) /\ Side(Added, diffs)[x + 1] = diffs[j].val
      BY <1>1, <1>4, PlaceOf, SMTT(30)
    <2> QED
      BY <1>2, <2>1
  <1>7. diffs[j].action # Deleted => y < Len(got) /\ got[y + 1] = diffs[j].val
    <2>1. diffs[j].action # Deleted => y < Len(Side(Deleted, diffs)) /\ Side(Deleted, diffs)[y + 1] = diffs[j].val
      BY <1>1, <1>4, PlaceOf, SMTT(30)
    <2> QED
      BY <1>2, <2>1
  <1> HIDE DEF before, x, y, l
  <1>8. l.at[1] = x /\ l.at[2] = y
    BY <1>5
  <1> QED
    BY <1>5, <1>6, <1>7, <1>8 DEF Added, Deleted, l

\* The message is empty if no edit changes anything, and only then.
LEMMA EmptyMessage ==
  ASSUME NEW E, diffs \in Seq(E)
  PROVE  messages!Message = <<>> <=> \A j \in DOMAIN diffs : diffs[j].action = "EQ"
  <1> DEFINE S == {ShownAs(j) : j \in DOMAIN diffs}
  <1>1. /\ messages!Message = messages!FlattenSeq(ShownCells)
        /\ ShownCells \in Seq(Seq(S)) /\ DOMAIN ShownCells = DOMAIN diffs
    BY MessageCells
  <1> HIDE DEF S
  <1>2. messages!Message \in Seq(S)
    <2>1. <<>> \in Seq(S)
      OBVIOUS
    <2> QED
      BY <1>1, <2>1, FlattenMore
  <1>3. ASSUME \A j \in DOMAIN diffs : diffs[j].action = "EQ"
        PROVE  messages!Message = <<>>
    <2>1. \A j \in DOMAIN diffs : ~messages!Shown(j)
      BY <1>3 DEF messages!Shown
    <2>2. ~\E k \in DOMAIN messages!Message : TRUE
      BY <2>1, MessageLine
    <2>3. DOMAIN messages!Message = {}
      BY <2>2
    <2> QED
      BY <1>2, <2>3
  <1>4. ASSUME NEW j \in DOMAIN diffs, diffs[j].action # "EQ"
        PROVE  messages!Message # <<>>
    <2>1. PICK n \in Nat : n = Len(diffs)
      OBVIOUS
    <2>2. DOMAIN diffs = 1 .. n /\ j \in 1 .. n
      BY <2>1
    <2>3. messages!Shown(j)
      <3>1. j \in j - LinesBefore .. j + LinesAfter
        BY <2>2, MessageParameters
      <3> QED
        BY <1>4, <3>1 DEF messages!Shown
    <2>4. ShownCells[j] = <<ShownAs(j)>>
      BY <2>3 DEF ShownCells
    <2>5. Len(ShownCells) = n
      BY <1>1, <2>2
    <2> DEFINE before == messages!FlattenSeq(SubSeq(ShownCells, 1, j - 1))
               behind == messages!FlattenSeq(SubSeq(ShownCells, j + 1, n))
    <2> DEFINE c == ShownCells[j]
               g == c \o behind
    <2>6. before \in Seq(S) /\ c \in Seq(S) /\ behind \in Seq(S) /\ messages!Message = before \o g
      BY <1>1, <2>2, <2>5, FlattenSplit, ZenonT(60)
    <2>7. Len(c) = 1
      BY <2>4
    <2> HIDE DEF before, behind, c
    <2>8. g \in Seq(S) /\ Len(g) = 1 + Len(behind)
      BY <2>6, <2>7, ConcatProperties
    <2> HIDE DEF g
    <2>9. Len(messages!Message) = Len(before) + Len(g)
      BY <2>6, <2>8, ConcatProperties
    <2>10. Len(before) \in Nat /\ Len(behind) \in Nat
      BY <2>6
    <2> QED
      BY <2>8, <2>9, <2>10
  <1> QED
    BY <1>3, <1>4

\* At the end the message is empty if the compared lines are the same, and only then.
LEMMA DoneIsEmpty ==
  ASSUME MessageInv, phase = "done"
  PROVE  messages!Message = <<>> <=> expect = got
  <1> DEFINE V == messages!Lines
  <1>1. /\ diffs \in Seq(Edits(V)) /\ restE = <<>> /\ restG = <<>>
        /\ Side(Added, diffs) \o restE = expect /\ Side(Deleted, diffs) \o restG = got
        /\ expect = got => \A k \in DOMAIN diffs : diffs[k].action = "EQ"
    BY DEF MessageInv
  <1> HIDE DEF V
  <1>2. messages!Message = <<>> <=> \A j \in DOMAIN diffs : diffs[j].action = "EQ"
    BY <1>1, EmptyMessage
  <1>3. ASSUME \A k \in DOMAIN diffs : diffs[k].action = "EQ" PROVE expect = got
    <2>1. Side(Added, diffs) = Side(Deleted, diffs)
      BY <1>3, EqualSides
    <2> QED
      BY <1>1, <2>1
  <1> QED
    BY <1>1, <1>2, <1>3

\* The elements of s as v has them.
Mapped(v, s) == [m \in DOMAIN s |-> v[s[m]]]

\* Elements of two sequences.
LEMMA MappedConcat ==
  ASSUME NEW S, NEW R, NEW v \in [S -> R], NEW s \in Seq(S), NEW t \in Seq(S)
  PROVE  Mapped(v, s \o t) = Behind(Mapped(v, s), Mapped(v, t))
  <1>1. PICK n \in Nat : n = Len(s)
    OBVIOUS
  <1>2. PICK m \in Nat : m = Len(t)
    OBVIOUS
  <1> DEFINE f == Mapped(v, s)
             g == Mapped(v, t)
             z == s \o t
             h == Mapped(v, z)
  <1>3. /\ z \in Seq(S) /\ Len(z) = n + m
        /\ \A k \in 1 .. n + m : z[k] = IF k <= n THEN s[k] ELSE t[k - n]
    BY <1>1, <1>2, ConcatProperties
  <1> HIDE DEF z
  <1>4. /\ f \in Seq(R) /\ Len(f) = n /\ \A k \in 1 .. n : f[k] = v[s[k]]
        /\ g \in Seq(R) /\ Len(g) = m /\ \A k \in 1 .. m : g[k] = v[t[k]]
    BY <1>1, <1>2 DEF Mapped
  <1>5. h \in Seq(R) /\ Len(h) = n + m /\ \A k \in 1 .. n + m : h[k] = v[z[k]]
    BY <1>3 DEF Mapped
  <1> HIDE DEF f, g, h
  <1> DEFINE e == f \o g
  <1>6. /\ e \in Seq(R) /\ Len(e) = n + m
        /\ \A k \in 1 .. n + m : e[k] = IF k <= n THEN f[k] ELSE g[k - n]
    BY <1>4, ConcatProperties, ZenonT(60)
  <1> HIDE DEF e
  <1>7. ASSUME NEW k \in 1 .. n + m PROVE h[k] = e[k]
    <2>1. CASE k <= n
      <3>1. k \in 1 .. n
        BY <2>1
      <3>2. z[k] = s[k]
        BY <1>3, <2>1
      <3>3. h[k] = v[z[k]]
        BY <1>5
      <3>4. f[k] = v[s[k]]
        BY <1>4, <3>1
      <3>5. e[k] = f[k]
        BY <1>6, <2>1
      <3> QED
        BY <3>2, <3>3, <3>4, <3>5
    <2>2. CASE ~(k <= n)
      <3>1. k - n \in 1 .. m
        BY <2>2
      <3>2. z[k] = t[k - n]
        BY <1>3, <2>2
      <3>3. h[k] = v[z[k]]
        BY <1>5
      <3>4. g[k - n] = v[t[k - n]]
        BY <1>4, <3>1
      <3>5. e[k] = g[k - n]
        BY <1>6, <2>2
      <3> QED
        BY <3>2, <3>3, <3>4, <3>5
    <2> QED
      BY <2>1, <2>2
  <1>8. h \in Seq(R) /\ e \in Seq(R) /\ Len(h) = n + m /\ Len(e) = n + m
        /\ \A k \in 1 .. n + m : h[k] = e[k]
    BY <1>5, <1>6, <1>7
  <1>9. h = e
    BY <1>8
  <1> QED
    BY <1>9 DEF e, f, g, h, z, Behind

\* FlattenSeq of elements as v has them.
LEMMA FlattenMapped ==
  ASSUME NEW S, NEW R, NEW v \in [S -> R], NEW q \in Seq(Seq(S)), NEW r \in Seq(Seq(R)),
         Len(r) = Len(q), \A k \in 1 .. Len(q) : r[k] = Mapped(v, q[k])
  PROVE  messages!FlattenSeq(r) = Mapped(v, messages!FlattenSeq(q))
  <1>1. PICK l \in Nat : l = Len(q)
    OBVIOUS
  <1> DEFINE P == Seq(S)
             Q == Seq(R)
             f(n) == messages!FlattenSeq(SubSeq(q, 1, n))
             g(n) == messages!FlattenSeq(SubSeq(r, 1, n))
             T == {n \in Nat : n <= l => g(n) = Mapped(v, f(n))}
  <1>2. q \in Seq(P) /\ r \in Seq(Q) /\ Len(r) = l
    BY <1>1
  <1>3. 0 \in T
    <2>1. SubSeq(q, 1, 0) = <<>> /\ SubSeq(r, 1, 0) = <<>>
      BY <1>2
    <2>2. f(0) = <<>> /\ g(0) = <<>>
      BY <2>1, FlattenNone
    <2>3. Mapped(v, <<>>) = <<>>
      BY DEF Mapped
    <2> QED
      BY <2>2, <2>3
  <1>4. ASSUME NEW n \in T PROVE n + 1 \in T
    <2> SUFFICES ASSUME n + 1 <= l PROVE g(n + 1) = Mapped(v, f(n + 1))
      OBVIOUS
    <2>1. n \in Nat /\ g(n) = Mapped(v, f(n))
      OBVIOUS
    <2> HIDE DEF T
    <2> DEFINE c == q[n + 1]
               d == r[n + 1]
               u == SubSeq(q, 1, n)
               w == SubSeq(r, 1, n)
    <2>2. d = Mapped(v, c)
      <3>1. n + 1 \in 1 .. Len(q)
        BY <1>1, <2>1
      <3> QED
        BY <3>1
    <2>3. u \in Seq(P) /\ c \in P /\ SubSeq(q, 1, n + 1) = Append(u, c)
      <3>1. q \in Seq(P) /\ n \in Nat /\ n + 1 <= Len(q)
        BY <1>1, <1>2, <2>1
      <3> HIDE DEF P
      <3> QED
        BY <3>1, OneMore
    <2>4. w \in Seq(Q) /\ d \in Q /\ SubSeq(r, 1, n + 1) = Append(w, d)
      <3>1. r \in Seq(Q) /\ n \in Nat /\ n + 1 <= Len(r)
        BY <1>1, <1>2, <2>1
      <3> HIDE DEF Q
      <3> QED
        BY <3>1, OneMore
    <2> HIDE DEF u, w, c, d
    <2>5. f(n) \in Seq(S) /\ f(n + 1) = f(n) \o c
      <3>1. u \in Seq(Seq(S)) /\ c \in Seq(S)
        BY <2>3
      <3>2. messages!FlattenSeq(u) \in Seq(S) /\ messages!FlattenSeq(Append(u, c)) = messages!FlattenSeq(u) \o c
        BY <3>1, FlattenMore
      <3> QED
        BY <2>3, <3>2 DEF u
    <2>6. g(n + 1) = g(n) \o d
      <3>1. w \in Seq(Seq(R)) /\ d \in Seq(R)
        BY <2>4
      <3>2. messages!FlattenSeq(Append(w, d)) = messages!FlattenSeq(w) \o d
        BY <3>1, FlattenMore
      <3> QED
        BY <2>4, <3>2 DEF w
    <2> DEFINE k == f(n)
    <2>7. Mapped(v, k \o c) = Behind(Mapped(v, k), Mapped(v, c))
      <3>1. k \in Seq(S) /\ c \in Seq(S)
        BY <2>3, <2>5
      <3> HIDE DEF k
      <3> QED
        BY <3>1, MappedConcat, ZenonT(60)
    <2> QED
      BY <2>1, <2>2, <2>5, <2>6, <2>7 DEF Behind
  <1>5. T = Nat
    <2>1. T \in SUBSET Nat
      OBVIOUS
    <2> HIDE DEF T
    <2> QED
      BY <1>3, <1>4, <2>1, EveryNumber
  <1>6. g(l) = Mapped(v, f(l))
    <2>1. l \in T
      BY <1>5
    <2> QED
      BY <2>1
  <1>7. SubSeq(q, 1, l) = q /\ SubSeq(r, 1, l) = r
    BY <1>1, <1>2
  <1> QED
    BY <1>6, <1>7

\* The lines that are left when the spaces around them are taken out, or not.
Counted == {line \in messages!Lines : trim_spaces => ~line[2]}

\* The form in which a line counts.
Form == [line \in Counted |-> IF trim_spaces THEN line[1] ELSE line]

Forms == {Form[line] : line \in Counted}

\* A line as it is compared, and in the form in which it counts.
LEMMA LineForm ==
  ASSUME NEW line \in messages!Lines
  PROVE  /\ messages!Trimmed(line) \in Counted
         /\ Form[messages!Trimmed(line)] = IF trim_spaces THEN line[1] ELSE line
         /\ messages!Considered(messages!Trimmed(line))
              <=> ~(ignore_empty_lines /\ line[1] = Empty /\ (trim_spaces \/ ~line[2]))
  <1>1. PICK x \in Texts \cup {Empty}, y \in BOOLEAN : line = <<x, y>>
    BY DEF messages!Lines
  <1>2. line[1] = x /\ line[2] = y /\ <<x, FALSE>> \in messages!Lines
    BY <1>1 DEF messages!Lines
  <1>3. messages!Trimmed(line) \in Counted
    BY <1>1, <1>2 DEF Counted, messages!Trimmed
  <1>4. Form[messages!Trimmed(line)] = IF trim_spaces THEN line[1] ELSE line
    BY <1>2, <1>3 DEF Form, messages!Trimmed
  <1>5. <<x, FALSE>> = <<Empty, FALSE>> <=> x = Empty
    OBVIOUS
  <1>6. <<x, y>> = <<Empty, FALSE>> <=> x = Empty /\ ~y
    OBVIOUS
  <1>7. messages!Trimmed(line) = <<Empty, FALSE>> <=> x = Empty /\ (trim_spaces \/ ~y)
    BY <1>1, <1>2, <1>5, <1>6 DEF messages!Trimmed
  <1> QED
    BY <1>2, <1>3, <1>4, <1>7 DEF messages!Considered

\* Lines that have the same form are the same when they are compared.
LEMMA FormTells ==
  ASSUME NEW s \in Seq(Counted), NEW t \in Seq(Counted), Mapped(Form, s) = Mapped(Form, t)
  PROVE  s = t
  <1>1. PICK n \in Nat : n = Len(s)
    OBVIOUS
  <1>2. DOMAIN s = 1 .. n
    BY <1>1
  <1>3. DOMAIN t = 1 .. n /\ Len(t) = n
    <2>1. DOMAIN Mapped(Form, s) = DOMAIN s /\ DOMAIN Mapped(Form, t) = DOMAIN t
      BY DEF Mapped
    <2>2. DOMAIN t = 1 .. n
      BY <1>2, <2>1
    <2> QED
      BY <1>1, <2>2
  <1>4. ASSUME NEW k \in 1 .. n PROVE s[k] = t[k]
    <2>1. Mapped(Form, s)[k] = Form[s[k]] /\ Mapped(Form, t)[k] = Form[t[k]]
      BY <1>2, <1>3 DEF Mapped
    <2>2. s[k] \in Counted /\ t[k] \in Counted
      BY <1>2, <1>3
    <2>3. \A l, m \in Counted : Form[l] = Form[m] => l = m
      <3>1. ASSUME NEW l \in Counted, NEW m \in Counted, Form[l] = Form[m]
            PROVE  l = m
        <4>1. PICK x, y : l = <<x, y>> /\ y \in BOOLEAN /\ (trim_spaces => ~y)
          <5>1. l \in messages!Lines /\ (trim_spaces => ~l[2])
            BY DEF Counted
          <5>2. PICK x \in Texts \cup {Empty}, y \in BOOLEAN : l = <<x, y>>
            BY <5>1 DEF messages!Lines
          <5> QED
            BY <5>1, <5>2
        <4>2. PICK z, w : m = <<z, w>> /\ w \in BOOLEAN /\ (trim_spaces => ~w)
          <5>1. m \in messages!Lines /\ (trim_spaces => ~m[2])
            BY DEF Counted
          <5>2. PICK z \in Texts \cup {Empty}, w \in BOOLEAN : m = <<z, w>>
            BY <5>1 DEF messages!Lines
          <5> QED
            BY <5>1, <5>2
        <4>3. Form[l] = (IF trim_spaces THEN x ELSE l) /\ Form[m] = (IF trim_spaces THEN z ELSE m)
          BY <4>1, <4>2 DEF Form
        <4> QED
          BY <3>1, <4>1, <4>2, <4>3
      <3> QED
        BY <3>1
    <2> QED
      BY <2>1, <2>2, <2>3
  <1> QED
    BY <1>1, <1>3, <1>4, SeqEqual

\* The lines that count are the lines that are compared, in the form in which they count.
LEMMA ConsiderableIs ==
  ASSUME NEW lines \in Seq(messages!Lines)
  PROVE  /\ messages!ProcessLines(lines) \in Seq(Counted)
         /\ messages!Considerable(lines) = Mapped(Form, messages!ProcessLines(lines))
  <1> DEFINE q == [k \in DOMAIN lines |->
                     IF messages!Considered(messages!Trimmed(lines[k]))
                       THEN <<messages!Trimmed(lines[k])>> ELSE <<>>]
             r == [k \in DOMAIN lines |->
                     IF ignore_empty_lines /\ lines[k][1] = Empty /\ (trim_spaces \/ ~lines[k][2])
                       THEN <<>> ELSE <<IF trim_spaces THEN lines[k][1] ELSE lines[k]>>]
  <1>1. messages!ProcessLines(lines) = messages!FlattenSeq(q)
    BY DEF messages!ProcessLines
  <1>2. messages!Considerable(lines) = messages!FlattenSeq(r)
    BY DEF messages!Considerable
  <1>3. PICK n \in Nat : n = Len(lines)
    OBVIOUS
  <1>4. DOMAIN lines = 1 .. n /\ \A k \in 1 .. n : lines[k] \in messages!Lines
    BY <1>3
  <1>5. Form \in [Counted -> Forms]
    BY DEF Form, Forms
  <1>6. ASSUME NEW k \in 1 .. n
        PROVE  q[k] \in Seq(Counted) /\ r[k] \in Seq(Forms) /\ r[k] = Mapped(Form, q[k])
    <2> DEFINE l == lines[k]
               t == messages!Trimmed(l)
               f == IF trim_spaces THEN l[1] ELSE l
    <2>1. l \in messages!Lines
      BY <1>4
    <2>2. /\ t \in Counted /\ Form[t] = f
          /\ messages!Considered(t) <=> ~(ignore_empty_lines /\ l[1] = Empty /\ (trim_spaces \/ ~l[2]))
      BY <2>1, LineForm
    <2>3. f \in Forms
      BY <2>2 DEF Forms
    <2>4. CASE messages!Considered(t)
      <3>1. q[k] = <<t>> /\ r[k] = <<f>>
        BY <1>4, <2>2, <2>4
      <3> HIDE DEF q, r, t, f
      <3>2. Mapped(Form, <<t>>) = <<f>>
        BY <2>2 DEF Mapped
      <3> QED
        BY <2>2, <2>3, <3>1, <3>2
    <2>5. CASE ~messages!Considered(t)
      <3>1. q[k] = <<>> /\ r[k] = <<>>
        BY <1>4, <2>2, <2>5
      <3>2. Mapped(Form, <<>>) = <<>>
        BY DEF Mapped
      <3> HIDE DEF q, r
      <3> QED
        BY <3>1, <3>2
    <2> QED
      BY <2>4, <2>5
  <1>7. DOMAIN q = 1 .. n /\ DOMAIN r = 1 .. n /\ q = [k \in 1 .. n |-> q[k]] /\ r = [k \in 1 .. n |-> r[k]]
    BY <1>4
  <1> HIDE DEF q, r
  <1>8. q \in Seq(Seq(Counted)) /\ r \in Seq(Seq(Forms)) /\ Len(q) = n /\ Len(r) = n
    <2>1. \A k \in 1 .. n : q[k] \in Seq(Counted)
      BY <1>6
    <2>2. \A k \in 1 .. n : r[k] \in Seq(Forms)
      BY <1>6
    <2> DEFINE P == Seq(Counted)
               R == Seq(Forms)
    <2>3. (\A k \in 1 .. n : q[k] \in P) /\ \A k \in 1 .. n : r[k] \in R
      BY <2>1, <2>2
    <2> HIDE DEF P, R
    <2>4. q \in Seq(P) /\ Len(q) = n
      BY <1>7, <2>3
    <2>5. r \in Seq(R) /\ Len(r) = n
      BY <1>7, <2>3
    <2> QED
      BY <2>4, <2>5 DEF P, R
  <1>9. messages!FlattenSeq(r) = Mapped(Form, messages!FlattenSeq(q))
    <2>1. Len(r) = Len(q) /\ \A k \in 1 .. Len(q) : r[k] = Mapped(Form, q[k])
      BY <1>6, <1>8
    <2>2. q \in Seq(Seq(Counted)) /\ r \in Seq(Seq(Forms))
      BY <1>8
    <2> QED
      BY <1>5, <2>1, <2>2, FlattenMapped
  <1>10. messages!FlattenSeq(q) \in Seq(Counted)
    <2>1. <<>> \in Seq(Counted)
      OBVIOUS
    <2> QED
      BY <1>8, <2>1, FlattenMore
  <1> QED
    BY <1>1, <1>2, <1>9, <1>10

\* Whatever the batches and the flags, the message is empty at the end exactly if the lines
\* that count are the same.
LEMMA DoneMeansSame == MessageInv => messages!EmptyMessageMeansSame
  <1> SUFFICES ASSUME MessageInv, phase = "done"
               PROVE  messages!Message = <<>> <=> messages!Considerable(left) = messages!Considerable(right)
    BY DEF messages!EmptyMessageMeansSame
  <1> DEFINE p == messages!ProcessLines(left)
             q == messages!ProcessLines(right)
  <1>1. expect = p /\ got = q /\ left \in Seq(messages!Lines) /\ right \in Seq(messages!Lines)
    BY DEF MessageInv
  <1>2. messages!Message = <<>> <=> p = q
    BY <1>1, DoneIsEmpty
  <1>3. /\ p \in Seq(Counted) /\ messages!Considerable(left) = Mapped(Form, p)
        /\ q \in Seq(Counted) /\ messages!Considerable(right) = Mapped(Form, q)
    BY <1>1, ConsiderableIs
  <1> HIDE DEF p, q
  <1>4. Mapped(Form, p) = Mapped(Form, q) <=> p = q
    BY <1>3, FormTells
  <1> QED
    BY <1>2, <1>3, <1>4

-------------------------------------------------------------------------------

\* A step of the libraries is a step of one of them, and the others rest.
LEMMA OnePartMoves ==
  ASSUME [LibraryNext]_libraryVars
  PROVE  /\ [Next]_vars /\ [lists!Next]_listVars /\ [maps!Next]_mapVars
         /\ [texts!Next]_textVars /\ [flags!FlagNext]_flagVars
         /\ [messages!Next]_messageVars
  BY DEF LibraryNext, libraryVars

\* The invariants of logs, flags, configuration maps, hash lists, strings and messages hold
\* in every behaviour of the libraries.
THEOREM LibraryInvariance == LibrarySpec => [](FlagIInv /\ MapIInv /\ ListInv /\ TextInv /\ MessageInv)
  <1>1. LibraryInit => FlagIInv /\ MapIInv /\ ListInv /\ TextInv /\ MessageInv
    BY FlagInit, MapInit, ListInit, TextInit, MessageInit DEF LibraryInit
  <1>2. /\ FlagIInv /\ MapIInv /\ ListInv /\ TextInv /\ MessageInv
        /\ [LibraryNext]_libraryVars
        => (FlagIInv /\ MapIInv /\ ListInv /\ TextInv /\ MessageInv)'
    BY OnePartMoves, FlagStep, MapStep, ListBoxStep, TextStep, MessageStep
  <1> QED
    BY <1>1, <1>2, PTL DEF LibrarySpec

\* Whatever levels are set, and in whatever order loggers come and go, a failed lookup or
\* cast goes on only where the program's own logger let it (logs.hpp:131-136).
THEOREM FatalAlwaysStops == LibrarySpec => []FatalStops
  <1>1. FlagIInv => FatalStops
    BY DEF FlagIInv
  <1> QED
    BY LibraryInvariance, <1>1, PTL

\* Every call of parse(), on sets and variables that were used before or not, ends with
\* what its arguments deserve and says why (flag.cpp:51-81).
THEOREM ParseAlwaysTellsWhy == LibrarySpec => ParseTellsWhy
  <1> DEFINE Telling ==
        flags!Parsing =>
          LET asked == last.args.help \/ last.vm \in helped IN
          /\ last'.result = "true" => ~asked /\ last.args.others = "good"
          /\ last'.result = "false" => asked \/ last.args.others # "good"
          /\ logger = "default" =>
               /\ last'.result = "false" /\ log_level_ >= flags!WARN => said' \in {"warning", "error"}
               /\ said' = "warning" /\ said # "warning" => asked
  <1>1. FlagIInv /\ [LibraryNext]_libraryVars
          => [Telling]_(flags!flagVars)
    <2> SUFFICES ASSUME FlagIInv, flags!FlagNext, flags!Parsing
                 PROVE  Telling
      BY OnePartMoves DEF flagVars, flags!flagVars, flags!vars
    <2> QED
      BY ParseStep
  <1> QED
    BY LibraryInvariance, <1>1, PTL DEF LibrarySpec, ParseTellsWhy, flags!ParseTellsWhy

\* However many maps share an entry, and however their init functions nest and fail, an
\* object is deleted when its last holder goes, once, and not before (config.hpp:31-52,
\* :83-118).
THEOREM ObjectsAlwaysFollowEntries == LibrarySpec => []ObjectsFollowEntries
  <1>1. MapIInv => ObjectsFollowEntries
    BY DEF MapIInv
  <1> QED
    BY LibraryInvariance, <1>1, PTL

\* Whatever is inserted, removed, cleared and moved, the list and the map of a hash list
\* know the same elements, except of those that were copied into or erased from by
\* reference (hashlist.hpp:106-154, :159).
THEOREM ListsStayInStep == LibrarySpec => []InStep
  BY LibraryInvariance, ListInvInStep, PTL

\* Hash lists of any number, over any values and nodes, implement the ordered sets that
\* they show (hashlist.hpp:106-154).
THEOREM ListsImplementOrderedSets == LibrarySpec => ImplementsOrderedSets
  <1>1. LibraryInit => lists!OS!Init
    BY ListInit DEF LibraryInit
  <1>2. /\ FlagIInv /\ MapIInv /\ ListInv /\ TextInv /\ MessageInv
        /\ [LibraryNext]_libraryVars
        => [lists!OS!Next]_(lists!OS!vars)
    BY OnePartMoves, ListBoxStep
  <1> QED
    BY LibraryInvariance, <1>1, <1>2, PTL
    DEF LibrarySpec, ImplementsOrderedSets, lists!ImplementsOrderedSets, lists!OS!Spec

\* For any text and argument: what split cut is the text again when it is joined, every
\* mark and nothing else is escaped, strip takes off the members of the set at both ends
\* and nothing else, and the comparisons decide what they are asked (fmts.cpp:36-90,
\* fmts.hpp:42-59, strs.cpp:8-28).
THEOREM TextsAreExact == LibrarySpec => []ResultsAreExact
  BY LibraryInvariance, TextInvExact, PTL

\* Wherever the batches are cut, no line is lost, repeated or moved (msg.cpp:90-120).
THEOREM BatchesAlwaysAddUp == LibrarySpec => []BatchesAddUp
  <1>1. MessageInv => BatchesAddUp
    BY DEF MessageInv, BatchesAddUp, messages!BatchesAddUp, Side, messages!Kept, messages!Result,
           Added, Deleted
  <1> QED
    BY <1>1, LibraryInvariance, PTL

\* The numbers before a line of the message are its places in the texts (msg.cpp:26-49).
THEOREM MessagesAreTrue == LibrarySpec => []MessageIsTrue
  <1>1. MessageInv => MessageIsTrue
    BY DoneIsTrue DEF MessageIsTrue
  <1> QED
    BY <1>1, LibraryInvariance, PTL

\* A message is empty if the lines that count are the same, and only then (msg.cpp:53-69,
\* :71-121, msg.hpp:29).
THEOREM EmptyMessagesMeanSame == LibrarySpec => []EmptyMessageMeansSame
  <1>1. MessageInv => EmptyMessageMeansSame
    BY DoneMeansSame DEF EmptyMessageMeansSame
  <1> QED
    BY <1>1, LibraryInvariance, PTL
===============================================================================
