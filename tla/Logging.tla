------------------------------- MODULE Logging --------------------------------
(***************************************************************************)
(* logs: the global logger (logs/src/logs.cpp), its default implementation   *)
(* DefLogger with a level (logs/logs.hpp), and the lookups and casts of estd  *)
(* that rely on logs::fatal not to return (estd/contain.hpp, estd/cast.hpp).  *)
(*                                                                         *)
(* A program may install a logger of its own, which may do anything with a   *)
(* message. The names of levels are matched letter by letter, although        *)
(* supports_level accepts capital letters, too.                             *)
(***************************************************************************)
EXTENDS Naturals

\* LOG_LEVEL; FATAL is the highest and NOT_SET is none.
FATAL == 0
ERROR == 2
WARN == 3
INFO == 4
TRACE == 6
NOT_SET == 7

\* A string given as the name of a level: the level it names when letters are taken for
\* small ones (NOT_SET if none), and whether it is written in small letters.
Names == [level : 0 .. NOT_SET, small : BOOLEAN]

VARIABLES
  logger,     \* the global logger: "default" or "custom"
  log_level_, \* of the default logger
  said,       \* how the last message came out: "nothing", "error", "warning", "line",
              \* "thrown", or "custom" if the program's logger has returned
  last        \* what the last call of this module was and what came of it

vars == <<logger, log_level_, said, last>>

-------------------------------------------------------------------------------

EnumLog(name) == IF name.small THEN name.level ELSE NOT_SET

\* A bug: a message of the level itself is left out.
MutAdmits(level) == level < log_level_

Admits(level) == level <= log_level_

\* How DefLogger::log shows a message; THROW_ERR is a line like any other.
Shown(level) ==
  CASE ~Admits(level)   -> "nothing"
    [] level = FATAL    -> "thrown"
    [] level = ERROR    -> "error"
    [] level = WARN     -> "warning"
    [] OTHER            -> "line"

\* What may come of a message.
Outcomes(level) == IF logger = "default" THEN {Shown(level)} ELSE {"custom", "thrown"}

\* set_logger; a new DefLogger starts at INFO.
SetLogger(kind) ==
  /\ logger' = kind
  /\ log_level_' = IF kind = "default" THEN INFO ELSE log_level_
  /\ last' = [call |-> "set_logger"]
  /\ UNCHANGED said

SetLogLevel(name) ==
  /\ log_level_' = IF logger = "default" /\ EnumLog(name) # NOT_SET THEN EnumLog(name)
                                                                    ELSE log_level_
  /\ last' = [call |-> "set_log_level"]
  /\ UNCHANGED <<logger, said>>

Log(level) ==
  /\ said' \in Outcomes(level)
  /\ last' = [call |-> "log", level |-> level]
  /\ UNCHANGED <<logger, log_level_>>

\* A message whose level is a string: one that does not name a level counts as TRACE.
LogNamed(name) ==
  LET level == IF EnumLog(name) = NOT_SET THEN TRACE ELSE EnumLog(name) IN
  /\ said' \in Outcomes(level)
  /\ last' = [call |-> "log", level |-> level, name |-> name]
  /\ UNCHANGED <<logger, log_level_>>

\* must_getf of a key that the map does or does not have: without an exception the end
\* of the map is dereferenced.
MustGet(found) ==
  /\ said' \in IF found THEN {said} ELSE Outcomes(FATAL)
  /\ last' = [call |-> "must_getf",
              result |-> IF found THEN "element"
                         ELSE IF said' = "thrown" THEN "none" ELSE "undefined"]
  /\ UNCHANGED <<logger, log_level_>>

\* must_cast and must_ptr_cast of a null pointer, of an object of another type, or of one
\* that is a T. After a fatal message that returns, the cast of null is tried and reported
\* too, and null is returned.
MustCast(ptr) ==
  /\ said' \in IF ptr = "fits" THEN {said} ELSE Outcomes(FATAL)
  /\ last' = [call |-> "must_cast",
              result |-> IF ptr = "fits" THEN "element"
                         ELSE IF said' = "thrown" THEN "none" ELSE "null"]
  /\ UNCHANGED <<logger, log_level_>>

-------------------------------------------------------------------------------

Init ==
  /\ logger = "default"
  /\ log_level_ = INFO
  /\ said = "nothing"
  /\ last = [call |-> "none"]

Next ==
  \/ \E kind \in {"default", "custom"} : SetLogger(kind)
  \/ \E name \in Names : SetLogLevel(name) \/ LogNamed(name)
  \/ \E level \in 0 .. NOT_SET : Log(level)
  \/ \E found \in BOOLEAN : MustGet(found)
  \/ \E ptr \in {"null", "other", "fits"} : MustCast(ptr)

Spec == Init /\ [][Next]_vars

-------------------------------------------------------------------------------

\* Type invariant.
TypeOK ==
  /\ logger \in {"default", "custom"}
  /\ log_level_ \in FATAL .. TRACE
  /\ said \in {"nothing", "error", "warning", "line", "thrown", "custom"}

\* While the default logger is in place no level that is ever set keeps a fatal message
\* from throwing, so that a failed lookup or cast of estd does not go on: only a logger
\* of the program's own lets one answer with null or with what is behind the end of a
\* map (logs.hpp:131-136, contain.hpp:87-91, cast.hpp:14-25).
FatalStops ==
  /\ last.call \in {"must_getf", "must_cast"} /\ last.result \notin {"element", "none"} =>
       logger = "custom"
  /\ last.call = "log" /\ last.level = FATAL => said \in {"thrown", "custom"}
===============================================================================
