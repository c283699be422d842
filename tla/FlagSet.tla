------------------------------- MODULE FlagSet --------------------------------
(***************************************************************************)
(* flag::FlagSet (flag/flag.hpp, flag/src/flag.cpp): parse() on sets and      *)
(* variable maps that a program may use again, and what it says to the       *)
(* global logger. boost::program_options is modelled as parse() uses it: an   *)
(* option that was added twice is ambiguous when it is given, store() keeps   *)
(* what a map has, and a value that does not convert ends store() midway.     *)
(***************************************************************************)
EXTENDS Logging

CONSTANTS
  Sets,     \* FlagSet objects
  Vars,     \* variables_map objects
  MaxParses \* bound: the times one set is parsed

VARIABLES
  helps,   \* how often flags_ of each set has the option help
  helped   \* the maps in which help is stored

flagVars == <<vars, helps, helped>>

\* The arguments: is --help among them, and what is wrong with the others. An unknown
\* option stops the parser, a bad value stops store(), a missing one stops notify().
Args == [help : BOOLEAN, others : {"good", "unknown", "bad_value", "missing"}]

Parsing == last.call = "parse" /\ last.result = "storing"

-------------------------------------------------------------------------------

\* parse() adds help to the flags and runs the parser.
Parse(set, vm, args) ==
  /\ ~Parsing
  /\ helps[set] < MaxParses
  /\ helps' = [helps EXCEPT ![set] = @ + 1]
  /\ last' = [call |-> "parse", set |-> set, vm |-> vm, args |-> args, result |-> "storing"]
  /\ UNCHANGED <<logger, log_level_, said, helped>>

Ambiguous == last.args.help /\ helps[last.set] > 1

\* The call ends with this result, unless it reports at this level and a logger of the
\* program's own throws.
Returns(result) == last' = [last EXCEPT !.result = result] /\ UNCHANGED said

Reports(level) ==
  /\ said' \in Outcomes(level)
  /\ last' = [last EXCEPT !.result = IF said' = "thrown" THEN "thrown" ELSE "false"]

\* opt::store throws, and the catch reports it.
StoreFails ==
  /\ Parsing
  /\ Ambiguous \/ last.args.others \in {"unknown", "bad_value"}
  /\ Reports(ERROR)
  /\ \/ UNCHANGED helped
     \/ /\ last.args.others = "bad_value" /\ last.args.help /\ ~Ambiguous
        /\ helped' = helped \cup {last.vm}
  /\ UNCHANGED <<logger, log_level_, helps>>

\* A bug: help is looked for in the arguments.
MutHasHelp == last.args.help

\* vars.count("help")
HasHelp == last.vm \in helped'

\* The variables are stored. If they have help the usage is the answer, else notify()
\* hands the values to the program or finds one missing.
Stored ==
  /\ Parsing
  /\ ~Ambiguous
  /\ last.args.others \in {"good", "missing"}
  /\ helped' = IF last.args.help THEN helped \cup {last.vm} ELSE helped
  /\ \/ HasHelp /\ Reports(WARN)
     \/ ~HasHelp /\ last.args.others = "missing" /\ Reports(ERROR)
     \/ ~HasHelp /\ last.args.others = "good" /\ Returns("true")
  /\ UNCHANGED <<logger, log_level_, helps>>

-------------------------------------------------------------------------------

FlagInit ==
  /\ Init
  /\ helps = [set \in Sets |-> 0]
  /\ helped = {}

FlagNext ==
  \/ ~Parsing /\ Next /\ UNCHANGED <<helps, helped>>
  \/ \E set \in Sets, vm \in Vars, args \in Args : Parse(set, vm, args)
  \/ StoreFails
  \/ Stored

FlagSpec == FlagInit /\ [][FlagNext]_flagVars

-------------------------------------------------------------------------------

\* Sets of flags and variables may be used again: parse() never returns true if help
\* was asked for, now or in an earlier call with the same variables. If it returns false
\* there is a reason: that, or something wrong with the other arguments. The default
\* logger shows the reason at every level that has warnings, and the usage goes out only
\* where help was asked for (flag.cpp:51-81, logs.hpp:115-136).
ParseTellsWhy ==
  [][ Parsing =>
        LET asked == last.args.help \/ last.vm \in helped IN
        /\ last'.result = "true" => ~asked /\ last.args.others = "good"
        /\ last'.result = "false" => asked \/ last.args.others # "good"
        /\ logger = "default" =>
             /\ last'.result = "false" /\ log_level_ >= WARN => said' \in {"warning", "error"}
             /\ said' = "warning" /\ said # "warning" => asked
    ]_flagVars
===============================================================================
