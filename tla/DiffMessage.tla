----------------------------- MODULE DiffMessage ------------------------------
(***************************************************************************)
(* diff::diff_lines and diff::safe_diff_msg (diff/src/msg.cpp): two texts are *)
(* read line by line, compared in batches of limited size and shown as the   *)
(* lines that differ with some lines around them.                           *)
(*                                                                         *)
(* Every batch calls myers_diff, of which only the promise of EditScripts is *)
(* used: any shortest list of edits may come back. The lengths stay where    *)
(* IndexT is wide enough; what happens beyond is in module MyersDiff.        *)
(*                                                                         *)
(* A line is <<text, padded>>: its text, which may be Empty, and whether     *)
(* there are spaces around it. A batch limit of 0 would recurse forever and  *)
(* is left out.                                                             *)
(***************************************************************************)
EXTENDS Integers, EditScripts

CONSTANTS
  Texts,        \* the texts of lines, other than Empty
  Empty,        \* the text of a line without characters
  MaxLen,       \* bound on the number of lines
  Limits,       \* the values of batch_limit
  LinesBefore,  \* lines_before
  LinesAfter    \* lines_after

ASSUME LimitsArePositive == Limits \subseteq Nat \ {0}

ASSUME LinesAreCounted == LinesBefore \in Nat /\ LinesAfter \in Nat

ASSUME EmptyIsNoText == Empty \notin Texts

VARIABLES
  left, right,  \* the texts given to diff_lines
  ignore_empty_lines, trim_spaces, batch_limit,
  phase,        \* "read", "batch" or "done"
  expect, got,  \* the lines that are compared
  restE, restG, \* those that the recursion still has to compare
  diffs         \* the edits it has collected

vars == <<left, right, ignore_empty_lines, trim_spaces, batch_limit, phase, expect, got,
          restE, restG, diffs>>

inputVars == <<left, right, ignore_empty_lines, trim_spaces, batch_limit>>

-------------------------------------------------------------------------------

Lines == (Texts \cup {Empty}) \X BOOLEAN

Trimmed(line) == IF trim_spaces THEN <<line[1], FALSE>> ELSE line

Considered(line) == ~ignore_empty_lines \/ line # <<Empty, FALSE>>

\* A bug: empty lines are taken out before the spaces are.
MutProcessLines(text) ==
  FlattenSeq([i \in DOMAIN text |-> IF Considered(text[i]) THEN <<Trimmed(text[i])>> ELSE <<>>])

\* process_lines
ProcessLines(text) ==
  LET line(i) == Trimmed(text[i]) IN
  FlattenSeq([i \in DOMAIN text |-> IF Considered(line(i)) THEN <<line(i)>> ELSE <<>>])

Read ==
  /\ phase = "read"
  /\ expect' = ProcessLines(left)
  /\ got' = ProcessLines(right)
  /\ restE' = ProcessLines(left)
  /\ restG' = ProcessLines(right)
  /\ phase' = "batch"
  /\ UNCHANGED <<inputVars, diffs>>

Fit == Len(restE) <= batch_limit /\ Len(restG) <= batch_limit

\* What is left is compared at once.
LastBatch ==
  /\ phase = "batch"
  /\ Fit
  /\ \E s \in MinimalScripts(restE, restG) : diffs' = diffs \o s
  /\ restE' = <<>>
  /\ restG' = <<>>
  /\ phase' = "done"
  /\ UNCHANGED <<inputVars, expect, got>>

Prefix(lines) == SubSeq(lines, 1, Min({batch_limit, Len(lines)}))

\* A bug: the edits of a batch end before the last common line.
MutDiffEnd(s) ==
  LET common == {i \in DOMAIN s : s[i].action = "EQ"}
  IN  IF common = {} THEN Len(s) ELSE Max(common) - 1

\* The edits of a batch up to the last common line, or all if there is none.
DiffEnd(s) ==
  LET common == {i \in DOMAIN s : s[i].action = "EQ"}
  IN  IF common = {} THEN Len(s) ELSE Max(common)

\* A bug: the whole batch counts as compared.
MutRestBatch(lines, used) == SubSeq(lines, Min({batch_limit, Len(lines)}) + 1, Len(lines))

\* What is left of the lines once those of the collected edits are used.
Rest(lines, used) == SubSeq(lines, Len(used) + 1, Len(lines))

\* The start of each side is compared, and the rest starts behind the last common
\* line: what differs after it is compared again, with more lines in view.
Batch ==
  /\ phase = "batch"
  /\ ~Fit
  /\ \E s \in MinimalScripts(Prefix(restE), Prefix(restG)) :
       LET collected == SubSeq(s, 1, DiffEnd(s)) IN
         /\ diffs' = diffs \o collected
         /\ restE' = Rest(restE, Kept(collected))
         /\ restG' = Rest(restG, Result(collected))
  /\ UNCHANGED <<inputVars, phase, expect, got>>

-------------------------------------------------------------------------------
\* to_string: the lines of the message.

\* A line is shown if it is near one that differs.
Shown(i) ==
  \E j \in DOMAIN diffs : diffs[j].action # "EQ" /\ i \in j - LinesBefore .. j + LinesAfter

\* A bug: an added line advances both counters.
MutNumbers(before) == <<Len(Changes(before)), Len(Result(before))>>

\* The counters oidx and uidx behind the given edits.
Numbers(before) == <<Len(Kept(before)), Len(Result(before))>>

Message ==
  LET line(i) == [action |-> diffs[i].action, val |-> diffs[i].val,
                  at |-> Numbers(SubSeq(diffs, 1, i - 1))]
  IN  FlattenSeq([i \in DOMAIN diffs |-> IF Shown(i) THEN <<line(i)>> ELSE <<>>])

-------------------------------------------------------------------------------

Init ==
  /\ left \in BoundedSeq(Lines, MaxLen)
  /\ right \in BoundedSeq(Lines, MaxLen)
  /\ ignore_empty_lines \in BOOLEAN
  /\ trim_spaces \in BOOLEAN
  /\ batch_limit \in Limits
  /\ phase = "read"
  /\ expect = <<>>
  /\ got = <<>>
  /\ restE = <<>>
  /\ restG = <<>>
  /\ diffs = <<>>

Next == Read \/ LastBatch \/ Batch

Spec == Init /\ [][Next]_vars

\* The program is sequential and runs on.
FairSpec == Spec /\ WF_vars(Next)

-------------------------------------------------------------------------------

\* Wherever the batches are cut, no line is lost, repeated or moved: the edits so
\* far and the rest make up both texts (msg.cpp:90-120).
BatchesAddUp ==
  /\ ValuesOf(Kept(diffs)) \o restE = expect
  /\ ValuesOf(Result(diffs)) \o restG = got

\* The numbers before a line of the message are its positions in the compared
\* texts, although each batch counts from 0 (msg.cpp:26-49).
MessageIsTrue ==
  phase = "done" =>
    \A i \in DOMAIN Message : LET l == Message[i] IN
      /\ l.action # "ADD" => l.at[1] < Len(expect) /\ expect[l.at[1] + 1] = l.val
      /\ l.action # "DEL" => l.at[2] < Len(got) /\ got[l.at[2] + 1] = l.val

\* The lines that count under the flags, in the form in which they count.
Considerable(text) ==
  LET isBlank(line) == line[1] = Empty /\ (trim_spaces \/ ~line[2])
      form(line) == IF trim_spaces THEN line[1] ELSE line
  IN  FlattenSeq([i \in DOMAIN text |->
                    IF ignore_empty_lines /\ isBlank(text[i]) THEN <<>> ELSE <<form(text[i])>>])

\* msg.hpp:29 "Message is empty if the lines are the same", and only then, under
\* every setting of the flags and in one batch or many: lines that do not count
\* make no difference, and those that do are never lost (msg.cpp:53-69, :71-121).
EmptyMessageMeansSame ==
  phase = "done" => (Message = <<>> <=> Considerable(left) = Considerable(right))

\* The recursion ends for every batch limit: each batch uses up a line.
Terminates == <>(phase = "done")
===============================================================================
