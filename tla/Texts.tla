-------------------------------- MODULE Texts ---------------------------------
(***************************************************************************)
(* The loops over strings of fmts (fmts/fmts.hpp, fmts/src/fmts.cpp) and estd  *)
(* (estd/src/strs.cpp): split, the escape of array symbols by fmts::String,   *)
(* strip and trim, has_prefix and has_affix, each in one call with any text   *)
(* and argument. Positions count from 1.                                    *)
(***************************************************************************)
EXTENDS Naturals, SequencesExt

CONSTANTS
  Chars,
  Marks,      \* the array symbols, a subset of Chars
  arr_delim,  \* the mark that goes before every mark
  MaxLen,     \* bound: length of a text
  MaxArg,     \* bound: length of a delimiter, prefix or affix
  MaxPieces   \* bound: pieces after which a split is not followed any more

VARIABLES
  call,     \* the function, its text and its argument
  text,     \* the text as it is by now
  i, size,  \* position and size in the loop of String
  out,      \* the pieces found by split, or the answers of the comparisons
  pc        \* "idle", "loop" or "done"

vars == <<call, text, i, size, out, pc>>

-------------------------------------------------------------------------------

Occurs(s, delim, k) == SubSeq(s, k, k + Len(delim) - 1) = delim

\* std::string::find(delim, 0); 0 if there is none.
Find(s, delim) ==
  SelectInSeq([k \in 1 .. Len(s) + 1 |-> k],
              LAMBDA k : k + Len(delim) - 1 <= Len(s) /\ Occurs(s, delim, k))

\* The string with what find_if passes over gone.
LStrip(s, cset) ==
  LET first == SelectInSeq(s, LAMBDA c : c \notin cset) IN
  IF first = 0 THEN <<>> ELSE SubSeq(s, first, Len(s))

RStrip(s, cset) ==
  LET last == SelectLastInSeq(s, LAMBDA c : c \notin cset) IN SubSeq(s, 1, last)

Strip(s, cset) == RStrip(LStrip(s, cset), cset)

\* std::equal up to the end of the shorter string
HasPrefix(str, prefix) ==
  LET len == IF Len(str) < Len(prefix) THEN Len(str) ELSE Len(prefix) IN
  SubSeq(str, 1, len) = SubSeq(prefix, 1, len)

HasAffix(str, affix) ==
  /\ Len(str) >= Len(affix)
  /\ SubSeq(str, Len(str) - Len(affix) + 1, Len(str)) = affix

\* arr_to_stream, which join uses
Join(delim, pieces) ==
  IF pieces = <<>> THEN <<>>
  ELSE FoldLeft(LAMBDA s, piece : s \o delim \o piece, Head(pieces), Tail(pieces))

-------------------------------------------------------------------------------

Begin(fn, s, arg) ==
  /\ pc = "idle"
  /\ call' = [fn |-> fn, text |-> s, arg |-> arg]
  /\ text' = s
  /\ size' = Len(s)
  /\ pc' = "loop"
  /\ UNCHANGED <<i, out>>

\* A bug: only one character of the delimiter is skipped.
MutRest(k, delim) == SubSeq(text, k + 1, Len(text))

\* s.substr(i + delim.size())
Rest(k, delim) == SubSeq(text, k + Len(delim), Len(text))

SplitStep ==
  /\ call.fn = "split" /\ pc = "loop"
  /\ Len(out) < MaxPieces
  /\ LET k == Find(text, call.arg) IN
       IF k # 0
         THEN /\ out' = Append(out, SubSeq(text, 1, k - 1))
              /\ text' = Rest(k, call.arg)
              /\ UNCHANGED pc
         ELSE /\ out' = Append(out, text)
              /\ pc' = "done"
              /\ UNCHANGED text
  /\ UNCHANGED <<call, i, size>>

\* String::operator std::string: i and size follow the text as it grows.
EscapeStep ==
  /\ call.fn = "escape" /\ pc = "loop"
  /\ IF i > size
       THEN /\ pc' = "done"
            /\ UNCHANGED <<text, i, size>>
       ELSE IF text[i] \in Marks
         THEN /\ text' = InsertAt(text, i, arr_delim)
              /\ i' = i + 2
              /\ size' = size + 1
              /\ UNCHANGED pc
         ELSE /\ i' = i + 1
              /\ UNCHANGED <<text, size, pc>>
  /\ UNCHANGED <<call, out>>

\* trim is a strip of the white-space symbols.
StripStep ==
  /\ call.fn = "strip" /\ pc = "loop"
  /\ text' = Strip(text, ToSet(call.arg))
  /\ pc' = "done"
  /\ UNCHANGED <<call, i, size, out>>

CompareStep ==
  /\ call.fn = "compare" /\ pc = "loop"
  /\ out' = <<HasPrefix(text, call.arg), HasAffix(text, call.arg)>>
  /\ pc' = "done"
  /\ UNCHANGED <<call, text, i, size>>

-------------------------------------------------------------------------------

Init ==
  /\ call = [fn |-> "none"]
  /\ text = <<>>
  /\ i = 1 /\ size = 0
  /\ out = <<>>
  /\ pc = "idle"

Next ==
  \/ \E s \in BoundedSeq(Chars, MaxLen), arg \in BoundedSeq(Chars, MaxArg) :
       \/ \E fn \in {"split", "strip", "compare"} : Begin(fn, s, arg)
       \/ arg = <<>> /\ Begin("escape", s, arg)
  \/ SplitStep \/ EscapeStep \/ StripStep \/ CompareStep

Spec == Init /\ [][Next]_vars

-------------------------------------------------------------------------------

\* Type invariant.
TypeOK ==
  /\ text \in Seq(Chars)
  /\ i \in 1 .. size + 1
  /\ pc \in {"idle", "loop", "done"}

\* While split runs, its pieces and the rest are the text again when they are joined
\* with the delimiter, and each piece ends at the first delimiter behind it, overlapping
\* ones included. So join takes back what split did, for every delimiter but the empty
\* one, with which split does not come to an end (fmts.cpp:77-90, fmts.hpp:104-118).
SplitIsExact ==
  call.fn = "split" =>
    /\ Join(call.arg, IF pc = "done" THEN out ELSE Append(out, text)) = call.text
    /\ \A k \in DOMAIN out :
         IF pc = "done" /\ k = Len(out) THEN Find(out[k], call.arg) = 0
                                       ELSE Find(out[k] \o call.arg, call.arg) = Len(out[k]) + 1
    /\ call.arg = <<>> => pc # "done"

\* The loop of String inserts into the text it runs over: at its end every mark, and
\* nothing else, has one arr_delim before it (fmts.hpp:42-59).
EscapeIsExact ==
  call.fn = "escape" /\ pc = "done" =>
    text = FlattenSeq([k \in DOMAIN call.text |->
                         IF call.text[k] \in Marks THEN <<arr_delim, call.text[k]>>
                                                   ELSE <<call.text[k]>>])

\* strip takes the members of the set off both ends and nothing else, all of the text
\* if it has no other character (fmts.cpp:36-75).
StripIsExact ==
  call.fn = "strip" /\ pc = "done" =>
    LET cset == ToSet(call.arg) IN
    /\ text # <<>> => Head(text) \notin cset /\ Last(text) \notin cset
    /\ \E k \in 0 .. Len(call.text) :
         /\ SubSeq(call.text, k + 1, k + Len(text)) = text
         /\ \A j \in DOMAIN call.text \ (k + 1 .. k + Len(text)) : call.text[j] \in cset

\* has_affix is the suffix relation, but has_prefix also accepts a string that is itself
\* a prefix of what is asked for, the empty string among them (strs.cpp:8-28).
CompareIsExact ==
  call.fn = "compare" /\ pc = "done" =>
    out = <<IsPrefix(call.arg, text) \/ IsPrefix(text, call.arg), IsSuffix(call.arg, text)>>

\* Every function answers with what its definition above says.
ResultsAreExact == SplitIsExact /\ EscapeIsExact /\ StripIsExact /\ CompareIsExact
===============================================================================
