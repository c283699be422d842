------------------------------ MODULE MyersDiff -------------------------------
(***************************************************************************)
(* diff::myers_diff and its helpers (diff/myers_diff.hpp), run on every pair *)
(* of small arrays. The forward pass keeps, for each diagonal k = x - y, the *)
(* furthest x that iedit edits reach, and stores the table it had before     *)
(* each round; the backward pass walks through the stored tables from the    *)
(* ends of the arrays to their starts. A step of the model is one round of   *)
(* an outer loop. myers_diff_min_edit runs the rounds of the forward pass     *)
(* and keeps no tables, so it is carried along.                             *)
(*                                                                         *)
(* Every variable and member of type IndexT (int16_t) wraps at Width bits;   *)
(* the arithmetic between two of them is in int and does not. Indices start  *)
(* at 0 as in the code, so orig[i] is orig[i + 1] here.                      *)
(***************************************************************************)
EXTENDS Integers, EditScripts

CONSTANTS
  Vals,    \* the values in the arrays
  MaxLen,  \* bound on the lengths of the arrays
  Width    \* the bits of IndexT

ASSUME LengthsFit == MaxLen \in Nat /\ Width \in Nat /\ MaxLen < 2 ^ (Width - 1)

VARIABLES
  orig, updated,  \* the arrays
  phase,          \* "trace", "backtrace", "done" or "threw"
  iedit,          \* the number of the round
  costs,          \* costs of myers_diff_trace
  traces,         \* its result, a sequence of rows
  min_edits,      \* min_edits of myers_diff_min_edit
  x, y,           \* x and y of myers_diff_backtrace
  points          \* its result

vars == <<orig, updated, phase, iedit, costs, traces, min_edits, x, y, points>>

-------------------------------------------------------------------------------

\* Conversion of an int to IndexT.
IndexT(i) == ((i + 2 ^ (Width - 1)) % (2 ^ Width)) - 2 ^ (Width - 1)

n == Len(orig)
m == Len(updated)
max_edit == IndexT(n + m)

\* The size of a row. It is computed in int; a negative one makes a vector throw.
ncost == 2 * max_edit + 1

\* The entry of diagonal k in a row.
At(row, k) == row[(ncost + k) % ncost]

\* How far the arrays agree from (px, py) on.
Snake(px, py) ==
  LET agree(s) == \A i \in 0 .. s - 1 : orig[px + i + 1] = updated[py + i + 1]
  IN  Max({s \in 0 .. Min({n - px, m - py}) : agree(s)} \cup {0})

\* Diagonal k is reached from diagonal k + 1, by an addition.
TakesNext(row, e, k) ==
  k = -e \/ (k # e /\ At(row, k - 1) < At(row, k + 1))

\* The inner loop of round e for one diagonal.
Diagonal(row, e, k) ==
  LET start == IF TakesNext(row, e, k) THEN At(row, k + 1) ELSE IndexT(At(row, k - 1) + 1)
      end == start + Snake(start, start - k)
  IN  [row |-> [row EXCEPT ![(ncost + k) % ncost] = end],
       cont |-> end < n \/ end - k < m]

\* A bug: the loop over the diagonals does not stop at the end of the arrays.
MutStopsAt(r) == FALSE

StopsAt(r) == ~r.cont

\* Round e: the diagonals -e, -e + 2, ..., e until the ends are reached.
Round(row, e) ==
  LET after[i \in 0 .. e] ==
        LET before == IF i = 0 THEN [row |-> row, cont |-> TRUE] ELSE after[i - 1]
        IN  IF StopsAt(before) THEN before ELSE Diagonal(before.row, e, 2 * i - e)
  IN  after[e]

\* How many rows myers_diff_backtrace finds in the flat trace. Its own ncost is
\* an IndexT; a negative one divides as a size_t larger than any trace.
RowsFound(rows) ==
  LET width == IndexT(2 * (n + m) + 1)
  IN  IF width > 0 THEN IndexT((rows * ncost) \div width) ELSE 0

\* One round of the forward pass. The minimum-edit loop has one round less.
TraceRound ==
  LET r == Round(costs, iedit)
      over == ~r.cont \/ IndexT(iedit + 1) > max_edit
  IN
  /\ phase = "trace"
  /\ traces' = Append(traces, costs)
  /\ costs' = r.row
  /\ min_edits' = IF ~r.cont /\ iedit < max_edit THEN iedit ELSE min_edits
  /\ IF over
       THEN /\ iedit' = RowsFound(iedit + 1) - 1
            /\ phase' = IF RowsFound(iedit + 1) > 0 THEN "backtrace" ELSE "done"
       ELSE iedit' = iedit + 1 /\ phase' = phase
  /\ UNCHANGED <<orig, updated, x, y, points>>

\* One round of the backward pass: back along the common values, then one edit.
BacktraceRound ==
  LET row == traces[iedit + 1]
      prev_k == IF TakesNext(row, iedit, x - y) THEN x - y + 1 ELSE x - y - 1
      prev_x == At(row, prev_k)
      prev_y == IndexT(prev_x - prev_k)
      common == Max({0, Min({x - prev_x, y - prev_y})})
  IN
  /\ phase = "backtrace"
  /\ points' = points \o [i \in 1 .. common |-> <<x - i, y - i>>]
                      \o (IF iedit > 0 THEN <<<<prev_x, prev_y>>>> ELSE <<>>)
  /\ x' = prev_x
  /\ y' = prev_y
  /\ iedit' = iedit - 1
  /\ phase' = IF iedit = 0 THEN "done" ELSE phase
  /\ UNCHANGED <<orig, updated, costs, traces, min_edits>>

\* myers_diff: an edit for each step from one point to the next, then reversed.
Edit(from, to) ==
  IF to[1] = from[1]
    THEN [val |-> updated[to[2] + 1], orig |-> -1, updated |-> to[2], action |-> "ADD"]
  ELSE IF to[2] = from[2]
    THEN [val |-> orig[to[1] + 1], orig |-> to[1], updated |-> -1, action |-> "DEL"]
    ELSE [val |-> orig[to[1] + 1], orig |-> to[1], updated |-> to[2], action |-> "EQ"]

Diffs ==
  Reverse([i \in 1 .. Len(points) |->
             Edit(IF i = 1 THEN <<n, m>> ELSE points[i - 1], points[i])])

-------------------------------------------------------------------------------

Init ==
  /\ orig \in BoundedSeq(Vals, MaxLen)
  /\ updated \in BoundedSeq(Vals, MaxLen)
  /\ phase = IF max_edit < 0 THEN "threw" ELSE "trace"
  /\ iedit = 0
  /\ costs = [i \in 0 .. ncost - 1 |-> 0]
  /\ traces = <<>>
  /\ min_edits = max_edit
  /\ x = n
  /\ y = m
  /\ points = <<>>

Next == TraceRound \/ BacktraceRound

Spec == Init /\ [][Next]_vars

-------------------------------------------------------------------------------

\* The lengths for which the row size of the backward pass is not negative.
Fits == 2 * (n + m) + 1 < 2 ^ (Width - 1)

\* The backward pass is on a shortest way: from where it stands, as many edits
\* lead back to the starts of the arrays as there are rounds left, whichever of
\* the equally long ways the tables hold (myers_diff.hpp:151-180).
BacktraceIsShortest ==
  phase = "backtrace" =>
    EditDistance(SubSeq(orig, 1, x), SubSeq(updated, 1, y)) = iedit

\* The result is a list of edits from orig to updated, the positions in it are
\* those of its values, in order, and it has as few additions and deletions as
\* possible: as many as myers_diff_min_edit says, although that stops one round
\* earlier (myers_diff.hpp:31, :47, :191-206 and :211).
DiffIsShortest ==
  phase = "done" =>
    /\ min_edits = EditDistance(orig, updated)
    /\ Fits =>
         /\ IsEditScript(Diffs, orig, updated)
         /\ [i \in 1 .. n |-> Kept(Diffs)[i].orig] = [i \in 1 .. n |-> i - 1]
         /\ [i \in 1 .. m |-> Result(Diffs)[i].updated] = [i \in 1 .. m |-> i - 1]
         /\ IsMinimal(Diffs, orig, updated)

-------------------------------------------------------------------------------
\* A statement of the repository that the code does not keep.

\* diff/msg.hpp:29-31: "Message is empty if the lines are the same", "the product
\* of size of the vectors is roughly limited to 2^32", the square of the range of
\* IndexT: below that limit an empty result says that the arrays are the same.
EmptyDiffMeansSame ==
  phase = "done" /\ n * m < 2 ^ (2 * Width) /\ Diffs = <<>> => orig = updated
===============================================================================
