----------------------------- MODULE EditScripts ------------------------------
(***************************************************************************)
(* What diff::myers_diff promises (diff/myers_diff.hpp:31 and :211): a list  *)
(* of edits that turns one array into another, with as few additions and     *)
(* deletions as there can be. An edit is EQ (keep a value), ADD or DEL.      *)
(* Module MyersDiff is the algorithm; DiffMessage uses what is promised here. *)
(***************************************************************************)
EXTENDS Naturals, FiniteSetsExt, SequencesExt

\* Where a list of edits may stand: so much of a used, so much of b made.
Corners(a, b) == (0 .. Len(a)) \X (0 .. Len(b))

\* The length of a longest common subsequence of a and b.
LcsLength(a, b) ==
  LET len[p \in Corners(a, b)] ==
        IF p[1] = 0 \/ p[2] = 0 THEN 0
        ELSE IF a[p[1]] = b[p[2]] THEN len[<<p[1] - 1, p[2] - 1>>] + 1
        ELSE Max({len[<<p[1] - 1, p[2]>>], len[<<p[1], p[2] - 1>>]})
  IN  len[<<Len(a), Len(b)>>]

\* The fewest additions and deletions that turn a into b.
EditDistance(a, b) == Len(a) + Len(b) - 2 * LcsLength(a, b)

\* The edits of a list but those of one action.
Without(action, script) ==
  FlattenSeq([i \in DOMAIN script |->
                IF script[i].action = action THEN <<>> ELSE <<script[i]>>])

\* The two sides of a list of edits: what it starts from and what it results in.
Kept(script) == Without("ADD", script)
Result(script) == Without("DEL", script)
Changes(script) == Without("EQ", script)

ValuesOf(script) == [i \in DOMAIN script |-> script[i].val]

IsEditScript(script, a, b) ==
  ValuesOf(Kept(script)) = a /\ ValuesOf(Result(script)) = b

IsMinimal(script, a, b) == Len(Changes(script)) = EditDistance(a, b)

\* Every list of edits that turns a into b.
Scripts(a, b) ==
  LET edit(action, val) == [action |-> action, val |-> val]
      upto[p \in Corners(a, b)] ==
        (IF p = <<0, 0>> THEN {<<>>} ELSE {})
        \cup (IF p[1] > 0
                THEN {Append(s, edit("DEL", a[p[1]])) : s \in upto[<<p[1] - 1, p[2]>>]}
                ELSE {})
        \cup (IF p[2] > 0
                THEN {Append(s, edit("ADD", b[p[2]])) : s \in upto[<<p[1], p[2] - 1>>]}
                ELSE {})
        \cup (IF p[1] > 0 /\ p[2] > 0 /\ a[p[1]] = b[p[2]]
                THEN {Append(s, edit("EQ", a[p[1]])) : s \in upto[<<p[1] - 1, p[2] - 1>>]}
                ELSE {})
  IN  upto[<<Len(a), Len(b)>>]

MinimalScripts(a, b) == {s \in Scripts(a, b) : IsMinimal(s, a, b)}
===============================================================================
