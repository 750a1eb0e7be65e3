------------------------------ MODULE DiffPatch ------------------------------
(***************************************************************************)
(* diff -u (commands/diff.cpp) and patch (commands/patch.cpp): the edits   *)
(* that make one file of another, the hunk that is printed for them, and   *)
(* what a file becomes when the hunk is applied to it.  A file is a        *)
(* sequence of lines, a line a value that is only compared.                *)
(***************************************************************************)
EXTENDS Integers, Sequences, FiniteSets, SequencesExt, Selections

\* The lengths of a beginning of one file and of the other.
Ends(a, b) == (0..Len(a)) \X (0..Len(b))

\* The table compute_lcs_optimized fills, entry by entry.
lcs(a, b) ==
    LET t[e \in Ends(a, b)] ==
          LET i == e[1]
              j == e[2]
          IN  IF i = 0 \/ j = 0 THEN 0
              ELSE IF a[i] = b[j] THEN t[<<i - 1, j - 1>>] + 1
              ELSE AtLeast(t[<<i - 1, j>>], t[<<i, j - 1>>])
    IN  t

Edit(type, i, j) == [type |-> type, one |-> i, two |-> j]

Mut_backtrack_lcs(table, a, b) ==
    LET upto[e \in Ends(a, b)] ==
          LET i == e[1]
              j == e[2]
          IN  IF i = 0 /\ j = 0 THEN <<>>
              ELSE IF i > 0 /\ j > 0 /\ a[i] = b[j]
              THEN Append(upto[<<i - 1, j - 1>>], Edit("KEEP", i, j))
              ELSE IF j > 0 /\ (i = 0 \/ table[<<i, j - 1>>] <= table[<<i - 1, j>>])
              THEN Append(upto[<<i, j - 1>>], Edit("INS", i + 1, j))
              ELSE Append(upto[<<i - 1, j>>], Edit("DEL", i, j + 1))
    IN  upto[<<Len(a), Len(b)>>]

\* From the ends of both files back to their beginnings.
backtrack_lcs(table, a, b) ==
    LET upto[e \in Ends(a, b)] ==
          LET i == e[1]
              j == e[2]
          IN  IF i = 0 /\ j = 0 THEN <<>>
              ELSE IF i > 0 /\ j > 0 /\ a[i] = b[j]
              THEN Append(upto[<<i - 1, j - 1>>], Edit("KEEP", i, j))
              ELSE IF j > 0 /\ (i = 0 \/ table[<<i, j - 1>>] >= table[<<i - 1, j>>])
              THEN Append(upto[<<i, j - 1>>], Edit("INS", i + 1, j))
              ELSE Append(upto[<<i - 1, j>>], Edit("DEL", i, j + 1))
    IN  upto[<<Len(a), Len(b)>>]

compute_diff(a, b) == IF a = b THEN <<>> ELSE backtrack_lcs(lcs(a, b), a, b)

EditLine(a, b, e) == IF e.type = "INS" THEN b[e.two] ELSE a[e.one]

\* The lines a hunk's header names, counted from 0: from the first changed one
\* less the context to the last one and the context.
Span(changed, length, context) ==
    LET first == IF changed = {} THEN length ELSE (CHOOSE x \in changed : \A y \in changed : x <= y) - 1
        last  == IF changed = {} THEN 0 ELSE CHOOSE x \in changed : \A y \in changed : x >= y
    IN  [start |-> AtLeast(first - context, 0), end |-> AtMost(last + context, length)]

\* Edits that follow one another are one line apart at most, so there is one
\* hunk, and its body prints every edit: no context is left to add.
output_unified_diff(a, b, context) ==
    LET edits == compute_diff(a, b)
        one == Span({edits[k].one : k \in {l \in DOMAIN edits : edits[l].type = "DEL"}}, Len(a), context)
        two == Span({edits[k].two : k \in {l \in DOMAIN edits : edits[l].type = "INS"}}, Len(b), context)
    IN  IF edits = <<>> THEN <<>>
        ELSE <<[old |-> [start |-> one.start + 1, count |-> one.end - one.start],
                new |-> [start |-> two.start + 1, count |-> two.end - two.start],
                body |-> [k \in DOMAIN edits |->
                            [type |-> edits[k].type, line |-> EditLine(a, b, edits[k])]]]>>

\* A count below 0 is printed as an unsigned number that std::stoi refuses, and
\* the lines of a hunk whose header is refused are skipped.
parse_hunk(hunk) == hunk.old.count >= 0 /\ hunk.new.count >= 0

BodyLines(body, keep) == LET s == Those(body, keep) IN [k \in DOMAIN s |-> s[k].line]

OldLines(hunk) == BodyLines(hunk.body, {k \in DOMAIN hunk.body : hunk.body[k].type # "INS"})
NewLines(hunk) == BodyLines(hunk.body, {k \in DOMAIN hunk.body : hunk.body[k].type # "DEL"})

\* Only as many old lines as the file still has are compared.
HunkMatches(lines, hunk) ==
    \A i \in DOMAIN OldLines(hunk) :
      LET at == hunk.old.start - 1 + i
      IN  at <= Len(lines) => lines[at] = OldLines(hunk)[i]

apply_hunk(lines, hunk) ==
    SubSeq(lines, 1, hunk.old.start - 1) \o NewLines(hunk)
      \o SubSeq(lines, hunk.old.start + hunk.old.count, Len(lines))

\* The whole command on one file: all hunks match, or nothing is written.
patch(lines, hunks) ==
    LET seen == Those(hunks, {k \in DOMAIN hunks : parse_hunk(hunks[k])})
        result[k \in 0..Len(seen)] ==
          IF k = 0 THEN [failed |-> 0, lines |-> lines]
          ELSE LET r == result[k - 1]
               IN  IF HunkMatches(r.lines, seen[k])
                   THEN [r EXCEPT !.lines = apply_hunk(@, seen[k])]
                   ELSE [r EXCEPT !.failed = @ + 1]
        done == result[Len(seen)]
    IN  IF lines = <<>> /\ seen # <<>> THEN [status |-> 1, lines |-> lines]
        ELSE IF done.failed > 0 THEN [status |-> 1, lines |-> lines]
        ELSE [status |-> 0, lines |-> done.lines]

------------------------------------------------------------------------------
(* For the properties.                                                      *)

\* The lines two files have in common, at most: over all ways to choose them.
CommonLines(a, b) ==
    LET chosen == {Those(a, x) : x \in SUBSET DOMAIN a} \cap {Those(b, y) : y \in SUBSET DOMAIN b}
    IN  CHOOSE n \in {Len(s) : s \in chosen} : \A s \in chosen : Len(s) <= n

Kept(edits) == Cardinality({k \in DOMAIN edits : edits[k].type = "KEEP"})

\* The header counts the lines that the body has.
HeaderMatchesBody(hunk) ==
    /\ hunk.old = [start |-> 1, count |-> Len(OldLines(hunk))]
    /\ hunk.new = [start |-> 1, count |-> Len(NewLines(hunk))]
==============================================================================
