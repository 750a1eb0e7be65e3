-------------------------------- MODULE Pieces --------------------------------
(***************************************************************************)
(* split, csplit and cut (commands/split.cpp, csplit.cpp, cut.cpp): an     *)
(* input taken apart by bytes, lines, patterns or ranges.                  *)
(***************************************************************************)
EXTENDS Integers, Sequences, FiniteSets, SequencesExt, Selections

CONSTANTS Letters,  \* how many letters a suffix digit has (26)
          IntMax    \* what an open range ends at (INT_MAX)

ASSUME PiecesAssumption == Letters \in Nat \ {0, 1} /\ IntMax \in Nat

------------------------------------------------------------------------------
(* split: [mode : {"bytes", "lines", "lineBytes"}, size : Nat, numeric :    *)
(* BOOLEAN, length : Nat]; the input is a sequence of lines, a line         *)
(* [id, bytes], and "bytes" mode is the one where all have one byte.        *)

Mut_generate_suffix(cfg, part) == <<part % Letters>>

\* Numeric suffixes grow past the length.  The others are a, b, .., z, aa, ..,
\* made from the last character on: `left' is what is left to be written after
\* k characters, and a's are put where nothing is.
generate_suffix(cfg, part) ==
    LET left[k \in 0..cfg.length] ==
          IF k = 0 THEN part ELSE IF left[k - 1] < 0 THEN -1 ELSE (left[k - 1] \div Letters) - 1
        char(n) == IF n < 0 THEN 0 ELSE n % Letters
    IN  IF cfg.numeric THEN <<part>> ELSE [i \in 1..cfg.length |-> char(left[cfg.length - i])]

Bytes(lines) == FoldLeft(LAMBDA n, l : n + l.bytes, 0, lines)

\* How many of the lines from i on go into the next file; one at least.
PieceEnd(cfg, input, i) ==
    LET fits == {j \in i..Len(input) : Bytes(SubSeq(input, i, j)) <= cfg.size}
    IN  IF cfg.mode = "lineBytes"
        THEN IF fits = {} THEN i ELSE CHOOSE j \in fits : \A k \in fits : k <= j
        ELSE IF i + cfg.size - 1 <= Len(input) THEN i + cfg.size - 1 ELSE Len(input)

\* The next file: its name, and the lines from s.i on.
SplitStep(cfg, input, s) ==
    LET end == PieceEnd(cfg, input, s.i)
    IN  IF s.i > Len(input) THEN s
        ELSE [i |-> end + 1,
              files |-> Append(s.files, [name |-> generate_suffix(cfg, Len(s.files)),
                                         lines |-> SubSeq(input, s.i, end)])]

\* The files in the order they are opened; opening truncates.
split(cfg, input) ==
    LET after[k \in 0..Len(input)] ==
          IF k = 0 THEN [i |-> 1, files |-> <<>>] ELSE SplitStep(cfg, input, after[k - 1])
    IN  after[Len(input)].files

\* What is on the disk in the end: the last of the files with a name.
OnDisk(files) ==
    Those(files, {k \in DOMAIN files : \A l \in k + 1..Len(files) : files[l].name # files[k].name})

------------------------------------------------------------------------------
(* csplit: a pattern is [line : Nat] or [match : BOOLEAN lines, skip,       *)
(* offset, repeat]; cfg.suppress is --suppress-matched.                     *)

IsPattern(p) ==
    /\ p.offset \in Int /\ p.repeat \in Nat /\ p.skip \in BOOLEAN
    /\ IF "line" \in DOMAIN p THEN p.line \in Nat /\ "match" \notin DOMAIN p ELSE "match" \in DOMAIN p

Start == [at |-> 0, cuts |-> {0}, hidden |-> {}, ok |-> TRUE]

\* The next line at or after s.at (counted from 0) that the pattern matches.
Matched(input, pat, s) == {l \in s.at..Len(input) - 1 : input[l + 1] = pat.match}
NextMatch(input, pat, s) ==
    CHOOSE l \in Matched(input, pat, s) : \A k \in Matched(input, pat, s) : l <= k

AtZero(x) == IF x < 0 THEN 0 ELSE x
AtEnd(input, x) == AtMost(x, Len(input))

\* A line number, counted from 1.
CutAtLine(input, pat, s) ==
    LET idx == (IF pat.line + pat.offset < 1 THEN 1 ELSE pat.line + pat.offset) - 1
    IN  IF pat.skip
        THEN LET start == AtEnd(input, AtZero(pat.line + pat.offset))
             IN  [s EXCEPT !.at = start, !.cuts = {start}]
        ELSE IF idx > s.at /\ idx <= Len(input)
        THEN [s EXCEPT !.at = idx, !.cuts = @ \cup {idx}]
        ELSE [s EXCEPT !.ok = FALSE]

\* After a match at the current line the search starts at the same line again.
CutAtMatch(cfg, input, pat, s) ==
    LET hit == NextMatch(input, pat, s)
        cut == AtZero(hit + pat.offset)
    IN  IF Matched(input, pat, s) = {} THEN [s EXCEPT !.ok = FALSE]
        ELSE IF pat.skip
        THEN [s EXCEPT !.at = AtEnd(input, cut), !.cuts = {AtEnd(input, cut)}]
        ELSE IF cfg.suppress
        THEN [s EXCEPT !.at = hit + 1, !.cuts = @ \cup {hit, hit + 1}, !.hidden = @ \cup {hit}]
        ELSE [s EXCEPT !.at = cut, !.cuts = IF cut > s.at THEN @ \cup {cut} ELSE @]

\* The last time a pattern is asked for it may not be found.
Again(cfg, input, pat, s, isLast) ==
    LET r == IF "line" \in DOMAIN pat THEN CutAtLine(input, pat, s) ELSE CutAtMatch(cfg, input, pat, s)
    IN  IF s.ok THEN [r EXCEPT !.ok = @ \/ isLast] ELSE s

\* A pattern repeat + 1 times.
Repeated(cfg, input, pat, s) ==
    LET times[n \in 0..pat.repeat + 1] ==
          IF n = 0 THEN s ELSE Again(cfg, input, pat, times[n - 1], n = pat.repeat + 1)
    IN  times[pat.repeat + 1]

Cuts(cfg, input, pats) ==
    LET after[k \in 0..Len(pats)] ==
          IF k = 0 THEN Start ELSE Repeated(cfg, input, pats[k], after[k - 1])
    IN  after[Len(pats)]

\* A piece begins at every cut and ends at the next one.
NextCut(input, cuts, l) == Min({c \in cuts \cup {Len(input)} : c > l})

\* A cut past the end reads lines that are not there: undefined.
csplit(cfg, input, pats) ==
    LET s == Cuts(cfg, input, pats)
        upto(k) == NextCut(input, s.cuts, k - 1)
        kept == {k \in 1..Len(input) : /\ k - 1 \in s.cuts
                                       /\ ~(cfg.suppress /\ k - 1..upto(k) - 1 \subseteq s.hidden)}
    IN  IF ~s.ok THEN [status |-> 1, pieces |-> <<>>, defined |-> TRUE]
        ELSE [status |-> 0, defined |-> \A c \in s.cuts : c <= Len(input),
              pieces |-> Those([k \in 1..Len(input) |-> SubSeq(input, k, upto(k))], kept)]

------------------------------------------------------------------------------
(* cut: [ranges : Seq([first, last]), complement, onlyDelimited : BOOLEAN,  *)
(* delimiter : STRING or "", wraps : BOOLEAN].  A record is a sequence of   *)
(* positions.  INT_MAX + 1 is undefined: it wraps, or the comparison that   *)
(* uses it is done without the limit.                                       *)

Next1(cfg, x) == IF x = IntMax /\ cfg.wraps THEN -IntMax - 1 ELSE x + 1

\* std::sort, by the first position and then by the last.
Ordered(ranges) ==
    LET follows(r, s) == r.first > s.first \/ (r.first = s.first /\ r.last >= s.last)
        at == CHOOSE p \in [DOMAIN ranges -> DOMAIN ranges] :
                /\ {p[k] : k \in DOMAIN ranges} = DOMAIN ranges
                /\ \A j, k \in DOMAIN ranges : j < k => follows(ranges[p[k]], ranges[p[j]])
    IN  [k \in DOMAIN ranges |-> ranges[at[k]]]

\* One more range, into the last of the merged ones where they touch.
MergeRange(cfg, merged, r) ==
    LET n == Len(merged)
    IN  IF n = 0 \/ r.first > Next1(cfg, merged[n].last) THEN Append(merged, r)
        ELSE IF r.last > merged[n].last
        THEN [merged EXCEPT ![n] = [first |-> merged[n].first, last |-> r.last]]
        ELSE merged

merge_ranges(cfg, ranges) ==
    LET merged[k \in 0..Len(ranges)] ==
          IF k = 0 THEN <<>> ELSE MergeRange(cfg, merged[k - 1], Ordered(ranges)[k])
    IN  merged[Len(ranges)]

\* What is left of 1..n before a range; pos is the first position not dealt with.
BeforeRange(cfg, s, r, n) ==
    [pos |-> Next1(cfg, r.last),
     out |-> IF s.pos < r.first
             THEN Append(s.out, [first |-> s.pos, last |-> AtMost(r.first - 1, n)])
             ELSE s.out]

complement_ranges(cfg, ranges, n) ==
    LET merged == merge_ranges(cfg, ranges)
        before[k \in 0..Len(merged)] ==
          IF k = 0 THEN [pos |-> 1, out |-> <<>>]
          ELSE IF k > 1 /\ before[k - 1].pos > n THEN before[k - 1]
          ELSE BeforeRange(cfg, before[k - 1], merged[k], n)
        end == before[Len(merged)]
    IN  IF end.pos <= n THEN Append(end.out, [first |-> end.pos, last |-> n]) ELSE end.out

effective_ranges(cfg, n) ==
    IF cfg.complement THEN complement_ranges(cfg, cfg.ranges, n) ELSE cfg.ranges

is_selected(i, ranges) == \E k \in DOMAIN ranges : i \in ranges[k].first..ranges[k].last

\* A delimiter before every range but the first, even where nothing is left.
cut_bytes_or_chars(cfg, n) ==
    LET merged == merge_ranges(cfg, effective_ranges(cfg, n))
        delim(k) == IF k > 1 /\ cfg.delimiter THEN <<0>> ELSE <<>>
    IN  FlattenSeq([k \in DOMAIN merged |-> delim(k) \o Listed(n, merged[k].first..merged[k].last)])

\* n fields; a line without a delimiter is one field and printed whole.
cut_line(cfg, n) ==
    IF n = 1 THEN IF cfg.onlyDelimited THEN <<>> ELSE <<1>>
    ELSE Listed(n, {i \in 1..n : is_selected(i, effective_ranges(cfg, n))})

cut(cfg, n) == IF cfg.fields THEN cut_line(cfg, n) ELSE cut_bytes_or_chars(cfg, n)
==============================================================================
