------------------------------ MODULE GrepScan ------------------------------
(***************************************************************************)
(* grep (commands/grep.cpp): which lines of its files are printed, with    *)
(* what context, and the status.  A file is [lines, binary, readable], a   *)
(* line being whether a pattern matches it.  What is printed is a sequence *)
(* of [kind, file, number, mark]: lines with the mark "-" for context, a   *)
(* separator, the name or the count of a file, and the notice that a       *)
(* binary file matches.                                                    *)
(***************************************************************************)
EXTENDS Integers, Sequences, SequencesExt, Selections

Entry(kind, f, n, mark) == [kind |-> kind, file |-> f, number |-> n, mark |-> mark]
Separator == Entry("sep", 0, 0, "")

\* The lines of a file that -v, and -m after them, leave: their numbers.  -m 0
\* is looked at after the first one.
match_indices(cfg, lines) ==
    LET all == Listed(Len(lines), {i \in DOMAIN lines : lines[i] # cfg.invert})
    IN  IF cfg.max >= 0 /\ Len(all) > cfg.max
        THEN SubSeq(all, 1, IF cfg.max = 0 THEN 1 ELSE cfg.max) ELSE all

contextRanges(cfg, lines, hits) ==
    [k \in DOMAIN hits |->
       [first |-> IF hits[k] > cfg.before THEN hits[k] - cfg.before ELSE 1,
        last  |-> IF hits[k] + cfg.after > Len(lines) THEN Len(lines) ELSE hits[k] + cfg.after]]

\* Ranges that overlap or touch become one.
MergeInto(all, r) ==
    LET n == Len(all)
    IN  IF n = 0 \/ r.first > all[n].last + 1 THEN Append(all, r)
        ELSE IF r.last > all[n].last THEN [all EXCEPT ![n] = [first |-> all[n].first, last |-> r.last]]
        ELSE all

merged(ranges) ==
    LET upto[k \in 0..Len(ranges)] ==
          IF k = 0 THEN <<>> ELSE MergeInto(upto[k - 1], ranges[k])
    IN  upto[Len(ranges)]

useContext(cfg) == /\ cfg.before > 0 \/ cfg.after > 0
                   /\ cfg.show = "lines"

\* What one file prints: the groups in order, a separator between two of them.
scan_text(cfg, f, file) ==
    LET hits == match_indices(cfg, file.lines)
        mark(i) == IF i \in ToSet(hits) THEN ":" ELSE "-"
        groups == merged(contextRanges(cfg, file.lines, hits))
        group(g) == [k \in 1..g.last - g.first + 1 |-> Entry("line", f, g.first + k - 1, mark(g.first + k - 1))]
    IN  IF cfg.quiet \/ cfg.show # "lines" \/ (file.binary /\ cfg.binaryFiles = "binary") THEN <<>>
        ELSE IF useContext(cfg)
        THEN FlattenSeq([n \in DOMAIN groups |->
                           (IF n > 1 THEN <<Separator>> ELSE <<>>) \o group(groups[n])])
        ELSE [k \in DOMAIN hits |-> Entry("line", f, hits[k], ":")]

\* The lines a file has for the purposes of the count and the status.
selected_count(cfg, file) ==
    IF file.binary /\ cfg.binaryFiles = "without-match" THEN 0
    ELSE Len(match_indices(cfg, file.lines))

\* What is printed about a file after its lines.
Summary(cfg, f, file) ==
    LET n == selected_count(cfg, file)
    IN  CASE cfg.quiet -> <<>>
          [] ~cfg.quiet /\ n > 0 /\ file.binary /\ cfg.binaryFiles = "binary" -> <<Entry("binary", f, 0, "")>>
          [] OTHER -> IF (cfg.show = "with" /\ n > 0) \/ (cfg.show = "without" /\ n = 0)
                      THEN <<Entry("name", f, 0, "")>>
                      ELSE IF cfg.show = "count" THEN <<Entry("count", f, n, "")>> ELSE <<>>

\* One file; -q looks no further once something was found.
GrepFile(cfg, f, file, s) ==
    LET lines == IF file.binary /\ cfg.binaryFiles = "without-match" THEN <<>> ELSE scan_text(cfg, f, file)
    IN  CASE cfg.quiet /\ s.found -> s
          [] ~(cfg.quiet /\ s.found) /\ ~file.readable -> [s EXCEPT !.bad = TRUE]
          [] OTHER -> [s EXCEPT !.out = @ \o lines \o Summary(cfg, f, file),
                                !.found = @ \/ selected_count(cfg, file) > 0]

\* process: [out, status].
grep(cfg, files) ==
    LET after[k \in 0..Len(files)] ==
          IF k = 0 THEN [out |-> <<>>, found |-> FALSE, bad |-> FALSE]
          ELSE GrepFile(cfg, k, files[k], after[k - 1])
        s == after[Len(files)]
    IN  [out |-> s.out, status |-> IF s.bad /\ ~cfg.quiet THEN 2 ELSE IF s.found THEN 0 ELSE 1]
==============================================================================
