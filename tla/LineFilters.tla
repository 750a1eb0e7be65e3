----------------------------- MODULE LineFilters -----------------------------
(***************************************************************************)
(* The commands that read lines and print lines: comm, uniq, join, grep,   *)
(* sort, split, csplit, cut and diff with patch; and what a command line   *)
(* goes through before: the patterns in it, the dispatcher and the option  *)
(* parser.  A task is one command line with its input, and one step runs   *)
(* it.  What is computed is in the modules this one extends; here are the  *)
(* promises the result is held to.                                         *)
(***************************************************************************)
EXTENDS LineTools, GrepScan, SortLines, Pieces, DiffPatch, Options, Wildcard

CONSTANTS Tasks   \* [command name -> its tasks, as a sequence of sets]

TasksOf(c) == UNION {Tasks[c][k] : k \in DOMAIN Tasks[c]}

IsSequence(s) == s \in Seq(ToSet(s))

\* comm reads two files of lines, and hides columns.
ASSUME CommReadsFiles ==
    \A t \in TasksOf("comm") :
      /\ t.a \in Seq(Int) /\ t.b \in Seq(Int)
      /\ t.cfg.hide \subseteq 1..3 /\ t.cfg.checkOrder \in BOOLEAN

\* uniq reads records, which have their places as identities.
ASSUME UniqReadsRecords ==
    \A t \in TasksOf("uniq") :
      /\ IsSequence(t.records)
      /\ \A i, j \in DOMAIN t.records : i # j => t.records[i] # t.records[j]

\* join reads two files of lines, which are sequences of characters.
ASSUME JoinReadsFiles ==
    \A t \in TasksOf("join") :
      /\ IsSequence(t.a) /\ IsSequence(t.b)
      /\ \A line \in ToSet(t.a) \cup ToSet(t.b) : IsSequence(line)
      /\ t.cfg.field1 \in Nat /\ t.cfg.field2 \in Nat
      /\ t.cfg.only \subseteq {1, 2}

\* grep reads files of lines; what it shows is one of the four.
ASSUME GrepReadsFiles ==
    \A t \in TasksOf("grep") :
      /\ IsSequence(t.files)
      /\ \A f \in ToSet(t.files) : /\ f.lines \in Seq(BOOLEAN)
                                   /\ f.binary \in BOOLEAN /\ f.readable \in BOOLEAN
      /\ t.cfg.invert \in BOOLEAN /\ t.cfg.quiet \in BOOLEAN /\ t.cfg.max \in Int
      /\ t.cfg.before \in Nat /\ t.cfg.after \in Nat
      /\ t.cfg.show \in {"lines", "with", "without", "count"}

\* diff and patch read two files of lines.
ASSUME DiffReadsFiles ==
    \A t \in TasksOf("diff") : IsSequence(t.a) /\ IsSequence(t.b) /\ t.context \in Nat

\* sort reads files of lines.
ASSUME SortReadsLines ==
    \A t \in TasksOf("sort") : t.cfg \in SortConfig /\ t.files \in Seq(Seq(Line))

\* split reads lines and puts at least one into a file; a suffix has a character.
ASSUME SplitReadsLines ==
    \A t \in TasksOf("split") :
      IsSequence(t.input) /\ t.cfg.size \in Nat \ {0} /\ t.cfg.length \in Nat \ {0}

\* csplit reads lines, and a pattern {N} repeats the one before it.
ASSUME CsplitReadsLines ==
    \A t \in TasksOf("csplit") :
      /\ IsSequence(t.input) /\ IsSequence(t.pats)
      /\ \A p \in ToSet(t.pats) : IsPattern(p)

\* parse_range_token accepts first-last of positive numbers in this order only, and
\* a record is shorter than INT_MAX.
ASSUME CutReadsRecords ==
    \A t \in TasksOf("cut") :
      /\ t.cfg.ranges \in Seq([first : Nat \ {0}, last : Nat])
      /\ \A k \in DOMAIN t.cfg.ranges : t.cfg.ranges[k].first <= t.cfg.ranges[k].last
      /\ t.cfg.complement \in BOOLEAN
      /\ t.n \in 0..IntMax - 1

\* A command has a table of options with names and types, and its arguments.
ASSUME OptionsReadArguments ==
    \A t \in TasksOf("options") \cup TasksOf("head") :
      /\ IsSequence(t.args) /\ \A a \in ToSet(t.args) : IsSequence(a)
      /\ IsSequence(t.metas)
      /\ \A m \in ToSet(t.metas) :
           IsSequence(m.short) /\ IsSequence(m.long) /\ m.type \in Types

\* A pattern and a name are sequences of characters.
ASSUME GlobReadsNames ==
    \A t \in TasksOf("glob") : t.pattern \in Seq(Int) /\ t.text \in Seq(Int)

VARIABLES cmd,   \* the command
          task,  \* its options and its input
          done,  \* it has ended
          out    \* what it printed, wrote or decided

filterVars == <<cmd, task, done, out>>

LineCommands == {"comm", "uniq", "join", "grep", "sort", "split", "csplit", "cut", "diff",
                 "options", "head", "glob"}

Begin(commands) ==
    /\ cmd \in commands
    /\ \E k \in DOMAIN Tasks[cmd] : task \in Tasks[cmd][k]
    /\ done = FALSE
    /\ out = <<>>

Run(c, result) ==
    /\ cmd = c
    /\ ~done
    /\ done' = TRUE
    /\ out' = result
    /\ UNCHANGED <<cmd, task>>

RunComm    == cmd = "comm" /\ Run("comm", comm(task.cfg, task.a, task.b))
RunUniq    == cmd = "uniq" /\ Run("uniq", uniq(task.cfg, task.records))
RunJoin    == cmd = "join" /\ Run("join", join(task.cfg, task.a, task.b))
RunGrep    == cmd = "grep" /\ Run("grep", grep(task.cfg, task.files))
RunSort    == cmd = "sort" /\ Run("sort", sort(task.cfg, task.files))
RunSplit   == cmd = "split" /\ Run("split", split(task.cfg, task.input))
RunCsplit  == cmd = "csplit" /\ Run("csplit", csplit(task.cfg, task.input, task.pats))
RunCut     == cmd = "cut" /\ Run("cut", cut(task.cfg, task.n))

\* diff -u a b, and patch applied to a with what was printed.
RunDiff ==
    /\ cmd = "diff"
    /\ LET hunks == output_unified_diff(task.a, task.b, task.context)
       IN  Run("diff", [hunks |-> hunks, patched |-> patch(task.a, hunks)])

RunOptions == cmd = "options" /\ Run("options", parse_command(task.metas, task.args))
RunHead    == cmd = "head" /\ Run("head", dispatch(task.name, task.metas, task.args))
RunGlob    == cmd = "glob" /\ Run("glob", wildcard_match(task.pattern, task.text))

FilterNext == \/ RunComm \/ RunUniq \/ RunJoin \/ RunGrep \/ RunSort
              \/ RunSplit \/ RunCsplit \/ RunCut \/ RunDiff
              \/ RunOptions \/ RunHead \/ RunGlob

FilterSpec == Begin(LineCommands) /\ [][FilterNext]_filterVars

------------------------------------------------------------------------------
Ran(c) == done /\ cmd = c

\* comm loses and invents nothing: columns 1 and 3 are the first file and 2 and
\* 3 the second, and of sorted files column 3 is what they share (comm.cpp, run).
CommPartitions ==
    Ran("comm") =>
      LET all == commColumns(task.a, task.b)
          col(set) == LET s == OfColumns(all, set) IN [k \in DOMAIN s |-> s[k].line]
          least(x) == AtMost(Mentions(task.a, x), Mentions(task.b, x))
      IN  out.status = 0 =>
            /\ col({1, 3}) = task.a /\ col({2, 3}) = task.b
            /\ Len(out.out) = Cardinality({k \in DOMAIN all : all[k].col \notin task.cfg.hide})
            /\ (Sorted(task.a) /\ Sorted(task.b)) =>
                 \A x \in ToSet(task.a) : Mentions(col({3}), x) = least(x)
            /\ (task.cfg.checkOrder => Sorted(task.a) /\ Sorted(task.b))

\* The lines -u keeps and those -D keeps are together the input, a run of equal
\* lines goes to one of them whole, and plain uniq keeps one of each run
\* (uniq.cpp, should_emit).
UniqSplits ==
    Ran("uniq") =>
      LET plain == [repeated |-> FALSE, allRepeated |-> FALSE, unique |-> FALSE,
                    groupAll |-> FALSE, method |-> "none"]
          one   == uniq([plain EXCEPT !.unique = TRUE], task.records)
          many  == uniq([plain EXCEPT !.allRepeated = TRUE], task.records)
          firsts == uniq([plain EXCEPT !.repeated = TRUE], task.records)
          merge(s, t) == Those(task.records, {k \in DOMAIN task.records :
                                                task.records[k] \in ToSet(s) \cup ToSet(t)})
      IN  /\ ToSet(one) \cap ToSet(many) = {}
          /\ Len(one) + Len(many) = Len(task.records)
          /\ merge(one, many) = task.records
          /\ merge(one, firsts) = uniq(plain, task.records)
          /\ \A i \in 2..Len(task.records) :
               comparison_key(task.records[i]) = comparison_key(task.records[i - 1])
                 => task.records[i] \in ToSet(many)

\* Every pair of lines with equal keys is printed once, and with -a every other
\* line once; -v prints the others only.  The key is the field the output shows,
\* for lines without empty fields.  -v 2 alone is left out: it does not suppress
\* the pairs (join.cpp, run).
JoinIsRelational ==
    Ran("join") =>
      LET full(line) == \A k \in DOMAIN split_all_fields(line, task.cfg.sep) :
                          split_all_fields(line, task.cfg.sep)[k] # <<>>
          field(line, n) == LET f == split_all_fields(line, task.cfg.sep)
                            IN  IF n \in DOMAIN f THEN f[n] ELSE <<>>
          pairs == {p \in (DOMAIN task.a) \X (DOMAIN task.b) :
                      field(task.a[p[1]], task.cfg.field1) = field(task.b[p[2]], task.cfg.field2)}
          alone1 == {i \in DOMAIN task.a : \A p \in pairs : p[1] # i}
          alone2 == {j \in DOMAIN task.b : \A p \in pairs : p[2] # j}
          count(set, on) == IF on THEN Cardinality(set) ELSE 0
      IN  ((\A s \in ToSet(task.a) \cup ToSet(task.b) : full(s)) /\ task.cfg.only # {2}) =>
            /\ Len(out) = count(pairs, task.cfg.only = {})
                            + count(alone1, 1 \in task.cfg.unpaired \cup task.cfg.only)
                            + count(alone2, 2 \in task.cfg.unpaired \cup task.cfg.only)
            /\ \A k \in DOMAIN out :
                 \/ \E s \in ToSet(task.a) : out[k][1] = field(s, task.cfg.field1)
                 \/ \E s \in ToSet(task.b) : out[k][1] = field(s, task.cfg.field2)

\* grep prints the selected lines and those within the context of one of them,
\* each once and in order, a separator exactly where lines are left out between
\* two; -v selects the lines that no match is in, -m the first of them (and one
\* for -m 0); counts, names and the status agree with what would be printed.
\* For a binary file only the notice is printed, and neither its name nor its
\* count (grep.cpp, scan_text and process).
GrepShowsContext ==
    Ran("grep") =>
      LET cfg == task.cfg
          some(set, n) == {i \in set : Cardinality({k \in set : k <= i}) <= n}
          hits(f) == LET set == {i \in DOMAIN task.files[f].lines : task.files[f].lines[i] # cfg.invert}
                     IN  IF ~task.files[f].readable THEN {}
                         ELSE IF task.files[f].binary /\ cfg.binaryFiles = "without-match" THEN {}
                         ELSE IF cfg.max < 0 THEN set ELSE some(set, IF cfg.max = 0 THEN 1 ELSE cfg.max)
          notice(f) == task.files[f].binary /\ cfg.binaryFiles = "binary" /\ hits(f) # {}
          near(f) == {i \in DOMAIN task.files[f].lines : \E h \in hits(f) : i \in h - cfg.before..h + cfg.after}
          of(f, kind) == Those(out.out, {k \in DOMAIN out.out : out.out[k].kind = kind /\ out.out[k].file = f})
          numbers(f) == LET s == of(f, "line") IN [k \in DOMAIN s |-> s[k].number]
          prints(f) == ~cfg.quiet /\ cfg.show = "lines" /\ ~notice(f)
          readable == {f \in DOMAIN task.files : task.files[f].readable}
          isLine(k) == k \in DOMAIN out.out /\ out.out[k].kind = "line"
          gap(k, l) == out.out[k].file = out.out[l].file /\ out.out[l].number > out.out[k].number + 1
      IN  /\ \A f \in DOMAIN task.files :
               /\ numbers(f) = IF prints(f) THEN Listed(Len(task.files[f].lines), near(f)) ELSE <<>>
               /\ \A x \in ToSet(of(f, "line")) : x.mark = ":" <=> x.number \in hits(f)
               /\ (of(f, "binary") # <<>>) <=> notice(f) /\ ~cfg.quiet
               /\ (of(f, "name") # <<>>) <=>
                    /\ ~cfg.quiet /\ f \in readable /\ ~notice(f)
                    /\ cfg.show = IF hits(f) # {} THEN "with" ELSE "without"
               /\ of(f, "count") = IF ~cfg.quiet /\ f \in readable /\ ~notice(f) /\ cfg.show = "count"
                                   THEN <<Entry("count", f, Cardinality(hits(f)), "")>> ELSE <<>>
          /\ \A k \in DOMAIN out.out :
               /\ out.out[k].kind = "sep" => isLine(k - 1) /\ isLine(k + 1) /\ gap(k - 1, k + 1)
               /\ (isLine(k) /\ isLine(k + 1) /\ cfg.before + cfg.after > 0) => ~gap(k, k + 1)
          /\ out.status = IF ~cfg.quiet /\ readable # DOMAIN task.files THEN 2
                          ELSE IF \E f \in readable : hits(f) # {} THEN 0 ELSE 1

\* Sort's comparison is a strict weak order on the lines it may meet, as the
\* standard library requires of it, unless -g reads NaN (compare_records).
SortComparesSoundly ==
    Ran("sort") =>
      LET lines == ToSet(FlattenSeq(task.files))
      IN  \/ \E l \in lines : l.general = NaN
          \/ WeakOrder(task.cfg, lines)

\* The output is the input, sorted and, without -m, equal lines in input order;
\* -u leaves the first of those that compare equal and no other.  -m needs
\* sorted files (stable_sort, merge_sorted, unique_records).
SortSorts ==
    Ran("sort") =>
      LET records == FlattenSeq(task.files)
          same(x, y) == compare_records(task.cfg, x, y) = 0
          group(s, r) == Those(s, {k \in DOMAIN s : same(s[k], r)})
          sound == /\ \A l \in ToSet(records) : l.general # NaN
                   /\ \A f \in ToSet(task.files) : \A i \in 2..Len(f) : ~Before(task.cfg, f[i], f[i - 1])
      IN  (~task.cfg.check /\ (sound \/ ~task.cfg.merge) /\ \A l \in ToSet(records) : l.general # NaN) =>
            /\ \A i, j \in DOMAIN out.out : i < j => ~Before(task.cfg, out.out[j], out.out[i])
            /\ \A r \in ToSet(records) :
                 LET was == group(records, r)
                     is  == group(out.out, r)
                 IN  IF task.cfg.unique THEN Len(is) = 1 /\ (task.cfg.merge \/ is = SubSeq(was, 1, 1))
                     ELSE IF task.cfg.merge THEN Len(is) = Len(was) ELSE is = was

\* sort -c accepts exactly what sort, with the same options but for -r, would
\* print unchanged.  The check ignores -r (run).
CheckAgrees ==
    Ran("sort") =>
      LET records == FlattenSeq(task.files)
          sorting == [task.cfg EXCEPT !.check = FALSE, !.merge = FALSE]
      IN  (task.cfg.check /\ ~task.cfg.reverse /\ \A l \in ToSet(records) : l.general # NaN) =>
            (out.status = 0 <=> sort(sorting, <<records>>).out = records)

\* What the files hold in the end, taken in the order they were written, is the
\* input, as long as no more files are needed than one letter can tell apart,
\* and no file is larger than was asked for but by one long line
\* (split.cpp, run and generate_suffix).
SplitLosesNothing ==
    Ran("split") =>
      LET files == OnDisk(out)
      IN  (task.cfg.numeric \/ Len(out) <= Letters) =>
            /\ FlattenSeq([k \in DOMAIN files |-> files[k].lines]) = task.input
            /\ \A k \in DOMAIN files :
                 LET lines == files[k].lines
                 IN  CASE task.cfg.mode = "lineBytes" -> Bytes(lines) <= task.cfg.size \/ Len(lines) = 1
                       [] OTHER -> Len(lines) = task.cfg.size \/ (k = Len(files) /\ Len(lines) < task.cfg.size)

\* Without a skipping pattern the pieces are the input, less the matched lines
\* when these are suppressed; a pattern without an offset makes a piece begin
\* with a line it matches.  Cuts past the end are left out: they are undefined
\* (csplit.cpp, run).
CsplitCovers ==
    Ran("csplit") =>
      LET pats == ToSet(task.pats)
          all  == FlattenSeq(out.pieces)
      IN  (out.status = 0 /\ out.defined) =>
            /\ <<>> \notin ToSet(out.pieces)
            /\ (\A p \in pats : ~p.skip) =>
                 IF task.cfg.suppress
                 THEN /\ Len(all) <= Len(task.input)
                      /\ \A x \in ToSet(task.input) : x \in ToSet(all) \/
                           \E p \in pats : "match" \in DOMAIN p /\ p.match = x
                 ELSE all = task.input
            /\ \A p \in pats :
                 ("match" \in DOMAIN p /\ p.offset = 0 /\ ~p.skip /\ ~task.cfg.suppress
                    /\ Len(task.pats) = 1
                    /\ \E i \in 2..Len(task.input) : task.input[i] = p.match
                    /\ task.input[1] # p.match) =>
                      \E k \in DOMAIN out.pieces : k > 1 /\ out.pieces[k][1] = p.match

\* What cut prints is what the list names, in the order of the line and once
\* each; --complement prints the rest.  Left out: a list in which a range
\* without an end meets INT_MAX + 1 (cut.cpp, merge_ranges).
CutSelects ==
    Ran("cut") =>
      LET open == \E k \in DOMAIN task.cfg.ranges : task.cfg.ranges[k].last = IntMax
          overflows == open /\ task.cfg.wraps /\ (task.cfg.complement \/ Len(task.cfg.ranges) > 1)
          named(i) == is_selected(i, task.cfg.ranges)
          shown == Those(out, {k \in DOMAIN out : out[k] # 0})
      IN  (~overflows /\ (task.cfg.fields => task.n > 1)) =>
            shown = Listed(task.n, {i \in 1..task.n : named(i) # task.cfg.complement})

\* The edits of diff turn the first file into the second and keep as many lines
\* as any edits can (compute_diff).
DiffIsMinimal ==
    Ran("diff") =>
      LET edits == compute_diff(task.a, task.b)
      IN  IF task.a = task.b THEN out.hunks = <<>>
          ELSE /\ Kept(edits) = CommonLines(task.a, task.b)
               /\ OldLines(out.hunks[1]) = task.a
               /\ NewLines(out.hunks[1]) = task.b

\* patch applied to what diff -u printed gives the second file when the header
\* counts what the body has, and a patch that fails changes nothing.  Where the
\* header counts less, the result may be neither file (diff.cpp, patch.cpp).
PatchRestores ==
    Ran("diff") =>
      LET whole == \A k \in DOMAIN out.hunks : HeaderMatchesBody(out.hunks[k])
      IN  /\ (whole /\ task.a # <<>>) => out.patched = [status |-> 0, lines |-> task.b]
          /\ out.patched.status = 1 => out.patched.lines = task.a

\* Whatever options stand between the operands and wherever values stand, the
\* parser makes of a command line what is written there (parse_command).
OptionsAsWritten == Ran("options") => ReadAsWritten(task.metas, task.args, out)

\* head -NUM and tail +NUM mean what -n NUM and -n +NUM mean, and the handler
\* sees the rest of the line as it is written, unless --help stands anywhere on
\* it, or -h where that is no option (RegistryImpl::run).
CountIsLines ==
    Ran("head") =>
      LET rewritten == needs_head_tail_count_rewrite(task.name, task.args)
          first == task.args[1]
          given == IF rewritten THEN LegacyCount(first) \o Tail(task.args) ELSE task.args
          asked == \/ Help \in ToSet(task.args)
                   \/ <<"-", "h">> \in ToSet(task.args) /\ Flag(task.metas, "h") = {}
      IN  IF out.status = "help" THEN asked
          ELSE /\ ~asked
               /\ ReadAsWritten(task.metas, given,
                    [ok |-> out.status = "run", set |-> out.set, operands |-> out.operands])
               /\ \A n \in Flag(task.metas, "n") :
                    (rewritten /\ out.status = "run" /\ task.metas[n].type = "String") =>
                      /\ first[1] = "+" => Head(out.set) = [opt |-> n, value |-> first]
                      /\ first[1] = "-" /\ IsDigits(Tail(first)) =>
                           Head(out.set) = [opt |-> n, value |-> Tail(first)]

\* A name matches a pattern exactly when it can be cut into pieces of which
\* each is what the pattern's element allows (wildcard_match).
GlobMatches == Ran("glob") => (out <=> Matches(task.pattern, task.text))

------------------------------------------------------------------------------
\* A command line is read as it is written (the dispatcher, parse_command).
ArgumentsAsWritten == OptionsAsWritten /\ CountIsLines

\* Filters that choose lines lose, double and invent none (comm, uniq, join, grep).
LinesAccountedFor == CommPartitions /\ UniqSplits /\ JoinIsRelational /\ GrepShowsContext

\* sort orders by a relation that can be sorted by, keeps what it has to, and
\* agrees with its own check (sort.cpp).
SortIsSound == SortComparesSoundly /\ SortSorts /\ CheckAgrees

\* What is cut into pieces is the input again, and what is selected is what the
\* list names (split, csplit, cut).
PiecesCoverInput == SplitLosesNothing /\ CsplitCovers /\ CutSelects

\* What diff prints, patch makes (diff.cpp, patch.cpp).
PatchUndoesDiff == DiffIsMinimal /\ PatchRestores
==============================================================================
