------------------------------ MODULE LineTools ------------------------------
(***************************************************************************)
(* comm, uniq and join (commands/comm.cpp, uniq.cpp, join.cpp): what they  *)
(* print for the lines they read.  A line is a number where only its order *)
(* counts, for uniq a record of what is compared and an identity, and for  *)
(* join a sequence of characters.                                          *)
(***************************************************************************)
EXTENDS Integers, Sequences, FiniteSets, SequencesExt, Selections

Mentions(s, x) == Cardinality({k \in DOMAIN s : s[k] = x})
Sorted(s) == \A i \in 1..Len(s) - 1 : s[i] <= s[i + 1]

------------------------------------------------------------------------------
(* comm: [hide : SUBSET 1..3, checkOrder : BOOLEAN].                        *)

\* One turn of the merge loop: the next line, with the column it belongs to.
Mut_MergeTurn(a, b, s) ==
    LET only1 == s.i <= Len(a) /\ (s.j > Len(b) \/ a[s.i] < b[s.j])
        only2 == s.j <= Len(b) /\ (s.i > Len(a) \/ a[s.i] > b[s.j])
    IN  IF s.i > Len(a) /\ s.j > Len(b) THEN s
        ELSE IF only1 THEN [s EXCEPT !.i = @ + 1, !.rows = Append(@, [col |-> 1, line |-> a[s.i]])]
        ELSE IF only2 THEN [s EXCEPT !.j = @ + 1, !.rows = Append(@, [col |-> 2, line |-> b[s.j]])]
        ELSE [s EXCEPT !.i = @ + 1, !.rows = Append(@, [col |-> 3, line |-> a[s.i]])]

MergeTurn(a, b, s) ==
    LET only1 == s.i <= Len(a) /\ (s.j > Len(b) \/ a[s.i] < b[s.j])
        only2 == s.j <= Len(b) /\ (s.i > Len(a) \/ a[s.i] > b[s.j])
    IN  IF s.i > Len(a) /\ s.j > Len(b) THEN s
        ELSE IF only1 THEN [s EXCEPT !.i = @ + 1, !.rows = Append(@, [col |-> 1, line |-> a[s.i]])]
        ELSE IF only2 THEN [s EXCEPT !.j = @ + 1, !.rows = Append(@, [col |-> 2, line |-> b[s.j]])]
        ELSE [i |-> s.i + 1, j |-> s.j + 1, rows |-> Append(s.rows, [col |-> 3, line |-> a[s.i]])]

commColumns(a, b) ==
    LET after[k \in 0..Len(a) + Len(b)] ==
          IF k = 0 THEN [i |-> 1, j |-> 1, rows |-> <<>>] ELSE MergeTurn(a, b, after[k - 1])
    IN  after[Len(a) + Len(b)].rows

\* The rows of some of the columns.
OfColumns(rows, cols) == Those(rows, {k \in DOMAIN rows : rows[k].col \in cols})

\* One delimiter for each column to the left that is shown.
column_prefix(hide, col) == Cardinality({c \in 1..col - 1 : c \notin hide})

check_sorted(lines) == Sorted(lines)

comm(cfg, a, b) ==
    IF cfg.checkOrder /\ ~(check_sorted(a) /\ check_sorted(b))
    THEN [status |-> 1, out |-> <<>>, total |-> <<0, 0, 0>>]
    ELSE LET all   == commColumns(a, b)
             shown == OfColumns(all, 1..3 \ cfg.hide)
         IN  [status |-> 0,
              out |-> [i \in DOMAIN shown |->
                         [indent |-> column_prefix(cfg.hide, shown[i].col), line |-> shown[i].line]],
              total |-> [c \in 1..3 |-> Len(OfColumns(all, {c}))]]

------------------------------------------------------------------------------
(* uniq: [repeated, allRepeated, unique, groupAll : BOOLEAN,                *)
(*        method : {"none", "separate", "prepend", "append", "both"}].      *)

\* -f, -s, -w and -i: what of a line is compared.
comparison_key(record) == record.key

\* The end of the run that starts at i, exclusive.
runEnd(records, i) ==
    CHOOSE j \in i + 1..Len(records) + 1 :
      /\ \A k \in i..j - 1 : comparison_key(records[k]) = comparison_key(records[i])
      /\ j <= Len(records) => comparison_key(records[j]) # comparison_key(records[i])

should_emit(cfg, count) ==
    \/ cfg.groupAll
    \/ ~cfg.repeated /\ ~cfg.unique /\ ~cfg.allRepeated
    \/ (cfg.repeated \/ cfg.allRepeated) /\ count > 1
    \/ cfg.unique /\ count = 1

Blank == [key |-> 0, id |-> 0]   \* a separator between groups

uniqGroup(cfg, records, i, j) ==
    LET before == IF cfg.method = "separate" THEN i # 1 ELSE cfg.method \in {"prepend", "both"}
        whole  == (cfg.allRepeated \/ cfg.method # "none") /\ j - i > 1
    IN  (IF before THEN <<Blank>> ELSE <<>>)
          \o (IF whole THEN SubSeq(records, i, j - 1) ELSE <<records[i]>>)
          \o (IF cfg.method \in {"append", "both"} THEN <<Blank>> ELSE <<>>)

\* The next run of equal records.
UniqTurn(cfg, records, s) ==
    LET j == runEnd(records, s.i)
    IN  IF s.i > Len(records) THEN s
        ELSE [i |-> j,
              emitted |-> IF should_emit(cfg, j - s.i)
                          THEN s.emitted \o uniqGroup(cfg, records, s.i, j) ELSE s.emitted]

uniq(cfg, records) ==
    LET after[k \in 0..Len(records)] ==
          IF k = 0 THEN [i |-> 1, emitted |-> <<>>] ELSE UniqTurn(cfg, records, after[k - 1])
    IN  after[Len(records)].emitted

------------------------------------------------------------------------------
(* join: [sep : {" ", ","}, field1, field2 : Nat, unpaired, only : SUBSET   *)
(* {1, 2}, empty : {"", "-"}].  Default output format.                      *)

\* split_line: one field; separators that follow one another count as one.
LineCharacter(s, c, sep, n) ==
    IF c # sep
    THEN [field |-> s.field, gap |-> FALSE, taken |-> IF s.field = n THEN Append(s.taken, c) ELSE s.taken]
    ELSE IF s.gap THEN s ELSE [s EXCEPT !.field = @ + 1, !.gap = TRUE]

split_line(line, sep, n) ==
    LET after[k \in 0..Len(line)] ==
          IF k = 0 THEN [field |-> 1, gap |-> TRUE, taken |-> <<>>]
          ELSE LineCharacter(after[k - 1], line[k], sep, n)
    IN  after[Len(line)].taken

\* split_all_fields: blanks collapse, other separators do not.
FieldsCharacter(s, c, sep) ==
    IF c # sep THEN [s EXCEPT !.gap = FALSE, !.current = Append(@, c)]
    ELSE IF s.gap THEN [s EXCEPT !.fields = IF sep = " " THEN @ ELSE Append(@, <<>>)]
    ELSE [gap |-> TRUE, current |-> <<>>, fields |-> Append(s.fields, s.current)]

split_all_fields(line, sep) ==
    LET after[k \in 0..Len(line)] ==
          IF k = 0 THEN [gap |-> TRUE, current |-> <<>>, fields |-> <<>>]
          ELSE FieldsCharacter(after[k - 1], line[k], sep)
        s == after[Len(line)]
    IN  IF s.gap /\ sep = " " THEN s.fields ELSE Append(s.fields, s.current)

\* The key, then the fields after the join field of either line.
format_output(cfg, line1, line2) ==
    LET rest(line, n) == IF line = <<>> THEN <<>>
                         ELSE LET f == split_all_fields(line, cfg.sep)
                              IN  SubSeq(f, n + 1, Len(f))
        key == IF line1 = <<>> /\ line2 # <<>> THEN split_line(line2, cfg.sep, cfg.field2)
               ELSE split_line(line1, cfg.sep, cfg.field1)
    IN  <<key>> \o rest(line1, cfg.field1) \o rest(line2, cfg.field2)

joinKey1(cfg, line) == split_line(line, cfg.sep, cfg.field1)
joinKey2(cfg, line) == split_line(line, cfg.sep, cfg.field2)

\* The index of the second file: the lines with this key, in order.
file2_index(cfg, b, key) ==
    Listed(Len(b), {j \in DOMAIN b : joinKey2(cfg, b[j]) = key})

join(cfg, a, b) ==
    LET pairs(i) == file2_index(cfg, b, joinKey1(cfg, a[i]))
        first(i) == IF pairs(i) # <<>>
                    THEN IF 1 \in cfg.only THEN <<>>
                         ELSE [k \in DOMAIN pairs(i) |-> format_output(cfg, a[i], b[pairs(i)[k]])]
                    ELSE IF 1 \in cfg.unpaired \cup cfg.only
                    THEN <<format_output(cfg, a[i], <<>>)>> ELSE <<>>
        matched == UNION {ToSet(pairs(i)) : i \in DOMAIN a}
        second  == IF 2 \in cfg.unpaired \cup cfg.only
                   THEN Listed(Len(b), {j \in DOMAIN b : j \notin matched}) ELSE <<>>
    IN  FlattenSeq([i \in DOMAIN a |-> first(i)])
          \o [k \in DOMAIN second |-> format_output(cfg, <<>>, b[second[k]])]
==============================================================================
