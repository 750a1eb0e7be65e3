------------------------------ MODULE SortLines ------------------------------
(***************************************************************************)
(* sort (commands/sort.cpp).  A line is given by what sort's conversions   *)
(* make of it: [text, fold : Nat] its place in the order of the bytes and  *)
(* of the lower-cased bytes, [number] its numeric prefix or None,          *)
(* [general] the same with strtod, which may be NaN, [human] sign, suffix  *)
(* and value, [month] 0 to 12, [version] its runs of digits and the other  *)
(* characters, and [field] the number in its second field or None.         *)
(***************************************************************************)
EXTENDS Integers, Sequences, SequencesExt

CONSTANTS None, NaN   \* no number at the start; strtod read "nan"

ASSUME NotNumbers == None \notin Int /\ NaN \notin Int /\ None # NaN

VersionPart == [digit : BOOLEAN, value : Int]

Line == [text : Nat, fold : Nat, number : Int \cup {None}, general : Int \cup {None, NaN},
         human : [negative : BOOLEAN, rank : Int, value : Int], month : 0..12,
         version : Seq(VersionPart), field : Int \cup {None}]

Modes == {"version", "numeric", "general", "human", "month", "fold", "text", "field"}

SortConfig == [mode : Modes, keys : Seq([mode : Modes, reverse : BOOLEAN]), stable : BOOLEAN,
               unique : BOOLEAN, reverse : BOOLEAN, ignoreCase : BOOLEAN,
               merge : BOOLEAN, check : BOOLEAN]

Cmp(x, y) == IF x < y THEN -1 ELSE IF x > y THEN 1 ELSE 0

Mut_CompareNumbers(x, y) ==
    IF x = None \/ y = None \/ NaN \in {x, y} THEN 0 ELSE Cmp(x, y)

\* Lines without a number come before those with one.
CompareNumbers(x, y) ==
    CASE x = None /\ y = None -> 0
      [] x = None /\ y # None -> -1
      [] x # None /\ y = None -> 1
      [] x # None /\ y # None /\ NaN \in {x, y} -> 0
      [] OTHER -> Cmp(x, y)

\* First difference of sign, suffix, value; the sign does not reverse the rest.
compare_human(x, y) ==
    IF x.negative # y.negative THEN IF x.negative THEN -1 ELSE 1
    ELSE IF x.rank # y.rank THEN Cmp(x.rank, y.rank)
    ELSE Cmp(x.value, y.value)

compare_month(a, b) ==
    IF a.month = 0 /\ b.month = 0 THEN Cmp(a.text, b.text) ELSE Cmp(a.month, b.month)

\* The first of several comparisons that tells two things apart.
Decision(s) == LET told == {k \in DOMAIN s : s[k] # 0}
               IN  IF told = {} THEN 0 ELSE s[Min(told)]

\* A part is [digit : BOOLEAN, value]: digits come before other characters and
\* before an empty line; otherwise the longer of two versions comes later.
CompareParts(x, y, i) ==
    IF i > Len(x) /\ i > Len(y) THEN 0
    ELSE IF i > Len(x) THEN IF i = 1 /\ y[i].digit THEN 1 ELSE -1
    ELSE IF i > Len(y) THEN IF i = 1 /\ x[i].digit THEN -1 ELSE 1
    ELSE IF x[i].digit # y[i].digit THEN IF x[i].digit THEN -1 ELSE 1
    ELSE Cmp(x[i].value, y[i].value)

compare_version_strings(x, y) ==
    Decision([i \in 1..Len(x) + Len(y) |-> CompareParts(x, y, i)])

\* One mode is chosen: version before numeric, general, human, month, text.
compare_key_strings(a, b, mode) ==
    CASE mode = "version" -> compare_version_strings(a.version, b.version)
      [] mode = "numeric" -> CompareNumbers(a.number, b.number)
      [] mode = "general" -> CompareNumbers(a.general, b.general)
      [] mode = "human"   -> compare_human(a.human, b.human)
      [] mode = "month"   -> compare_month(a, b)
      [] mode = "fold"    -> Cmp(a.fold, b.fold)
      [] mode = "text"    -> Cmp(a.text, b.text)
      [] mode = "field"   -> CompareNumbers(a.field, b.field)

Turned(reverse, c) == IF reverse THEN 0 - c ELSE c

\* cfg.keys: [mode, reverse]; without keys cfg.mode is compared, then the line.
compare_records(cfg, a, b) ==
    IF cfg.keys # <<>>
    THEN Decision([k \in DOMAIN cfg.keys |->
           Turned(cfg.keys[k].reverse, compare_key_strings(a, b, cfg.keys[k].mode))])
    ELSE Decision(<<compare_key_strings(a, b, cfg.mode),
                    IF cfg.stable \/ cfg.unique THEN 0
                    ELSE IF cfg.ignoreCase THEN Cmp(a.fold, b.fold) ELSE Cmp(a.text, b.text)>>)

Before(cfg, a, b) == Turned(cfg.reverse, compare_records(cfg, a, b)) < 0

\* std::stable_sort: up to 32 elements are sorted by insertion.
Insert(cfg, sorted, r) ==
    LET above == {k \in DOMAIN sorted : \A l \in k..Len(sorted) : Before(cfg, r, sorted[l])}
        at    == IF above = {} THEN Len(sorted) + 1 ELSE Min(above)
    IN  SubSeq(sorted, 1, at - 1) \o <<r>> \o SubSeq(sorted, at, Len(sorted))

stable_sort(cfg, records) ==
    LET upto[k \in 0..Len(records)] ==
          IF k = 0 THEN <<>> ELSE Insert(cfg, upto[k - 1], records[k])
    IN  upto[Len(records)]

\* -u keeps the first of the lines that compare equal.
Unique(cfg, records) ==
    LET upto[k \in 0..Len(records)] ==
          IF k = 0 THEN <<>>
          ELSE LET s == upto[k - 1]
               IN  IF s # <<>> /\ compare_records(cfg, Last(s), records[k]) = 0 THEN s
                   ELSE Append(s, records[k])
    IN  upto[Len(records)]

\* merge_sorted: always the least of the files' first lines.
merge_sorted(cfg, files) ==
    LET n == Len(FlattenSeq(files))
        least(rest) == CHOOSE f \in DOMAIN rest :
            /\ rest[f] # <<>>
            /\ \A g \in DOMAIN rest : rest[g] # <<>> => ~Before(cfg, rest[g][1], rest[f][1])
        step[k \in 0..n] ==
          IF k = 0 THEN [out |-> <<>>, rest |-> files]
          ELSE LET s == step[k - 1]
                   f == least(s.rest)
               IN  [out |-> Append(s.out, s.rest[f][1]), rest |-> [s.rest EXCEPT ![f] = Tail(@)]]
    IN  step[n].out

\* -c and -C: the comparison is the one without -r.
check(cfg, records) ==
    \A i \in 2..Len(records) :
      LET c == compare_records(cfg, records[i - 1], records[i])
      IN  c < 0 \/ (c = 0 /\ ~cfg.unique)

sort(cfg, files) ==
    LET records == FlattenSeq(files)
        sorted  == IF cfg.merge THEN merge_sorted(cfg, files) ELSE stable_sort(cfg, records)
    IN  IF cfg.check THEN [status |-> IF check(cfg, records) THEN 0 ELSE 1, out |-> <<>>]
        ELSE [status |-> 0, out |-> IF cfg.unique THEN Unique(cfg, sorted) ELSE sorted]

------------------------------------------------------------------------------
(* For the properties.                                                      *)

\* What a comparison must be for a sort to mean anything.
WeakOrder(cfg, lines) ==
    LET lt(x, y) == Before(cfg, x, y)
    IN  \A x, y, z \in lines :
          /\ ~lt(x, x)
          /\ lt(x, y) => ~lt(y, x)
          /\ (lt(x, y) /\ lt(y, z)) => lt(x, z)
          /\ (~lt(x, y) /\ ~lt(y, x) /\ ~lt(y, z) /\ ~lt(z, y)) => (~lt(x, z) /\ ~lt(z, x))
==============================================================================
