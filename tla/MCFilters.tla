------------------------------ MODULE MCFilters ------------------------------
(***************************************************************************)
(* The jobs for Filters: all small inputs over small alphabets, as         *)
(* sequences of sets that TLC enumerates without putting them together.    *)
(***************************************************************************)
EXTENDS Filters

UpTo(S, n) == UNION {[1..k -> S] : k \in 0..n}

\* -b, --bool; -n, --num (a number); -s, --str; -o, --opt (value optional);
\* --exec (to the next ";"); --opt=name, a name of its own; another -b, which is
\* never found (tail and chgrp have such tables).
Metas == <<[short |-> <<"-", "b">>, long |-> <<"-", "-", "bool">>, type |-> "Bool"],
           [short |-> <<"-", "n">>, long |-> <<"-", "-", "num">>, type |-> "Int"],
           [short |-> <<"-", "s">>, long |-> <<"-", "-", "str">>, type |-> "String"],
           [short |-> <<"-", "o">>, long |-> <<"-", "-", "opt">>, type |-> "OptionalInt"],
           [short |-> <<"-", "e", "x">>, long |-> <<"-", "-", "exec">>, type |-> "TerminatedString"],
           [short |-> <<>>, long |-> <<"-", "-", "opt", "=", "name">>, type |-> "Bool"],
           [short |-> <<"-", "b">>, long |-> <<>>, type |-> "String"]>>
Args == {<<"x">>, <<"7">>, <<";">>, <<"-", "-">>, <<"-">>, <<"-", "b">>, <<"-", "b", "n">>,
         <<"-", "n", "7">>, <<"-", "s">>, <<"-", "b", "s", "x">>, <<"-", "o">>, <<"-", "q">>,
         <<"-", "e", "x">>, <<"-", "-", "str">>, <<"-", "-", "str", "=", "x">>,
         <<"-", "-", "str", "=">>, <<"-", "-", "num">>, <<"-", "-", "opt", "=", "x">>, <<"-", "-", "opt", "=", "name">>,
         <<"-", "-", "none">>}
OptionJobs == [metas : {Metas}, args : UpTo(Args, 3)]

HeadMetas == <<[short |-> <<"-", "n">>, long |-> <<"-", "-", "lines">>, type |-> "String"],
               [short |-> <<"-", "c">>, long |-> <<"-", "-", "bytes">>, type |-> "String"],
               [short |-> <<"-", "q">>, long |-> <<"-", "-", "quiet">>, type |-> "Bool"],
               [short |-> <<"-", "v">>, long |-> <<"-", "-", "verbose">>, type |-> "Bool"]>>
HeadArgs == {<<"x">>, <<"-", "7">>, <<"-", "7", "k">>, <<"-", "7", "q">>, <<"-", "7", "x">>,
             <<"+", "7">>, <<"-", "n">>, <<"-", "q">>, <<"-", "h">>, <<"-", "-">>,
             <<"-", "-", "help">>}
HeadJobs == [name : {"head", "tail"}, metas : {HeadMetas}, args : UpTo(HeadArgs, 3)]

CommJobs == [cfg : [hide : {{}, {1}, {1, 2}, {3}}, checkOrder : BOOLEAN],
             a : UpTo(1..3, 3), b : UpTo(1..3, 3)]

\* The identity of a line is its place.
Numbered(keys) == [i \in DOMAIN keys |-> [key |-> keys[i], id |-> i]]
UniqJobs == [cfg : [repeated : BOOLEAN, allRepeated : BOOLEAN, unique : BOOLEAN,
                    groupAll : {FALSE}, method : {"none"}]
                   \cup [repeated : {FALSE}, allRepeated : {FALSE}, unique : {FALSE}, groupAll : {TRUE},
                         method : {"separate", "prepend", "append", "both"}],
             records : {Numbered(k) : k \in UpTo(1..2, 5)}]

JoinLines == {<<"a">>, <<"a", ",", "b">>, <<"b", ",", "a">>, <<"a", " ", " ", "b">>, <<"b", ",", ",", "a">>}
JoinJobs == [cfg : [sep : {",", " "}, field1 : {1, 2}, field2 : {1}, unpaired : {{}, {1}, {2}},
                    only : {{}, {1}, {2}, {1, 2}}],
             a : UpTo(JoinLines, 2), b : UpTo(JoinLines, 2)]

\* "10 A", "10 a", "-1K 2", "-2 2", "nan x", "mar 1", "" and "1.10 3" as sort reads them.
SortLine(text, fold, number, general, negative, rank, value, month, version, field) ==
    [text |-> text, fold |-> fold, number |-> number, general |-> general,
     human |-> [negative |-> negative, rank |-> rank, value |-> value],
     month |-> month, version |-> version, field |-> field]
D(n) == [digit |-> TRUE, value |-> n]
C(n) == [digit |-> FALSE, value |-> n]
SortLinesUsed ==
    {SortLine(5, 5, 10, 10, FALSE, -1, 10, 0, <<D(10), C(32), C(65)>>, None),
     SortLine(6, 5, 10, 10, FALSE, -1, 10, 0, <<D(10), C(32), C(97)>>, None),
     SortLine(2, 2, -1, -1, TRUE, 1, 1, 0, <<C(45), D(1), C(75), C(32), D(2)>>, 2),
     SortLine(3, 3, -2, -2, TRUE, -1, 2, 0, <<C(45), D(2), C(32), D(2)>>, 2),
     SortLine(8, 8, None, NaN, FALSE, -1, 0, 0, <<C(110), C(97), C(110), C(32), C(120)>>, None),
     SortLine(7, 7, None, None, FALSE, 2, 0, 3, <<C(109), C(97), C(114), C(32), D(1)>>, 1),
     SortLine(1, 1, None, None, FALSE, 0, 0, 0, <<>>, None),
     SortLine(4, 4, 1, 1, FALSE, -1, 1, 0, <<D(1), C(46), D(10), C(32), D(3)>>, 3)}
SortConfigs == [mode : {"text", "fold", "numeric", "general", "human", "month", "version"},
                keys : {<<>>, <<[mode |-> "field", reverse |-> FALSE]>>,
                        <<[mode |-> "field", reverse |-> TRUE], [mode |-> "numeric", reverse |-> FALSE]>>},
                stable : {FALSE}, unique : BOOLEAN, reverse : BOOLEAN, ignoreCase : BOOLEAN,
                merge : BOOLEAN, check : BOOLEAN]
SortJobs == {j \in [cfg : SortConfigs,
                    files : {<<s>> : s \in UpTo(SortLinesUsed, 3)}
                            \cup {<<s, t>> : s \in [1..2 -> SortLinesUsed], t \in [1..1 -> SortLinesUsed]}] :
               /\ (j.cfg.keys # <<>> => j.cfg.mode = "text")
               /\ (j.cfg.mode = "fold" <=> j.cfg.ignoreCase)
               /\ ~(j.cfg.merge /\ j.cfg.check)
               /\ (j.cfg.merge <=> Len(j.files) = 2)
               /\ (Len(j.files[1]) = 3 => j.cfg.mode = "general" \/ ~j.cfg.unique)}

SplitInput(bytes) == [i \in DOMAIN bytes |-> [id |-> i, bytes |-> bytes[i]]]
SplitJobs == {j \in [cfg : [mode : {"bytes", "lines", "lineBytes"}, size : 1..3,
                            numeric : BOOLEAN, length : 1..2],
                     input : {SplitInput(b) : b \in UpTo(1..4, 4)}] :
                j.cfg.mode # "lineBytes" => \A i \in DOMAIN j.input : j.input[i].bytes = 1}

Patterns == [match : {"m"}, skip : BOOLEAN, offset : {-1, 0, 1}, repeat : {0, 1}]
              \cup [line : {1, 3}, skip : BOOLEAN, offset : {0, 1}, repeat : {0}]
CsplitJobs == <<
    [cfg : [suppress : BOOLEAN], input : UpTo({"m", "x"}, 4) \ {<<>>}, pats : UpTo(Patterns, 1)],
    [cfg : [suppress : BOOLEAN], input : {<<"x", "m", "y", "m", "z">>}, pats : UpTo(Patterns, 2)]>>

Ranges == {r \in [first : 1..3, last : {1, 2, 4, IntMax}] : r.first <= r.last}
CutJobs == [cfg : [ranges : UpTo(Ranges, 2) \ {<<>>}, complement : BOOLEAN, onlyDelimited : BOOLEAN,
                   delimiter : BOOLEAN, fields : BOOLEAN, wraps : BOOLEAN],
            n : 0..4]

DiffJobs == <<
    [a : UpTo({"p", "q"}, 4), b : UpTo({"p", "q"}, 4), context : {1, 3}],
    [a : UpTo({"p", "q", "r"}, 3), b : UpTo({"p", "q", "r"}, 3), context : {1}],
    [a : {[i \in 1..k |-> i] : k \in 4..7}, b : {[i \in 1..k |-> i] : k \in 5..8}, context : {3}]>>

\* a, b, c, -, ^ and the special characters.
GlobJobs == <<
    [pattern : UpTo({Star, Question, Open, Close, Caret, Dash, 97, 99}, 4), text : UpTo({97, 98}, 2)],
    [pattern : {<<Open, 97, Dash, 99, Close>>, <<Open, Caret, 97, Dash, 98, Close, Star>>,
                <<Star, Open, 97, Dash, 98, Close, Star, 99>>, <<Star, 97, Star, 97>>,
                <<Open, 97, Dash, 98, 99, Dash, 99, Close>>, <<Open, Caret, 98, Dash, Dash, Dash, 98, Close>>},
     text : UpTo({97, 98, 99}, 4)]>>

\* A directory with two directories of one file, and a file; all tokens in any order.
FindTokens == {"name", "!", "(", ")", "-o", "-a", "prune", "print", "delete", "quit", "exec"}
FindArgs == <<
    {g \o e : g \in {<<>>, <<"r1", "r2">>, <<"r1", "r9", "-maxdepth", "1">>, <<"-depth">>,
                  <<"-mindepth", "1">>, <<"-depth", "-mindepth", "1", "-maxdepth", "1">>},
     e \in UpTo(FindTokens, 3)},
    {<<"r1", "r2">> \o e : e \in [1..4 -> {"name", "!", "-o", "prune", "print", "delete", "quit"}]},
    {g \o e : g \in {<<>>, <<"-depth", "r1", "r2">>}, e \in UpTo({"name", "!", "-o", "+x", "+y", "+z"}, 4)},
    {<<"(", "name", "-o", "print", ")">> \o e \o <<"(", "name", "prune", ")">> : e \in UpTo({"!", "-o", "-a"}, 2)}>>
FindJobs == [n \in DOMAIN FindArgs |->
            [args : FindArgs[n], tree : {{<<1>>, <<1, 1>>, <<1, 1, 1>>, <<1, 2>>, <<1, 2, 1>>, <<2>>}},
             dirs : {{<<1>>, <<1, 1>>, <<1, 2>>}},
             match : {{<<1, 1>>, <<1, 2, 1>>}}, good : {{<<1>>, <<1, 1, 1>>}}, locked : {{}, {<<1, 1, 1>>}}]]

GrepFiles(n) == [lines : UpTo(BOOLEAN, n), binary : BOOLEAN, readable : {TRUE}]
Unreadable == [lines |-> <<>>, binary |-> FALSE, readable |-> FALSE]
GrepShow == [show : {"lines"}, before : 0..2, after : 0..1] \cup [show : {"with", "without", "count"}, before : {0}, after : {1}]
GrepConfigs == {[invert |-> v, quiet |-> q, max |-> m, binaryFiles |-> b, show |-> s.show, before |-> s.before, after |-> s.after] :
                  v \in BOOLEAN, q \in BOOLEAN, m \in {-1, 0, 1, 2}, b \in {"binary", "text", "without-match"}, s \in GrepShow}
GrepJobs == <<
    [cfg : {c \in GrepConfigs : ~c.quiet /\ c.binaryFiles # "text"},
     files : {<<[lines |-> l, binary |-> FALSE, readable |-> TRUE]>> : l \in [1..6 -> BOOLEAN]}],
    [cfg : GrepConfigs, files : {<<a, b>> : a \in GrepFiles(2), b \in GrepFiles(1) \cup {Unreadable}}]>>

\* Commands that hold what would take a line apart.
Commands1 == {<<"x">>, <<"x", " ", "y">>, <<"'", ";", " ", "|", "'">>, <<"\"", "'", "&&", " ", "\"">>,
              <<"'", "fi", "'", "x">>, <<"x", "'", " ", "done", " ", "'">>}
Commands2 == Commands1 \cup
    {<<"(", "x", ";", "x", ")">>, <<"{", " ", "x", ";", " ", "}">>, <<"[[", " ", "x", " ", "&&", " ", "y", " ", "]]">>,
     <<"x", "\\", ";", "y">>, <<"x", " ", "2", ">", "&", "y">>,
     <<"if", " ", "x", ";", " ", "then", " ", "y", ";", " ", "fi">>,
     <<"while", " ", "x", ";", " ", "do", " ", "if", " ", "x", ";", " ", "then", " ", "y", "||", "x", ";", " ", "fi", ";", " ", "done">>,
     <<"case", " ", "x", " ", "in", " ", "y", ")", " ", "x", " ", ";;", " ", "esac">>}
LineJobs == <<
    [1..1 -> [text : Commands2, by : {";"}]],
    [1..2 -> [text : Commands2, by : {";", "&&", "||", "&"}]],
    [1..3 -> [text : Commands1 \cup {<<"(", "x", ";", "x", ")">>}, by : {";", "||"}]]>>
WordJobs == [words : UpTo({<<"x">>, <<"x", "y">>, <<"'", "|", " ", "'">>, <<"x", "\"", "'", " ", "\"">>}, 4)]

Redirect(kind, marks, quoted, word, append) ==
    [kind |-> kind, append |-> append, word |-> word,
     text |-> marks \o IF quoted THEN <<"'">> \o word \o <<"'">> ELSE word]
RedirectItems ==
    {[kind |-> "word", text |-> t] : t \in {<<"x">>, <<"'", ">", " ", "y", "'">>, <<"\"", "'", "<", "\"">>}}
      \cup {Redirect("out", <<">">> \o m, q, w, m # <<>> /\ m[1] = ">") :
               m \in {<<>>, <<">">>, <<" ">>}, q \in BOOLEAN, w \in {<<"x">>, <<"y">>}}
      \cup {Redirect("err", <<"2", ">">>, FALSE, <<"x">>, FALSE), Redirect("err", <<"2", ">", ">">>, TRUE, <<"x", " ">>, TRUE),
            Redirect("in", <<"<">>, FALSE, <<"x">>, FALSE), Redirect("in", <<"<", " ">>, TRUE, <<"y">>, FALSE)}
RedirectJobs == <<
    [items : UpTo(RedirectItems, 2), document : {<<>>}],
    [items : {s \in [1..3 -> RedirectItems] : s[1].kind = "word"}, document : {<<>>}],
    [items : UpTo(RedirectItems, 1),
     document : {<<d>> : d \in {<<>>} \cup {<<l>> \o m : l \in {<<"y">>, <<"'", ">">>}, m \in UpTo({<<>>, <<"y", "x">>}, 2)}}]>>

Inner == Commands1 \cup {<<"if", " ", "x", ";", " ", "then", " ", "y", ";", " ", "else", " ", "x", ";", " ", "fi">>,
                        <<"x", ";", " ", "y">>,
                        <<"case", " ", "y", " ", "in", " ", "y", ")", " ", "x", " ", ";;", " ", "esac">>}
Loop(kind) == <<kind, " ", "x", " ">> \o (IF kind = "for" THEN <<"in", " ", "x">> ELSE <<>>)
                \o <<";", " ", "do", " ", "y", ";", " ", "done">>
StatementJobs == <<
    [kind : {"if"}, a : Inner \cup {Loop("while")}, b : Inner \cup {Loop("for")}, c : Inner \cup {<<>>, Loop("for")}],
    [kind : {"while"}, a : Inner, b : Inner \cup {Loop("while")}, c : {<<>>}],
    [kind : {"for"}, a : Commands1, b : Inner \cup {Loop("for")}, c : {<<>>}],
    [kind : {"case"}, a : Inner \cup {Loop("for")}, b : Inner,
     c : {<<"x">>, <<"\"", "x", " ", ")", "\"">>, <<"x", "in", "y">>, <<"'", "in", "'">>}]>>

BraceWord0 == UpTo({<<"x">>, <<"y">>}, 1)
BraceGroup1 == {<<a, b>> : a \in BraceWord0, b \in BraceWord0} \cup {<<<<<<"x">>>>, <<>>, <<<<"y">>>>>>}
BraceWord1 == BraceWord0 \cup {<<g>> : g \in BraceGroup1} \cup {<<<<"x">>, g>> : g \in BraceGroup1}
BraceGroup2 == {<<a, b>> : a \in BraceWord1, b \in BraceWord1}
Quoted1 == <<<<"'">>, <<",">>, <<"'">>>>
BraceJobs == <<
    {p \o <<g>> \o t : p \in BraceWord0, g \in BraceGroup2, t \in BraceWord0},
    {p \o <<g>> \o t : p \in {<<>>, Quoted1}, g \in BraceGroup1 \cup {<<Quoted1, <<<<"y">>>>>>}, t \in BraceWord1}>>

Leaves == {<<"0">>, <<"2">>, <<"3">>, <<"v">>, <<"neg", <<"2">>>>}
Few    == {<<"1">>, <<"3">>, <<"neg", <<"2">>>>}
Ops == Levels.cmp \cup Levels.add \cup Levels.mul
Some == {"<", "==", "-", "*", "/", "%"}
Binary(O, L, R) == {<<op, l, r>> : op \in O, l \in L, r \in R}
ArithmeticJobs ==
    LET two == Binary(Ops, Leaves, Leaves)
        few == Binary(Some, Few, Few)
        choice(c, a, b) == <<"?", c, a, b>>
        small == choice(<<"0">>, <<"1">>, <<"2">>)
    IN  <<Leaves, two, Binary(Ops, two, {<<"2">>, <<"v">>}), Binary(Ops, {<<"2">>, <<"v">>}, two),
          Binary(Some, few, few),
          {choice(c, a, b) : c \in few \cup {small}, a \in Few \cup {small}, b \in few},
          Binary(Some, {small, <<"2">>}, {small, <<"3">>})>>

PatternChars == {Star, Question, 97, 98}
ParameterJobs == <<
    [op : {"#", "##", "%", "%%"}, value : UpTo({97, 98}, 4), pattern : UpTo(PatternChars, 3),
     by : {<<>>}, offset : {0}, length : {0}],
    [op : {"/", "//"}, value : UpTo({97, 98}, 5), pattern : UpTo({97, 98}, 2) \ {<<>>},
     by : UpTo({97, 99}, 2), offset : {0}, length : {0}],
    [op : {":"}, value : {<<97, 98, 97>>}, pattern : {<<>>}, by : {<<>>}, offset : -1..4, length : -1..4],
    [op : {":-", ":="}, value : UpTo({97}, 1), pattern : {<<>>}, by : {<<98>>}, offset : {0}, length : {0}]>>
PatternJobs == <<
    [text : UpTo({97, 98}, 4), pattern : UpTo(PatternChars, 4), extglob : {FALSE}],
    [text : UpTo({97, 98}, 3), extglob : {TRUE},
     pattern : {<<c>> \o GroupOfTwo \o rest : c \in {At, Bang, Question, Star, Plus}, rest \in UpTo({97, Star}, 1)}]>>

MCTasks == [options |-> <<OptionJobs>>, head |-> <<HeadJobs>>, comm |-> <<CommJobs>>, uniq |-> <<UniqJobs>>,
           join |-> <<JoinJobs>>, sort |-> <<SortJobs>>, split |-> <<SplitJobs>>, csplit |-> CsplitJobs,
           cut |-> <<CutJobs>>, diff |-> DiffJobs, glob |-> GlobJobs, find |-> FindJobs, grep |-> GrepJobs,
           line |-> LineJobs, words |-> <<WordJobs>>, redirects |-> RedirectJobs, statement |-> StatementJobs,
           braces |-> BraceJobs, arithmetic |-> ArithmeticJobs, parameter |-> ParameterJobs, pattern |-> PatternJobs]
==============================================================================
