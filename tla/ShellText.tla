------------------------------ MODULE ShellText ------------------------------
(***************************************************************************)
(* Main/main.cpp: how the shell takes a line apart.  A text is a sequence  *)
(* of tokens: a blank, a quote, an operator, a keyword, or "x" for a       *)
(* character that means nothing; "&&", "||", ";;", "[[" and "]]" are       *)
(* tokens of their own.  A keyword may stand inside of a word: x in y      *)
(* without blanks is one.                                                  *)
(***************************************************************************)
EXTENDS Integers, Sequences, FiniteSets, SequencesExt, FiniteSetsExt

Blanks == {" ", "nl"}
QuoteMarks == {"'", "\""}

\* Which quote is open after i tokens; a quote mark within the other is text.
OpenQuote(s) ==
    LET q[i \in 0..Len(s)] ==
          IF i = 0 THEN ""
          ELSE IF s[i] \in QuoteMarks /\ q[i - 1] \in {"", s[i]}
          THEN IF q[i - 1] = "" THEN s[i] ELSE ""
          ELSE q[i - 1]
    IN  q

\* The places outside of quotes that are no quote mark.
Bare(s) == LET q == OpenQuote(s) IN {i \in DOMAIN s : q[i - 1] = "" /\ s[i] \notin QuoteMarks}

FirstOf(S) == IF S = {} THEN 0 ELSE CHOOSE i \in S : \A k \in S : i <= k
From(s, i) == SubSeq(s, i, Len(s))
Upto(s, i) == SubSeq(s, 1, i)

trimAscii(s) ==
    LET text == {i \in DOMAIN s : s[i] \notin Blanks}
    IN  IF text = {} THEN <<>> ELSE SubSeq(s, FirstOf(text), CHOOSE i \in text : \A k \in text : k <= i)

InOrder(s, at) == SelectSeq([i \in DOMAIN s |-> i], LAMBDA i : i \in at)

\* The pieces of s between the places in at.
CutAt(s, at) ==
    LET p == <<0>> \o InOrder(s, at) \o <<Len(s) + 1>>
    IN  [k \in 1..Len(p) - 1 |-> SubSeq(s, p[k] + 1, p[k + 1] - 1)]

isWordAt(s, i, word) ==
    /\ s[i] = word
    /\ i > 1 => s[i - 1] \in Blanks \cup {";"}
    /\ i < Len(s) => s[i + 1] \in Blanks \cup {";"}

------------------------------------------------------------------------------
(* Parts, pipelines and words.                                              *)

Into   == [ctl |-> {"if", "for", "while", "case"}, par |-> {"("}, br |-> {"{"}, db |-> {"[["}]
Out_of == [ctl |-> {"fi", "done", "esac"}, par |-> {")"}, br |-> {"}"}, db |-> {"]]"}]

\* How deep each kind of nesting is after i tokens; a keyword counts as a word only.
Nesting(s) ==
    LET bare == Bare(s)
        counts(k, i) == i \in bare /\ (k = "ctl" => isWordAt(s, i, s[i]))
        d[i \in 0..Len(s)] ==
          IF i = 0 THEN [k \in DOMAIN Into |-> 0]
          ELSE [k \in DOMAIN Into |->
                  IF counts(k, i) /\ s[i] \in Into[k] THEN d[i - 1][k] + 1
                  ELSE IF counts(k, i) /\ s[i] \in Out_of[k] /\ d[i - 1][k] > 0 THEN d[i - 1][k] - 1
                  ELSE d[i - 1][k]]
    IN  d

\* "&" separates before a blank only, so that 2>&1 stays whole.
Separates(s, i) ==
    \/ s[i] = ";" /\ (i > 1 => s[i - 1] # "\\")
    \/ s[i] \in {"&&", "||"}
    \/ s[i] = "&" /\ (i < Len(s) => s[i + 1] \in Blanks)

OpAfter(token) == CASE token = "&&" -> "a" [] token = "||" -> "o" [] OTHER -> ";"

Mut_splitShellParts(s) ==
    LET deep == Nesting(s)
        at   == {i \in Bare(s) : (\A k \in {"ctl", "par", "br"} : deep[i][k] = 0) /\ Separates(s, i)}
        text == CutAt(s, at)
        by   == InOrder(s, at)
    IN  [k \in DOMAIN text |-> [text |-> trimAscii(text[k]),
                                op |-> IF k <= Len(by) THEN OpAfter(s[by[k]]) ELSE "end"]]

splitShellParts(s) ==
    LET deep == Nesting(s)
        at   == {i \in Bare(s) : (\A k \in DOMAIN Into : deep[i][k] = 0) /\ Separates(s, i)}
        text == CutAt(s, at)
        by   == InOrder(s, at)
    IN  IF s = <<>> THEN <<>>
        ELSE [k \in DOMAIN text |-> [text |-> trimAscii(text[k]),
                                     op |-> IF k <= Len(by) THEN OpAfter(s[by[k]]) ELSE "end"]]

\* Parentheses do not protect a "|"; nothing after the last one is no command.
splitPipes(s) ==
    LET text == CutAt(s, {i \in Bare(s) : s[i] = "|"})
        used == IF Last(text) = <<>> THEN Front(text) ELSE text
    IN  [k \in DOMAIN used |-> trimAscii(used[k])]

tokenizeCommand(s) ==
    SelectSeq(CutAt(s, {i \in Bare(s) : s[i] \in Blanks}), LAMBDA w : w # <<>>)

------------------------------------------------------------------------------
(* Redirections.                                                            *)

\* The word at j: what stands between quotes of one kind, or up to a blank.
WordAt(s, j) ==
    LET quoted == j <= Len(s) /\ s[j] \in QuoteMarks
        start  == IF quoted THEN j + 1 ELSE j
        stops  == {k \in start..Len(s) : IF quoted THEN s[k] = s[j] ELSE s[k] \in Blanks}
        stop   == IF stops = {} THEN Len(s) + 1 ELSE FirstOf(stops)
    IN  [word |-> SubSeq(s, start, stop - 1), next |-> IF quoted /\ stops # {} THEN stop + 1 ELSE stop]

SkipBlanks(s, j) ==
    LET text == {k \in j..Len(s) : s[k] \notin Blanks}
    IN  IF text = {} THEN Len(s) + 1 ELSE FirstOf(text)

\* The lines of a here-document up to its delimiter.  Its leading empty lines are
\* lost; what follows the delimiter's first mention on its line is its first line.
HereDocument(rest, delimiter) ==
    LET line == FirstOf({k \in DOMAIN rest : rest[k] = "nl"} \cup {Len(rest) + 1})
        word == {k \in 1..line - 1 : rest[k] # " "}
        from == IF word # {} THEN FirstOf(word) ELSE line + 1
        body == From(rest, from)
        cut  == CutAt(body, {k \in DOMAIN body : body[k] = "nl"})
        all  == IF Last(cut) = <<>> THEN Front(cut) ELSE cut
        ends == {k \in DOMAIN all : all[k] = delimiter}
        kept == IF ends = {} THEN all ELSE Upto(all, FirstOf(ends) - 1)
        full == {k \in DOMAIN kept : kept[k] # <<>>}
    IN  IF full = {} THEN <<>> ELSE From(kept, FirstOf(full))

NoRedirect == [file |-> "none"]
Nothing == [cmd |-> <<>>, in |-> NoRedirect, out |-> NoRedirect, err |-> NoRedirect]

\* What was found first is replaced by what is found later; a here-document ends
\* the command, whatever follows it.
parseRedirects(s) ==
    LET at(i, token) == i <= Len(s) /\ s[i] = token
        keep(text, r) == [r EXCEPT !.cmd = text \o @]
        add(r, key, what) == IF r[key] = NoRedirect THEN [r EXCEPT ![key] = what] ELSE r
        from[i \in 1..Len(s) + 1] ==
          IF i > Len(s) THEN Nothing
          ELSE IF s[i] \in QuoteMarks
          THEN LET w == WordAt(s, i) IN keep(SubSeq(s, i, w.next - 1), from[w.next])
          ELSE IF s[i] = "<" /\ at(i + 1, "<") /\ at(i + 2, "<")
          THEN LET w == WordAt(s, SkipBlanks(s, i + 3)) IN add(from[w.next], "in", [text |-> w.word])
          ELSE IF s[i] = "<" /\ at(i + 1, "<")
          THEN LET w == WordAt(s, SkipBlanks(s, i + 2))
               IN  [Nothing EXCEPT !.in = [lines |-> HereDocument(From(s, w.next), w.word)]]
          ELSE LET err == s[i] = "2" /\ at(i + 1, ">") /\ (i > 1 => s[i - 1] \in Blanks)
                   j   == IF err THEN i + 2 ELSE i + 1
                   twice == at(j, ">")
                   w   == WordAt(s, SkipBlanks(s, IF twice THEN j + 1 ELSE j))
                   r   == from[w.next]
               IN  CASE err -> add(r, "err", [file |-> w.word, append |-> twice])
                     [] ~err /\ s[i] = ">" -> add(r, "out", [file |-> w.word, append |-> twice])
                     [] ~err /\ s[i] = "<" -> add(r, "in", [file |-> w.word])
                     [] OTHER -> keep(<<s[i]>>, from[i + 1])
    IN  LET r == from[1] IN [r EXCEPT !.cmd = trimAscii(@)]

------------------------------------------------------------------------------
(* Statements.                                                              *)

\* The first place at or after start where keyword is a word outside of quotes and
\* of inner statements, or 0.  Both kinds of end count for every kind of start.
findKeyword(s, start, keyword) ==
    LET t == From(s, start)
        bare == Bare(t)
        d[i \in 0..Len(t)] ==
          IF i = 0 THEN 0
          ELSE IF i \notin bare \/ ~isWordAt(s, start + i - 1, t[i]) THEN d[i - 1]
          ELSE IF t[i] \in {"if", "for", "while"} THEN d[i - 1] + 1
          ELSE IF t[i] \in {"fi", "done"} THEN d[i - 1] - 1 ELSE d[i - 1]
        hits == {i \in bare : d[i] = 0 /\ isWordAt(s, start + i - 1, keyword)}
    IN  IF hits = {} THEN 0 ELSE start + FirstOf(hits) - 1

\* Counts the statements that start with the same word only.
findMatchingKeyword(s, start, open, close) ==
    LET t == From(s, start)
        bare == Bare(t)
        word(i, w) == i \in bare /\ isWordAt(s, start + i - 1, w)
        d[i \in 0..Len(t)] ==
          IF i = 0 THEN 1
          ELSE IF word(i, open) THEN d[i - 1] + 1
          ELSE IF word(i, close) THEN d[i - 1] - 1 ELSE d[i - 1]
        hits == {i \in DOMAIN t : d[i] = 0 /\ word(i, close)}
    IN  IF hits = {} THEN 0 ELSE start + FirstOf(hits) - 1

SyntaxError == [status |-> 2]
WithoutSemicolon(s) == IF s # <<>> /\ Last(s) = ";" THEN Front(s) ELSE s

\* if, while and for cut into what they run; the names are the code's.
executeIfStatement(s) ==
    LET fi    == findMatchingKeyword(s, 2, "if", "fi")
        body  == trimAscii(SubSeq(s, 2, fi - 1))
        then  == findKeyword(body, 1, "then")
        rest  == trimAscii(From(body, then + 1))
        other == findKeyword(rest, 1, "else")
    IN  IF fi = 0 \/ then = 0 THEN SyntaxError
        ELSE [cond |-> trimAscii(Upto(body, then - 1)),
              yes  |-> IF other = 0 THEN rest ELSE trimAscii(Upto(rest, other - 1)),
              no   |-> IF other = 0 THEN <<>> ELSE trimAscii(From(rest, other + 1))]

executeWhileLoop(s) ==
    LET done == findMatchingKeyword(s, 2, "while", "done")
        body == trimAscii(SubSeq(s, 2, done - 1))
        do   == findKeyword(body, 1, "do")
    IN  IF done = 0 \/ do = 0 THEN SyntaxError
        ELSE [cond |-> trimAscii(Upto(body, do - 1)),
              body |-> WithoutSemicolon(trimAscii(From(body, do + 1)))]

\* A ";" before do stays with the last item; of an item that begins and ends with
\* the same quote mark both are taken off.
executeForLoop(s) ==
    LET unquoted(w) == IF Len(w) >= 2 /\ w[1] \in QuoteMarks /\ Last(w) = w[1] THEN Tail(Front(w)) ELSE w
        done == findMatchingKeyword(s, 2, "for", "done")
        body == trimAscii(SubSeq(s, 2, done - 1))
        in   == findKeyword(body, 1, "in")
        do   == findKeyword(body, in + 1, "do")
        words == tokenizeCommand(trimAscii(SubSeq(body, in + 1, do - 1)))
    IN  IF done = 0 \/ in = 0 \/ do = 0 THEN SyntaxError
        ELSE [var   |-> trimAscii(Upto(body, in - 1)),
              items |-> [k \in DOMAIN words |-> unquoted(words[k])],
              body  |-> WithoutSemicolon(trimAscii(From(body, do + 1)))]

\* The next clause of case: a pattern, and commands up to ";;".
Clause(s) ==
    LET parens == {i \in Bare(s) : s[i] = ")"}
        rp     == FirstOf(parens)
        after  == From(s, rp + 1)
        end    == FirstOf({i \in Bare(after) : after[i] = ";;"} \cup {Len(after) + 1})
    IN  [found |-> parens # {}, pattern |-> trimAscii(Upto(s, rp - 1)),
         commands |-> trimAscii(Upto(after, end - 1)), rest |-> From(after, end + 1)]

\* Its "in" is the first one, of a word or inside of one, quoted or not.
executeCaseStatement(s) ==
    LET ends == {i \in DOMAIN s : isWordAt(s, i, "esac")}
        body == trimAscii(SubSeq(s, 2, Max(ends) - 1))
        in   == FirstOf({i \in DOMAIN body : body[i] = "in"})
        clauses == LET RECURSIVE next(_)
                       next(t) == LET c == Clause(t)
                                  IN  IF ~c.found THEN <<>>
                                      ELSE <<[pattern |-> c.pattern, commands |-> c.commands]>> \o next(c.rest)
                   IN  next(trimAscii(From(body, in + 1)))
    IN  IF ends = {} \/ in = 0 THEN SyntaxError
        ELSE [word |-> trimAscii(Upto(body, in - 1)), clauses |-> clauses]

cutStatement(kind, s) == CASE kind = "if" -> executeIfStatement(s)
                           [] kind = "while" -> executeWhileLoop(s)
                           [] kind = "for" -> executeForLoop(s)
                           [] kind = "case" -> executeCaseStatement(s)

------------------------------------------------------------------------------
(* Lines put together from what they should come apart into.                *)

Joined(texts, by) ==
    FlattenSeq([k \in DOMAIN texts |-> IF k = 1 THEN texts[k] ELSE by \o texts[k]])

\* Commands, each with the operator after it.
LineText(list) ==
    FlattenSeq([k \in DOMAIN list |->
      list[k].text \o IF k = Len(list) THEN <<>> ELSE <<" ", list[k].by, " ">>])

WordText(words) == <<" ">> \o Joined(words, <<" ", " ">>)
PipeText(words) == Joined(words, <<" ", "|", " ">>)

\* Words and redirections, and a here-document or none.
RedirectText(j) ==
    LET lines(d) == FlattenSeq([k \in DOMAIN d |-> d[k] \o <<"nl">>])
    IN  Joined([k \in DOMAIN j.items |-> j.items[k].text], <<" ">>)
          \o IF j.document = <<>> THEN <<>>
             ELSE <<" ", "<", "<", "x", "nl">> \o lines(j.document[1]) \o <<"x", "nl", "y">>

StatementText(j) ==
    LET part(word, text) == <<word, " ">> \o text \o <<";", " ">>
    IN  CASE j.kind = "if" -> part("if", j.a) \o part("then", j.b)
                                \o (IF j.c = <<>> THEN <<>> ELSE part("else", j.c)) \o <<"fi">>
          [] j.kind = "while" -> part("while", j.a) \o part("do", j.b) \o <<"done">>
          [] j.kind = "for" -> <<"for", " ", "v", " ">> \o part("in", j.a \o <<" ", "y">>)
                                 \o part("do", j.b) \o <<"done">>
          [] j.kind = "case" -> <<"case", " ">> \o j.c \o <<" ", "in", " ", "x", ")">> \o j.a
                                  \o <<";;", " ", "y", ")", " ">> \o j.b \o <<" ", ";;", " ", "esac">>

\* What a statement is made of; a ";" stays with what is run as a list, and an item
\* that is quoted from end to end is what stands between its quotes.
Shape(j) ==
    LET list(text) == text \o <<";">>
        item(w) == IF WordAt(w, 1).next > Len(w) THEN WordAt(w, 1).word ELSE w
        items == tokenizeCommand(j.a)
    IN  CASE j.kind = "if" -> [cond |-> list(j.a), yes |-> list(j.b),
                               no |-> IF j.c = <<>> THEN <<>> ELSE list(j.c)]
          [] j.kind = "while" -> [cond |-> list(j.a), body |-> j.b]
          [] j.kind = "for" -> [var |-> <<"v">>, body |-> j.b,
                                items |-> [k \in DOMAIN items |-> item(items[k])] \o <<<<"y", ";">>>>]
          [] j.kind = "case" -> [word |-> j.c,
                                 clauses |-> <<[pattern |-> <<"x">>, commands |-> j.a],
                                               [pattern |-> <<"y">>, commands |-> j.b]>>]
==============================================================================
