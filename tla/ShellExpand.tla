----------------------------- MODULE ShellExpand -----------------------------
(***************************************************************************)
(* Main/main.cpp: what the shell puts in place of braces, ${...},          *)
(* $((...)) and patterns.  Patterns and values are sequences of numbers as *)
(* in Wildcard; the other texts are sequences of tokens as in ShellText.   *)
(***************************************************************************)
EXTENDS ShellText, Wildcard

------------------------------------------------------------------------------
(* {a,b}                                                                    *)

Depth(s, at) ==
    LET d[i \in 0..Len(s)] ==
          IF i = 0 THEN 0
          ELSE IF i \in at /\ s[i] = "{" THEN d[i - 1] + 1
          ELSE IF i \in at /\ s[i] = "}" THEN d[i - 1] - 1 ELSE d[i - 1]
    IN  d

\* The first group of braces outside of quotes, if it has a comma of its own, is
\* replaced by its alternatives, each with what stands around the group.
expandBraces(s) ==
    LET bare  == Bare(s)
        d     == Depth(s, bare)
        close == FirstOf({i \in bare : s[i] = "}" /\ d[i] = 0})
        open  == Max({i \in bare : i < close /\ s[i] = "{" /\ d[i - 1] = 0})
        inner == SubSeq(s, open + 1, close - 1)
        inside == Bare(inner)
        commas == {i \in inside : inner[i] = "," /\ Depth(inner, inside)[i] = 0}
        alts  == CutAt(inner, commas)
    IN  IF close = 0 THEN s
        ELSE IF commas = {} THEN s
        ELSE Tail(FlattenSeq([k \in DOMAIN alts |->
                                <<" ">> \o Upto(s, open - 1) \o alts[k] \o From(s, close + 1)]))

\* Blanks end a word, those in quotes too.
expandBracesInWords(s) ==
    LET gaps  == {i \in DOMAIN s : s[i] \in Blanks}
        words == CutAt(s, gaps)
        by    == InOrder(s, gaps)
    IN  FlattenSeq([k \in DOMAIN words |->
          (IF words[k] = <<>> THEN <<>> ELSE expandBraces(words[k])) \o
          (IF k <= Len(by) THEN <<s[by[k]]>> ELSE <<>>)])

\* The first loop of expandAll: until nothing changes.
RECURSIVE expandAllBraces(_)
expandAllBraces(s) ==
    LET next == expandBracesInWords(s) IN IF next = s THEN s ELSE expandAllBraces(next)

------------------------------------------------------------------------------
(* $((...)): a token is a digit, a variable, an operator or a parenthesis.  *)

Numbers == [digit \in {"0", "1", "2", "3"} |->
              CASE digit = "0" -> 0 [] digit = "1" -> 1 [] digit = "2" -> 2 [] OTHER -> 3]
Variables == [v |-> 5]   \* what stoll makes of a variable's value
Levels == [cmp |-> {">=", "<=", "==", "!=", ">", "<"}, add |-> {"+", "-"}, mul |-> {"*", "/", "%"}]

Truth(b) == IF b THEN 1 ELSE 0
Magnitude(n) == IF n < 0 THEN -n ELSE n
Quotient(a, b) == \* C++ rounds towards zero
    IF (a < 0) = (b < 0) THEN Magnitude(a) \div Magnitude(b) ELSE -(Magnitude(a) \div Magnitude(b))

Apply(op, a, b) ==
    CASE op = "+" -> a + b
      [] op = "-" -> a - b
      [] op = "*" -> a * b
      [] op = "/" -> IF b = 0 THEN 0 ELSE Quotient(a, b)
      [] op = "%" -> IF b = 0 THEN 0 ELSE a - b * Quotient(a, b)
      [] op = ">=" -> Truth(a >= b)
      [] op = "<=" -> Truth(a <= b)
      [] op = "==" -> Truth(a = b)
      [] op = "!=" -> Truth(a # b)
      [] op = ">" -> Truth(a > b)
      [] op = "<" -> Truth(a < b)

Token(t, pos) == IF pos <= Len(t) THEN t[pos] ELSE "end"

RECURSIVE parseTernary(_, _), parsePrimary(_, _), parseBinary(_, _, _), MoreOf(_, _, _)

\* A sign belongs to a number or a name; before anything else it is a 0 of its own.
parsePrimary(t, pos) ==
    LET start == IF Token(t, pos) = "-" THEN pos + 1 ELSE pos
        sign(n) == IF start # pos THEN -n ELSE n
        x == Token(t, start)
    IN  CASE Token(t, pos) = "(" ->
               LET r == parseTernary(t, pos + 1)
               IN  IF Token(t, r.pos) = ")" THEN [r EXCEPT !.pos = @ + 1] ELSE r
          [] Token(t, pos) # "(" /\ x \in DOMAIN Numbers -> [value |-> sign(Numbers[x]), pos |-> start + 1]
          [] Token(t, pos) # "(" /\ x \in DOMAIN Variables -> [value |-> sign(Variables[x]), pos |-> start + 1]
          [] OTHER -> [value |-> 0, pos |-> start]

Tighter(level) == CASE level = "cmp" -> "add" [] level = "add" -> "mul" [] OTHER -> "primary"

\* parseComparison, parseAddSub and parseMulDiv: operands of the tighter level,
\* taken together from the left.
parseBinary(t, pos, level) ==
    IF level = "primary" THEN parsePrimary(t, pos)
    ELSE MoreOf(t, parseBinary(t, pos, Tighter(level)), level)

MoreOf(t, left, level) ==
    IF Token(t, left.pos) \notin Levels[level] THEN left
    ELSE LET right == parseBinary(t, left.pos + 1, Tighter(level))
         IN  MoreOf(t, [value |-> Apply(t[left.pos], left.value, right.value), pos |-> right.pos], level)

parseTernary(t, pos) ==
    LET c == parseBinary(t, pos, "cmp")
        a == parseTernary(t, c.pos + 1)
        b == parseTernary(t, a.pos + 1)
    IN  IF Token(t, c.pos) # "?" THEN c
        ELSE IF Token(t, a.pos) # ":" THEN [c EXCEPT !.pos = a.pos]
        ELSE [value |-> IF c.value # 0 THEN a.value ELSE b.value, pos |-> b.pos]

\* What is left after the expression is ignored.
evalArithmeticExpr(t) == parseTernary(t, 1).value

------------------------------------------------------------------------------
(* Patterns of case, ${...} and file names.                                 *)

LeftParen == 40
RightParen == 41
Bar == 124
At == 64
Bang == 33
Plus == 43

\* The loop with one star to come back to.
matchPlain(t, p) ==
    LET RECURSIVE go(_, _, _, _)
        go(ti, pi, star, tstar) ==
          IF ti > Len(t) THEN \A k \in pi..Len(p) : p[k] = Star
          ELSE IF pi <= Len(p) /\ p[pi] \in {Question, t[ti]} THEN go(ti + 1, pi + 1, star, tstar)
          ELSE IF pi <= Len(p) /\ p[pi] = Star THEN go(ti, pi + 1, pi, ti)
          ELSE star # 0 /\ go(tstar + 1, star + 1, star, tstar + 1)
    IN  go(1, 1, 0, 0)

ParenDepth(p) ==
    LET d[i \in 0..Len(p)] ==
          IF i = 0 THEN 0
          ELSE IF p[i] = LeftParen THEN d[i - 1] + 1
          ELSE IF p[i] = RightParen THEN d[i - 1] - 1 ELSE d[i - 1]
    IN  d

Extended(p) == Len(p) > 2 /\ p[1] \in {Bang, At, Star, Plus, Question} /\ p[2] = LeftParen

\* With extglob the alternatives and what follows them are each matched against
\* the whole text; only * and + cut a piece off it.
RECURSIVE matchGlob(_, _, _)
matchGlob(t, p, extglob) ==
    IF ~(extglob /\ Extended(p)) THEN matchPlain(t, p)
    ELSE LET closes == {i \in 3..Len(p) : ParenDepth(p)[i] = 0}
             close  == IF closes = {} THEN Len(p) ELSE FirstOf(closes)
             inner  == SubSeq(p, 3, close - 1)
             bars   == {i \in DOMAIN inner : inner[i] = Bar /\ ParenDepth(inner)[i] = 0}
             alts   == ToSet(CutAt(inner, bars))
             rest   == From(p, close + 1)
             follows == rest = <<>> \/ matchGlob(t, rest, extglob)
             any(s) == \E a \in alts : matchGlob(s, a, extglob)
             pieces == \E n \in 1..Len(t) : any(Upto(t, n)) /\ matchGlob(From(t, n + 1), p, extglob)
         IN  CASE p[1] = Bang -> follows /\ ~any(t)
               [] p[1] = At -> any(t) /\ follows
               [] p[1] = Question -> follows
               [] p[1] = Star -> follows \/ (any(t) /\ pieces)
               [] OTHER -> any(t) /\ (follows \/ pieces)

------------------------------------------------------------------------------
(* ${name...}                                                               *)

Places(v, p) == {i \in 1..Len(v) - Len(p) + 1 : SubSeq(v, i, i + Len(p) - 1) = p}

\* std::string::find from a place on; the empty string is found at once.
RECURSIVE ReplaceFrom(_, _, _, _)
ReplaceFrom(v, pos, p, r) ==
    LET hits == {i \in Places(v, p) : i >= pos}
        i == FirstOf(hits)
    IN  IF hits = {} THEN v
        ELSE ReplaceFrom(Upto(v, i - 1) \o r \o From(v, i + Len(p)), i + Len(r), p, r)

Replaced(v, i, p, r) == IF i = 0 THEN v ELSE Upto(v, i - 1) \o r \o From(v, i + Len(p))

\* The operator op on a value v; "%" tries the last character first and the empty
\* suffix last, which removes nothing.
expandBraceVar(op, v, p, r, offset, length) ==
    LET prefixes == {n \in 0..Len(v) : matchGlob(Upto(v, n), p, FALSE)}
        suffixes == {n \in 0..Len(v) - 1 : matchGlob(From(v, n + 1), p, FALSE)}
    IN  CASE op = "##" -> IF prefixes = {} THEN v ELSE From(v, Max(prefixes) + 1)
          [] op = "#" -> IF prefixes = {} THEN v ELSE From(v, Min(prefixes) + 1)
          [] op = "%%" -> IF suffixes = {} THEN v ELSE Upto(v, Min(suffixes))
          [] op = "%" -> IF suffixes = {} THEN v ELSE Upto(v, Max(suffixes))
          [] op = "//" -> ReplaceFrom(v, 1, p, r)
          [] op = "/" -> Replaced(v, FirstOf(Places(v, p)), p, r)
          [] op = ":" -> LET o == Max({offset, 0})
                         IN  IF o >= Len(v) THEN <<>>
                             ELSE IF length < 0 THEN From(v, o + 1) ELSE SubSeq(v, o + 1, Min({o + length, Len(v)}))
          [] op \in {":-", ":="} -> IF v = <<>> THEN r ELSE v

------------------------------------------------------------------------------
(* References.                                                              *)

\* (a|b*)
GroupOfTwo == <<LeftParen, 97, Bar, 98, Star, RightParen>>

\* The words a word with groups stands for: a letter, or a sequence of words.
RECURSIVE BraceText(_), BraceWords(_)
BraceText(w) == FlattenSeq([k \in DOMAIN w |->
    IF w[k] \in {<<"x">>, <<"y">>, <<"'">>, <<"\"">>, <<",">>} THEN w[k]
    ELSE <<"{">> \o Tail(FlattenSeq([n \in DOMAIN w[k] |-> <<",">> \o BraceText(w[k][n])])) \o <<"}">>])
BraceWords(w) ==
    IF w = <<>> THEN <<<<>>>>
    ELSE LET heads == IF w[1] \in {<<"x">>, <<"y">>, <<"'">>, <<"\"">>, <<",">>} THEN <<w[1]>>
                      ELSE FlattenSeq([n \in DOMAIN w[1] |-> BraceWords(w[1][n])])
             tails == BraceWords(Tail(w))
         IN  FlattenSeq([h \in DOMAIN heads |-> [t \in DOMAIN tails |-> heads[h] \o tails[t]]])

\* Expressions as trees: how tightly one binds, its text and its value.
Binds(e) == CASE Len(e) = 1 -> 5 [] Len(e) = 4 -> 1 [] e[1] = "neg" -> 5
              [] OTHER -> CASE e[1] \in Levels.mul -> 4 [] e[1] \in Levels.add -> 3 [] OTHER -> 2
RECURSIVE ExprText(_), ExprValue(_)
ExprText(e) ==
    LET in(x, least) == IF Binds(x) >= least THEN ExprText(x) ELSE <<"(">> \o ExprText(x) \o <<")">>
    IN  CASE Len(e) = 1 -> e
          [] e[1] = "neg" -> <<"-">> \o ExprText(e[2])
          [] Len(e) = 4 -> in(e[2], 2) \o <<"?">> \o ExprText(e[3]) \o <<":">> \o ExprText(e[4])
          [] OTHER -> in(e[2], Binds(e)) \o <<e[1]>> \o in(e[3], Binds(e) + 1)
ExprValue(e) ==
    CASE Len(e) = 1 -> IF e[1] = "v" THEN Variables.v ELSE Numbers[e[1]]
      [] e[1] = "neg" -> -ExprValue(e[2])
      [] Len(e) = 4 -> IF ExprValue(e[2]) # 0 THEN ExprValue(e[3]) ELSE ExprValue(e[4])
      [] OTHER -> Apply(e[1], ExprValue(e[2]), ExprValue(e[3]))
==============================================================================
