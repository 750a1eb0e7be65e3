------------------------------- MODULE Filters -------------------------------
(***************************************************************************)
(* What is computed by one function: what LineFilters runs, find, and what *)
(* the shell makes of a text.  One step runs one of them, and here are the *)
(* promises its result is held to.                                         *)
(***************************************************************************)
EXTENDS LineFilters, FindTree, ShellExpand

vars == filterVars

Commands == LineCommands \cup
    {"find", "line", "words", "redirects", "statement", "braces", "arithmetic", "parameter", "pattern"}

Init == Begin(Commands)

RunFind       == cmd = "find" /\ Run("find", find(task))

RunLine       == cmd = "line" /\ Run("line", splitShellParts(LineText(task)))
RunWords      == cmd = "words" /\ Run("words", [words |-> tokenizeCommand(WordText(task.words)),
                                               pipes |-> splitPipes(PipeText(task.words))])
RunRedirects  == cmd = "redirects" /\ Run("redirects", parseRedirects(RedirectText(task)))
RunStatement  == cmd = "statement" /\ Run("statement", cutStatement(task.kind, StatementText(task)))
RunBraces     == cmd = "braces" /\ Run("braces", expandAllBraces(BraceText(task)))
RunArithmetic == cmd = "arithmetic" /\ Run("arithmetic", evalArithmeticExpr(ExprText(task)))
RunParameter  == cmd = "parameter" /\
    Run("parameter", expandBraceVar(task.op, task.value, task.pattern, task.by, task.offset, task.length))
RunPattern    == cmd = "pattern" /\ Run("pattern", matchGlob(task.text, task.pattern, task.extglob))

Next == \/ FilterNext
        \/ RunFind
        \/ RunLine \/ RunWords \/ RunRedirects \/ RunStatement
        \/ RunBraces \/ RunArithmetic \/ RunParameter \/ RunPattern

Spec == Init /\ [][Next]_vars

------------------------------------------------------------------------------
\* The shell's own matcher knows no brackets and otherwise matches as the file
\* name patterns do; with extglob @(a|b) matches what one of the two matches and
\* !(a|b) what neither does.  Left out: what follows the group, which is matched
\* against the whole text again, and the other groups: ?(a) and *(a) match
\* everything, +(a) no two of them.
ShellPatternsMatch ==
    Ran("pattern") =>
      LET group == task.extglob /\ Extended(task.pattern)
          alts  == {<<97>>, <<98, Star>>}
      IN  IF ~group THEN out <=> Matches(task.pattern, task.text)
          ELSE /\ task.pattern = <<At>> \o GroupOfTwo => (out <=> \E a \in alts : Matches(a, task.text))
               /\ task.pattern = <<Bang>> \o GroupOfTwo => (out <=> \A a \in alts : ~Matches(a, task.text))

\* ${v#p}, ${v##p}, ${v%p} and ${v%%p} remove the shortest and longest beginning
\* and end that match, ${v/p/r} puts r in place of the first p and ${v//p/r} in
\* place of all that do not overlap an earlier one.  Left out: ${v%p} where p
\* matches the empty string too, which removes a character (expandBraceVar).
ParametersCut ==
    Ran("parameter") =>
      LET v == task.value
          begins == {n \in 0..Len(v) : Matches(task.pattern, SubSeq(v, 1, n))}
          ends   == {n \in 0..Len(v) : Matches(task.pattern, SubSeq(v, n + 1, Len(v)))}
          chosen == {S \in SUBSET Places(v, task.pattern) :
                       /\ \A i, k \in S : i < k => i + Len(task.pattern) <= k
                       /\ \A i \in Places(v, task.pattern) \ S :
                            \E k \in S : k < i /\ i < k + Len(task.pattern)}
          joined(S) == FlattenSeq([i \in DOMAIN v |->
                         IF i \in S THEN task.by
                         ELSE IF \E k \in S : k < i /\ i < k + Len(task.pattern) THEN <<>> ELSE <<v[i]>>])
      IN  /\ task.op = "#" => out = SubSeq(v, (IF begins = {} THEN 0 ELSE Min(begins)) + 1, Len(v))
          /\ task.op = "##" => out = SubSeq(v, (IF begins = {} THEN 0 ELSE Max(begins)) + 1, Len(v))
          /\ task.op = "%" /\ ~Matches(task.pattern, <<>>) =>
               out = SubSeq(v, 1, IF ends = {} THEN Len(v) ELSE Max(ends))
          /\ task.op = "%%" => out = SubSeq(v, 1, IF ends = {} THEN Len(v) ELSE Min(ends))
          /\ task.op = "//" => \E S \in chosen : out = joined(S)
          /\ task.op = "/" => \E S \in chosen : out = joined(IF S = {} THEN {} ELSE {Min(S)})
          /\ task.op = ":" => \A i \in DOMAIN out : out[i] = v[Max({task.offset, 0}) + i]

\* A list of commands comes apart into these commands and operators, though they
\* hold operators in quotes, brackets and statements, pipelines and words too;
\* an empty command at the end of a pipeline is not there (splitShellParts,
\* splitPipes, tokenizeCommand).  Left out: a keyword as an argument, which opens
\* or closes a statement, and a pipeline in parentheses within another one.
LinesComeApart ==
    /\ Ran("line") =>
         out = [k \in DOMAIN task |-> [text |-> task[k].text,
                                     op |-> IF k = Len(task) THEN "end" ELSE OpAfter(task[k].by)]]
    /\ Ran("words") =>
         /\ out.words = task.words
         /\ out.pipes = task.words

\* The words of a command and its redirections come apart in whatever order they
\* stand, the last one of each stream counts, and a here-document is what stands
\* before its delimiter, but for its leading empty lines (parseRedirects).
RedirectsAreFound ==
    Ran("redirects") =>
      LET of(kind) == SelectSeq(task.items, LAMBDA x : x.kind = kind)
          file(kind) == IF of(kind) = <<>> THEN NoRedirect
                        ELSE LET x == Last(of(kind)) IN [file |-> x.word, append |-> x.append]
          words == of("word")
          input == of("in")
      IN  /\ tokenizeCommand(out.cmd) = [k \in DOMAIN words |-> words[k].text]
          /\ out.out = file("out")
          /\ out.err = file("err")
          /\ out.in = IF task.document # <<>> THEN [lines |-> task.document[1]]
                     ELSE IF input # <<>> THEN [file |-> Last(input).word] ELSE NoRedirect

\* if, while, for and case are cut into the commands they were made of, though
\* these hold keywords in quotes and other statements; the last item of for keeps
\* the ";" before do.  Two are cut elsewhere, each time: a case whose word has
\* "in" anywhere in it, which ends there (main.cpp:1588), and a case in a clause of
\* a case, whose ";;" ends the outer clause (main.cpp:1619).  Left out: a for in a while and a while in a for,
\* whose done ends both (findMatchingKeyword), and an item of for that begins with
\* one quoted text and ends with another (main.cpp:1558).
StatementsAreCut ==
    LET has(text, token) == token \in Range(text)
        cutElsewhere == /\ task.kind = "case"
                        /\ has(task.c, "in") \/ has(task.a, "case") \/ has(task.b, "case")
    IN  Ran("statement") => (out = Shape(task) <=> ~cutElsewhere)

\* {a,b} gives all combinations in order, and $((...)) the value of the tree that
\* the text was written from, with as few parentheses as precedence allows.
\* Left out: a sign before a parenthesis, which reads as 0 (expandBraces,
\* evalArithmeticExpr).
ExpansionsAreExact ==
    /\ Ran("braces") =>
         tokenizeCommand(out) = SelectSeq(BraceWords(task), LAMBDA w : w # <<>>)
    /\ Ran("arithmetic") => out = ExprValue(task)

\* find does at every path what its expression means there, by the precedence of
\* the operators: at the paths within the depths that no -prune above cuts off,
\* directories before or after their entries, up to the first -quit; after that
\* -depth still evaluates the directories that have nothing left to visit.
\* -delete removes what can be removed, and the status tells when it could not
\* (find.cpp, Parser, visit).
FindMeansItsExpression == Ran("find") => AgreesWithMeaning(task, build_config(task), out)

\* -exec ... + hands every path it is reached for to its command, once and in
\* order, unless two of one command differ in their arguments only: these share
\* a batch (find.cpp, eval_primary and flush_exec_batches).
BatchesHandOverAll == Ran("find") => BatchesComplete(task, build_config(task), out)

------------------------------------------------------------------------------
\* The shell takes a line apart where it was put together, expands what is in it
\* by the rules of precedence and of products, and its patterns match and cut
\* what they describe (main.cpp).
ShellReadsAsWritten ==
    /\ LinesComeApart /\ RedirectsAreFound /\ StatementsAreCut
    /\ ExpansionsAreExact /\ ShellPatternsMatch /\ ParametersCut

\* find visits, does and hands over what its expression says (find.cpp).
FindIsExact == FindMeansItsExpression /\ BatchesHandOverAll
==============================================================================
