---------------------------- MODULE MCShellLine ----------------------------
(* Programs of a few lines for TLC.  `main' is what the shell is given; the *)
(* other lines are its conditions, bodies, functions and traps.             *)
EXTENDS ShellLine

MCLines == {"main", "cond", "body", "fun", "inner", "trap", "err"}
MCFuns == {"f", "h"}

P(c)        == [cmd |-> c, negate |-> FALSE, op |-> ";"]
Not(c)      == [cmd |-> c, negate |-> TRUE, op |-> ";"]
And(p)      == [p EXCEPT !.op = "a"]
Or(p)       == [p EXCEPT !.op = "o"]

Run         == P([k |-> "run"])
Test        == P([k |-> "test"])
Empty       == P([k |-> "empty"])
Exit        == P([k |-> "exit", n |-> 3])
Return(n)   == P([k |-> "return", n |-> n])
SetE(b)     == P([k |-> "errexit", on |-> b])
OnExit(l)   == P([k |-> "trap_exit", line |-> l])
OnErr(l)    == P([k |-> "trap_err", line |-> l])
Def(f, l)   == P([k |-> "def", f |-> f, line |-> l])
Do(f)       == P([k |-> "call", f |-> f])
Nested(k, l) == P([k |-> k, line |-> l])
If(c, t, e) == P([k |-> "if", cond |-> c, then |-> t, else |-> e])
While(c, b) == P([k |-> "while", cond |-> c, body |-> b])
For(n, b)   == P([k |-> "for", n |-> n, body |-> b])
Source(ls)  == P([k |-> "source", lines |-> ls])

\* Programs whose lines not named are empty.
Prog(lines) == [l \in MCLines |-> IF l \in DOMAIN lines THEN lines[l] ELSE <<>>]

\* The compound parts a function or a line may consist of.
Compounds ==
    {Nested("subshell", "inner"), Nested("group", "inner"),
     Nested("bash", "inner"), Nested("case", "inner"),
     Nested("case", None), If("cond", "inner", None),
     If("cond", "inner", "body"), While("cond", "inner"),
     For(0, "inner"), For(2, "inner"), Source(<<>>),
     Source(<<"cond", "cond">>)}

Conditions == {<<Test>>, <<Test, Empty>>, <<And(Run), Test>>}
Inner == {<<Run>>, <<Return(2), Run>>, <<And(Run), Return(0), Run>>,
          <<OnExit("trap"), Run>>}

\* A function whose body is a compound part, called between other commands,
\* with and without traps and set -e.
FunctionPrograms ==
    { Prog([main |-> <<Def("f", "fun")>> \o pre \o <<Do("f"), Run>>,
            fun |-> <<c, Run>>, cond |-> cond, inner |-> inner,
            body |-> <<Or(Run), Return(5)>>, trap |-> <<Run, Run>>,
            err |-> <<Run>>]) :
        pre \in {<<>>, <<OnExit("trap")>>, <<OnErr("err")>>},
        c \in Compounds, cond \in Conditions, inner \in Inner }

\* Lists: && and || and ; with negation, set -e and traps.
ListPrograms ==
    { Prog([main |-> pre \o <<a, b, Or(Nested("subshell", "inner")), Exit>>,
            inner |-> inner, trap |-> <<Run>>, err |-> <<And(Run), Run>>]) :
        pre \in {<<>>, <<SetE(TRUE)>>, <<OnErr("err")>>,
                 <<OnExit("trap"), OnErr("err")>>,
                 <<OnExit("trap"), SetE(TRUE)>>},
        a \in {And(Run), Or(Run), And(Not([k |-> "run"])), Or(Nested("bash", "inner"))},
        b \in {And(Run), Or(Test), SetE(FALSE), OnExit(None), Do("h")},
        inner \in {<<Run, Empty>>, <<OnExit("trap"), Or(Run), Return(1)>>} }

AllPrograms == FunctionPrograms \cup ListPrograms
=============================================================================
