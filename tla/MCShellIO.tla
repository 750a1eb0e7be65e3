----------------------------- MODULE MCShellIO -----------------------------
(* Programs for TLC: `main' calls functions f and g in pipelines,           *)
(* redirections and $( ... ), which contain such parts themselves.          *)
EXTENDS ShellIO

MCLines    == {"main", "f", "g", "sub"}
MCContents == [n \in {"x"} |-> <<"old">>]
MCCaptureFiles == <<"cap1", "cap2", "cap3">>

Bare(c)   == [cmd |-> c, in |-> None, out |-> None, append |-> FALSE, err |-> None]
Say_(v)   == Bare([k |-> "say", v |-> v])
Cat_      == Bare([k |-> "cat"])
Echo_     == Bare([k |-> "echo"])
Do(l)     == Bare([k |-> "call", line |-> l])
To(s, f)  == [s EXCEPT !.out = f]
Add(s, f) == [s EXCEPT !.out = f, !.append = TRUE]
From(s, f) == [s EXCEPT !.in = f]
Err(s, f) == [s EXCEPT !.err = f]

P(segs)    == [subst |-> None, segs |-> segs]
Q(l, segs) == [subst |-> l, segs |-> segs]

Prog(lines) == [l \in MCLines |-> IF l \in DOMAIN lines THEN lines[l] ELSE <<>>]

\* A segment around g: in every position of a pipeline, and redirected.
Around(s) ==
    { <<s>>, <<s, Cat_>>, <<Say_("1"), s>>, <<Say_("1"), s, Cat_>>,
      <<To(s, "x")>>, <<Add(s, "x")>>, <<Err(s, "y")>>, <<From(s, "x")>>,
      <<To(s, "bad")>>, <<To(Err(s, "x"), "x")>>, <<To(From(s, "x"), "x")>>,
      <<Say_("1"), Cat_, Add(s, "y"), Cat_>> }

Inner == { <<P(segs), P(<<Say_("3")>>)>> : segs \in Around(Say_("2")) \cup Around(Cat_) }
         \cup { <<Q("sub", <<Echo_>>), P(<<Say_("3")>>)>>,
                <<Q("sub", <<Echo_, Cat_>>)>>,
                <<Q("sub", <<To(Echo_, "y")>>), P(<<From(Cat_, "y")>>)>> }

\* f around g, both called from main, with or without a $( ) first.
AllPrograms ==
    { Prog([main |-> <<first, P(<<Say_("0")>>)>>, f |-> <<P(outer)>>,
            g |-> inner, sub |-> <<P(<<Say_("4")>>), P(<<Cat_>>)>>]) :
        first \in {P(<<Do("f")>>), Q("f", <<Echo_>>), Q("sub", <<Do("f"), Cat_>>)},
        outer \in Around(Do("g")), inner \in Inner }

\* echo $(echo 1 | cat)
PipeInSubstitution ==
    { Prog([main |-> <<Q("sub", <<Echo_>>)>>,
            sub |-> <<P(<<Say_("1"), Cat_>>)>>]) }
=============================================================================
