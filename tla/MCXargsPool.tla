----------------------------- MODULE MCXargsPool -----------------------------
(***************************************************************************)
(* Instances of XargsPool for TLC.  "a" to "d" add one character to the    *)
(* command line; "wide" adds four, so that it overflows -s 3 by itself,    *)
(* and -s 3 takes two of the others (the command itself counts for one).   *)
(***************************************************************************)
EXTENDS XargsPool

MCItems      == {"a", "b", "c", "d", "wide"}
MCWeight     == [i \in MCItems |-> IF i = "wide" THEN 4 ELSE 1]
MCBaseWeight == 1

Plain == [maxArgs |-> 0, maxChars |-> 0, maxProcs |-> 1, replace |-> FALSE,
          byLines |-> FALSE, exitIfExceeded |-> FALSE, noRunIfEmpty |-> FALSE,
          interactive |-> FALSE, slotVar |-> FALSE]

\* One group: -n, -s, -x, -I, -p, -r and -P in combination.
OneGroup == { << <<>> >>, << <<"a", "b", "c">> >>, << <<"a", "wide", "c", "d">> >> }

OneGroupOptions ==
    { [Plain EXCEPT !.maxArgs = n, !.maxChars = s, !.exitIfExceeded = x,
                    !.noRunIfEmpty = r, !.interactive = p, !.maxProcs = k] :
        k \in {1, 2}, n \in {0, 1, 2}, s \in {0, 3}, x \in BOOLEAN, r \in BOOLEAN,
        p \in BOOLEAN }
    \cup { [Plain EXCEPT !.replace = TRUE, !.exitIfExceeded = TRUE,
                         !.maxChars = s, !.maxProcs = 2] : s \in {0, 3} }

\* A pool of two or three with slots.
Parallel == { << <<"a", "b", "c", "d">> >> }

ParallelOptions ==
    { [Plain EXCEPT !.maxArgs = 1, !.maxProcs = k, !.slotVar = v,
                    !.interactive = p] :
        k \in {1, 2, 3}, v \in BOOLEAN, p \in BOOLEAN }

\* -L: one call of execute_command per group; -s splits a group.
Lines == { <<>>, << <<"a", "b", "c">>, <<"d">> >>,
           << <<"a", "wide">>, <<"b", "c">>, <<"d">> >> }

LinesOptions ==
    { [Plain EXCEPT !.byLines = TRUE, !.exitIfExceeded = TRUE,
                    !.maxChars = s, !.maxProcs = k, !.slotVar = TRUE] :
        s \in {0, 2, 3}, k \in {1, 2, 3} }

\* Which options go with which inputs is what Consistent says.
AllInputs == OneGroup \cup Parallel \cup Lines
AllOptions == OneGroupOptions \cup ParallelOptions \cup LinesOptions
==============================================================================
