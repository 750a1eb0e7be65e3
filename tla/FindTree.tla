------------------------------ MODULE FindTree ------------------------------
(***************************************************************************)
(* find (commands/find.cpp): the expression is parsed by recursive descent *)
(* and evaluated at every path of a walk, in which -prune, -quit, -depth   *)
(* and -delete decide what is visited and when.  A path is a sequence of   *)
(* numbers below its root, and a directory lists its entries in the order  *)
(* of these.  What matters of a job:                                       *)
(*   [args, tree, dirs, match, good, locked]                               *)
(* the paths and directories there are, the paths the one test "name" is   *)
(* true of, those a command run on them succeeds for, and those that       *)
(* cannot be removed.  "+x" and "+y" stand for -exec of one command with   *)
(* two templates, "+z" for another command, each ended by "+".             *)
(***************************************************************************)
EXTENDS Integers, Sequences, FiniteSets, SequencesExt

Batched == {"+x", "+y", "+z"}
OutputActions == {"print", "exec", "delete"} \cup Batched
Primaries == {"name", "prune", "quit"} \cup OutputActions
Operators == {"!", "(", ")", "-o", "-a"}

RootOf(arg) == CASE arg = "r1" -> <<1>> [] arg = "r2" -> <<2>> [] OTHER -> <<9>>
Depths(arg) == CASE arg = "0" -> 0 [] arg = "1" -> 1 [] OTHER -> 2

\* The roots come first; the global options stand anywhere and are not tokens.
tokenize_expression(args) ==
    LET takes(i) == IF args[i] \in {"-maxdepth", "-mindepth"} THEN 2
                    ELSE IF args[i] = "-depth" THEN 1 ELSE 0
        from[i \in 1..Len(args) + 2, expression \in BOOLEAN] ==
          IF i > Len(args) THEN [paths |-> <<>>, tokens |-> <<>>]
          ELSE IF takes(i) > 0 THEN from[i + takes(i), expression]
          ELSE IF expression \/ args[i] \in Primaries \cup Operators
          THEN LET r == from[i + 1, TRUE] IN [r EXCEPT !.tokens = <<args[i]>> \o @]
          ELSE LET r == from[i + 1, FALSE] IN [r EXCEPT !.paths = <<args[i]>> \o @]
    IN  from[1, FALSE]

------------------------------------------------------------------------------
(* The parser: [ok, node, pos], pos being the first token that is left.     *)

Refused == [ok |-> FALSE, node |-> <<>>, pos |-> 0]

Peek(t, pos) == IF pos <= Len(t) THEN t[pos] ELSE "end"

RECURSIVE parse_or(_, _), parse_and(_, _), parse_unary(_, _), OrRest(_, _), AndRest(_, _)

parse_unary(t, pos) ==
    CASE Peek(t, pos) = "!" ->
           LET c == parse_unary(t, pos + 1)
           IN  IF c.ok THEN [c EXCEPT !.node = <<"not", c.node>>] ELSE c
      [] Peek(t, pos) = "(" ->
           LET c == parse_or(t, pos + 1)
           IN  IF c.ok /\ Peek(t, c.pos) = ")" THEN [c EXCEPT !.pos = @ + 1] ELSE Refused
      [] Peek(t, pos) \in Primaries -> [ok |-> TRUE, node |-> <<t[pos]>>, pos |-> pos + 1]
      [] OTHER -> Refused

\* What follows an operand: -a, or an operand without it.
AndRest(t, l) ==
    IF ~l.ok \/ Peek(t, l.pos) \notin Primaries \cup {"-a", "!", "("} THEN l
    ELSE LET r == parse_unary(t, IF Peek(t, l.pos) = "-a" THEN l.pos + 1 ELSE l.pos)
         IN  AndRest(t, IF r.ok THEN [r EXCEPT !.node = <<"and", l.node, r.node>>] ELSE r)

parse_and(t, pos) == AndRest(t, parse_unary(t, pos))

OrRest(t, l) ==
    IF ~l.ok \/ Peek(t, l.pos) # "-o" THEN l
    ELSE LET r == parse_and(t, l.pos + 1)
         IN  OrRest(t, IF r.ok THEN [r EXCEPT !.node = <<"or", l.node, r.node>>] ELSE r)

parse_or(t, pos) == OrRest(t, parse_and(t, pos))

------------------------------------------------------------------------------
(* Evaluation.  The state of a run: what was done, in order, the batches,   *)
(* what is removed, and the flags of Config.                                *)

FreshRun == [events |-> <<>>, batches |-> <<>>, gone |-> {},
             error |-> FALSE, quit |-> FALSE, prune |-> FALSE]

Entries(j, p) ==
    LET kids == {q \in j.tree : Len(q) = Len(p) + 1 /\ SubSeq(q, 1, Len(p)) = p}
    IN  SetToSortSeq(kids, LAMBDA q, r : q[Len(q)] < r[Len(r)])

\* A batch is taken for the same when command and number of arguments are.
SameBatch(a, b) == a = b \/ {a, b} = {"+x", "+y"}

AddToBatch(st, x, p) ==
    LET n == Len(st.batches)
    IN  IF n > 0 /\ SameBatch(st.batches[n].template, x)
        THEN [st EXCEPT !.batches[n].paths = Append(@, p)]
        ELSE [st EXCEPT !.batches = Append(@, [template |-> x, paths |-> <<p>>])]

\* [value, st]
eval_primary(j, x, p, st) ==
    LET did == [st EXCEPT !.events = Append(@, <<x, p>>)]
        can == p \notin j.locked /\ ToSet(Entries(j, p)) \subseteq st.gone
    IN  CASE x = "name"   -> [value |-> p \in j.match, st |-> st]
          [] x = "prune"  -> [value |-> TRUE, st |-> [st EXCEPT !.prune = TRUE]]
          [] x = "quit"   -> [value |-> TRUE, st |-> [st EXCEPT !.quit = TRUE]]
          [] x = "print"  -> [value |-> TRUE, st |-> did]
          [] x = "exec"   -> [value |-> p \in j.good, st |-> did]
          [] x = "delete" -> [value |-> can,
                              st |-> IF can THEN [did EXCEPT !.gone = @ \cup {p}]
                                     ELSE [did EXCEPT !.error = TRUE]]
          [] x \in Batched -> [value |-> TRUE, st |-> AddToBatch(st, x, p)]

RECURSIVE evaluate_node(_, _, _, _)
evaluate_node(j, node, p, st) ==
    CASE node[1] = "not" ->
           LET r == evaluate_node(j, node[2], p, st) IN [r EXCEPT !.value = ~@]
      [] node[1] \in {"and", "or"} ->
           LET l == evaluate_node(j, node[2], p, st)
           IN  IF l.value = (node[1] = "or") THEN l ELSE evaluate_node(j, node[3], p, l.st)
      [] OTHER -> eval_primary(j, node[1], p, st)

\* contains_output_action, contains_delete.
ContainsAny(tokens, set) == ToSet(tokens) \cap set # {}

------------------------------------------------------------------------------
(* The walk.  cfg: [ast, hasAst, mindepth, maxdepth, postorder, silent].    *)

Evaluate(j, cfg, p, st) ==
    LET r == IF cfg.hasAst THEN evaluate_node(j, cfg.ast, p, st)
             ELSE [value |-> TRUE, st |-> st]
    IN  IF r.value /\ ~cfg.silent THEN [r.st EXCEPT !.events = Append(@, <<"print", p>>)]
        ELSE r.st

RECURSIVE visit(_, _, _, _, _), visitEntries(_, _, _, _, _), scan_roots(_, _, _, _)

\* [st, left]: left is set when -quit leaves entries that are not visited.
visitEntries(j, cfg, entries, depth, st) ==
    IF entries = <<>> THEN [st |-> st, left |-> FALSE]
    ELSE IF st.quit THEN [st |-> st, left |-> TRUE]
    ELSE visitEntries(j, cfg, Tail(entries), depth, visit(j, cfg, Head(entries), depth, st))

Mut_visit(j, cfg, p, depth, st) ==
    IF depth > cfg.maxdepth \/ st.quit THEN st
    ELSE LET inside(s) == IF p \in j.dirs THEN visitEntries(j, cfg, Entries(j, p), depth + 1, s)
                          ELSE [st |-> s, left |-> FALSE]
             first == IF cfg.postorder THEN inside(st) ELSE [st |-> st, left |-> FALSE]
             here  == IF depth >= cfg.mindepth THEN Evaluate(j, cfg, p, first.st) ELSE first.st
         IN  IF first.left THEN first.st
             ELSE IF here.quit \/ cfg.postorder THEN here
             ELSE IF here.prune THEN here
             ELSE inside(here).st

\* In post-order the flag -quit sets is looked at before each entry, and not
\* after the last one.
visit(j, cfg, p, depth, st) ==
    IF depth > cfg.maxdepth \/ st.quit THEN st
    ELSE LET inside(s) == IF p \in j.dirs THEN visitEntries(j, cfg, Entries(j, p), depth + 1, s)
                          ELSE [st |-> s, left |-> FALSE]
             first == IF cfg.postorder THEN inside(st) ELSE [st |-> st, left |-> FALSE]
             here  == IF depth >= cfg.mindepth THEN Evaluate(j, cfg, p, first.st) ELSE first.st
         IN  IF first.left THEN first.st
             ELSE IF here.quit \/ cfg.postorder THEN here
             ELSE IF here.prune THEN [here EXCEPT !.prune = FALSE]
             ELSE inside(here).st

scan_roots(j, cfg, roots, st) ==
    IF roots = <<>> \/ st.quit THEN st
    ELSE scan_roots(j, cfg, Tail(roots),
                    IF RootOf(Head(roots)) \in j.tree \ st.gone
                    THEN visit(j, cfg, RootOf(Head(roots)), 0, st)
                    ELSE [st EXCEPT !.error = TRUE])

\* The last value given for a depth option, or what it is without one.
DepthOption(args, name, default) ==
    LET at == {i \in 1..Len(args) - 1 : args[i] = name}
    IN  IF at = {} THEN default
        ELSE Depths(args[(CHOOSE i \in at : \A k \in at : k <= i) + 1])

build_config(j) ==
    LET t   == tokenize_expression(j.args)
        ast == parse_or(t.tokens, 1)
    IN  [ok |-> t.tokens = <<>> \/ (ast.ok /\ ast.pos = Len(t.tokens) + 1),
         hasAst |-> t.tokens # <<>>, ast |-> ast.node, tokens |-> t.tokens,
         roots |-> IF t.paths = <<>> THEN <<"r1">> ELSE t.paths,
         mindepth |-> DepthOption(j.args, "-mindepth", 0), maxdepth |-> DepthOption(j.args, "-maxdepth", 9),
         postorder |-> "-depth" \in ToSet(j.args) \/ ContainsAny(t.tokens, {"delete"}),
         silent |-> ContainsAny(t.tokens, OutputActions)]

Outcome(cfg, st) ==
    IF cfg.ok THEN [status |-> IF st.error THEN 1 ELSE 0, events |-> st.events,
                    batches |-> st.batches, gone |-> st.gone, quit |-> st.quit]
    ELSE [status |-> 1, events |-> <<>>, batches |-> <<>>, gone |-> {}, quit |-> FALSE]

find(j) ==
    LET cfg == build_config(j)
    IN  Outcome(cfg, scan_roots(j, cfg, cfg.roots, FreshRun))

------------------------------------------------------------------------------
(* The reference: what an expression means at one path, by cutting it at    *)
(* its weakest operator; what is reached, and in which order.               *)

Counted(t, x, i) == Cardinality({k \in 1..i - 1 : t[k] = x})
Outer(t) == {i \in DOMAIN t : Counted(t, "(", i) = Counted(t, ")", i)}
Least(S) == CHOOSE i \in S : \A k \in S : i <= k

\* [ok, value, acts]: acts are the primaries that are reached, in order.
RECURSIVE Meaning(_, _)
Meaning(t, true) ==
    LET ors    == {i \in Outer(t) : t[i] = "-o"}
        starts == {i \in Outer(t) : t[i] \notin {"-a", ")"} /\ (i = 1 \/ t[i - 1] # "!")}
        second == Least(starts \ {Least(starts)})
        cut(i, k, stop) ==
          LET l == Meaning(SubSeq(t, 1, i), true)
              r == Meaning(SubSeq(t, k, Len(t)), true)
          IN  [ok |-> l.ok /\ r.ok, value |-> IF l.value = stop THEN stop ELSE r.value,
               acts |-> IF l.value = stop THEN l.acts ELSE l.acts \o r.acts]
        bad == [ok |-> FALSE, value |-> FALSE, acts |-> <<>>]
    IN  CASE t = <<>> -> bad
          [] t # <<>> /\ ors # {} -> cut(Least(ors) - 1, Least(ors) + 1, TRUE)
          [] t # <<>> /\ ors = {} /\ Cardinality(starts) > 1 ->
               cut(IF t[second - 1] = "-a" THEN second - 2 ELSE second - 1, second, FALSE)
          [] OTHER ->
               IF t[1] = "!" THEN LET c == Meaning(Tail(t), true) IN [c EXCEPT !.value = ~@]
               ELSE IF t[1] = "(" /\ t[Len(t)] = ")" THEN Meaning(SubSeq(t, 2, Len(t) - 1), true)
               ELSE IF Len(t) = 1 /\ t[1] \in Primaries
               THEN [ok |-> TRUE, value |-> t[1] \in true, acts |-> t] ELSE bad

Above(p, q) == Len(p) < Len(q) /\ SubSeq(q, 1, Len(p)) = p

\* p comes before q in the listing, directories before or after their entries.
Earlier(p, q, postorder) ==
    IF Above(p, q) THEN ~postorder ELSE IF Above(q, p) THEN postorder
    ELSE \E i \in 1..Len(p) : i <= Len(q) /\ p[i] < q[i] /\ SubSeq(p, 1, i - 1) = SubSeq(q, 1, i - 1)

\* The primaries that are true at p; removing works when the entries are gone.
True(j, p, emptied) ==
    {"prune", "quit", "print"} \cup Batched
      \cup (IF p \in j.match THEN {"name"} ELSE {}) \cup (IF p \in j.good THEN {"exec"} ELSE {})
      \cup (IF emptied /\ p \notin j.locked THEN {"delete"} ELSE {})

\* The roots are paths of one name, and no root is given twice.
InDepth(cfg, p) == /\ Len(p) - 1 \in cfg.mindepth..cfg.maxdepth
                   /\ \E k \in DOMAIN cfg.roots : RootOf(cfg.roots[k]) = <<p[1]>>

\* What a run with -delete and without -quit removes.
Removed(j, cfg) ==
    LET below[n \in 0..4] ==   \* of the paths longer than 4 - n, those removed
          IF n = 0 THEN {}
          ELSE below[n - 1] \cup
               {p \in j.tree :
                  /\ Len(p) = 5 - n /\ InDepth(cfg, p)
                  /\ LET t == True(j, p, ToSet(Entries(j, p)) \subseteq below[n - 1])
                     IN  "delete" \in t /\ "delete" \in ToSet(Meaning(cfg.tokens, t).acts)}
    IN  below[4]

\* What the expression means at each path.
Meanings(j, cfg, removed) ==
    [p \in j.tree |->
       IF cfg.tokens = <<>> THEN [ok |-> TRUE, value |-> TRUE, acts |-> <<>>]
       ELSE Meaning(cfg.tokens, True(j, p, ToSet(Entries(j, p)) \subseteq removed))]

\* The paths within the depths that no -prune above cuts off.
Listing(j, cfg, mean) ==
    SetToSortSeq({p \in j.tree :
                    /\ InDepth(cfg, p)
                    /\ cfg.postorder \/ \A a \in j.tree :
                         Above(a, p) /\ InDepth(cfg, a) => "prune" \notin ToSet(mean[a].acts)},
                 LAMBDA p, q : Earlier(p, q, cfg.postorder))

Quits(mean, order) == {i \in DOMAIN order : "quit" \in ToSet(mean[order[i]].acts)}

\* Up to the first -quit; after it -depth still evaluates the directories that
\* have nothing left to visit.
Evaluated(j, cfg, order, quits) ==
    LET last == order[Least(quits)]
        over(p) == Above(p, last) /\ \A q \in j.tree : Above(p, q) /\ Earlier(last, q, TRUE) => Above(q, last)
    IN  IF quits = {} THEN order
        ELSE SubSeq(order, 1, Least(quits)) \o (IF cfg.postorder THEN SelectSeq(order, over) ELSE <<>>)

\* What is done at a path, in order.
DoneAt(cfg, p, m) ==
    IF ~cfg.silent THEN IF m.value THEN <<<<"print", p>>>> ELSE <<>>
    ELSE LET s == SelectSeq(m.acts, LAMBDA x : x \in OutputActions \ Batched)
         IN  [k \in DOMAIN s |-> <<s[k], p>>]

FailsOn(j, cfg, removed, mean, seen, quits) ==
    \/ quits = {} /\ \E k \in DOMAIN cfg.roots : RootOf(cfg.roots[k]) \notin j.tree
    \/ \E p \in ToSet(seen) \ removed : "delete" \in ToSet(mean[p].acts)

Agrees(j, cfg, removed, mean, quits, seen, result) ==
    IF ~mean[<<1>>].ok THEN result.status = 1 /\ result.events = <<>>
    ELSE /\ result.events = FlattenSeq([i \in DOMAIN seen |-> DoneAt(cfg, seen[i], mean[seen[i]])])
         /\ result.gone = removed \cap ToSet(seen)
         /\ result.status = IF FailsOn(j, cfg, removed, mean, seen, quits) THEN 1 ELSE 0

\* result is what find gives for job j.
AgreesWithMeaning(j, cfg, result) ==
    LET removed == Removed(j, cfg)
        mean  == Meanings(j, cfg, removed)
        order == Listing(j, cfg, mean)
        quits == Quits(mean, order)
    IN  Agrees(j, cfg, removed, mean, quits, Evaluated(j, cfg, order, quits), result)

BatchesComplete(j, cfg, result) ==
    LET reached(x) == SelectSeq(SetToSortSeq({p \in j.tree : InDepth(cfg, p)},
                                             LAMBDA p, q : Earlier(p, q, cfg.postorder)),
                                LAMBDA p : x \in ToSet(Meaning(cfg.tokens, True(j, p, FALSE)).acts))
        handed(x) == LET s == SelectSeq(result.batches, LAMBDA b : b.template = x)
                     IN  FlattenSeq([k \in DOMAIN s |-> s[k].paths])
        used == ToSet(cfg.tokens)
    IN  (cfg.ok /\ ~result.quit /\ used \cap {"prune", "delete"} = {}) =>
          \A x \in used \cap Batched :
            (Cardinality({i \in DOMAIN cfg.tokens : SameBatch(cfg.tokens[i], x)}) = 1) =>
              handed(x) = reached(x)
==============================================================================
