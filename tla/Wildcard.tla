------------------------------- MODULE Wildcard -------------------------------
(***************************************************************************)
(* utils/wildcard.h: file name patterns.  A pattern and a text are         *)
(* sequences of characters, a character is a number so that ranges can     *)
(* compare it; the special ones are named here.                            *)
(***************************************************************************)
EXTENDS Integers, Sequences, SequencesExt

Star == 42
Question == 63
Open == 91
Close == 93
Caret == 94
Dash == 45

\* class is what stands between the brackets.  A dash with a character on
\* either side is a range.
match_char_class(class, c) ==
    LET negate == class # <<>> /\ class[1] = Caret
        body   == IF negate THEN Tail(class) ELSE class
        hit[i \in 1..Len(body) + 1] ==
          IF i > Len(body) THEN FALSE
          ELSE IF i + 2 <= Len(body) /\ body[i + 1] = Dash
          THEN (c >= body[i] /\ c <= body[i + 2]) \/ hit[i + 3]
          ELSE body[i] = c \/ hit[i + 1]
    IN  body # <<>> /\ (hit[1] # negate)

\* The position of the bracket that closes the one at pi, or 0.
BracketEnd(p, pi) ==
    LET ends == {k \in pi + 1..Len(p) : p[k] = Close}
    IN  IF ends = {} THEN 0 ELSE CHOOSE k \in ends : \A l \in ends : k <= l

AfterStars(p, pi) == CHOOSE k \in pi..Len(p) + 1 :
    /\ \A l \in pi..k - 1 : p[l] = Star
    /\ k <= Len(p) => p[k] # Star

\* The places of the text from which the rest of the pattern matches its rest.
Mut_wildcard_match(p, t) ==
    LET from[pi \in 1..Len(p) + 1] ==
          IF pi > Len(p) THEN {Len(t) + 1}
          ELSE IF p[pi] = Star
          THEN IF AfterStars(p, pi) > Len(p) THEN 1..Len(t) + 1
               ELSE {ti \in 1..Len(t) + 1 : \E k \in ti..Len(t) + 1 : k \in from[AfterStars(p, pi)]}
          ELSE {ti \in 1..Len(t) :
                  IF p[pi] = Question THEN ti + 1 \in from[pi + 1]
                  ELSE IF p[pi] = Open /\ BracketEnd(p, pi) # 0
                  THEN /\ match_char_class(SubSeq(p, pi + 1, BracketEnd(p, pi) - 1), t[ti])
                       /\ ti + 1 \in from[BracketEnd(p, pi)]
                  ELSE p[pi] = t[ti] /\ ti + 1 \in from[pi + 1]}
    IN  1 \in from[1]

\* wildcard_match_impl; lower-casing comes before it and changes no special one.
wildcard_match(p, t) ==
    LET from[pi \in 1..Len(p) + 1] ==
          IF pi > Len(p) THEN {Len(t) + 1}
          ELSE IF p[pi] = Star
          THEN IF AfterStars(p, pi) > Len(p) THEN 1..Len(t) + 1
               ELSE {ti \in 1..Len(t) + 1 : \E k \in ti..Len(t) + 1 : k \in from[AfterStars(p, pi)]}
          ELSE {ti \in 1..Len(t) :
                  IF p[pi] = Question THEN ti + 1 \in from[pi + 1]
                  ELSE IF p[pi] = Open /\ BracketEnd(p, pi) # 0
                  THEN /\ match_char_class(SubSeq(p, pi + 1, BracketEnd(p, pi) - 1), t[ti])
                       /\ ti + 1 \in from[BracketEnd(p, pi) + 1]
                  ELSE p[pi] = t[ti] /\ ti + 1 \in from[pi + 1]}
    IN  1 \in from[1]

------------------------------------------------------------------------------
(* The reference: a pattern is a sequence of elements, and it matches when  *)
(* the text can be cut into one piece per element.                          *)

Elements(p) ==
    LET from[i \in 1..Len(p) + 1] ==
          IF i > Len(p) THEN <<>>
          ELSE IF p[i] = Open /\ BracketEnd(p, i) # 0
          THEN <<[class |-> SubSeq(p, i + 1, BracketEnd(p, i) - 1)]>> \o from[BracketEnd(p, i) + 1]
          ELSE <<[char |-> p[i]]>> \o from[i + 1]
    IN  from[1]

\* The characters a class names, one by one or between the ends of a range.
ClassSet(class) ==
    LET body == IF class # <<>> /\ class[1] = Caret THEN Tail(class) ELSE class
        from[i \in 1..Len(body) + 1] ==
          IF i > Len(body) THEN {}
          ELSE IF i + 2 <= Len(body) /\ body[i + 1] = Dash
          THEN body[i]..body[i + 2] \cup from[i + 3]
          ELSE {body[i]} \cup from[i + 1]
    IN  from[1]

Accepts(element, piece) ==
    IF "class" \in DOMAIN element
    THEN /\ Len(piece) = 1
         /\ IF element.class # <<>> /\ element.class[1] = Caret
            THEN Len(element.class) > 1 /\ piece[1] \notin ClassSet(element.class)
            ELSE piece[1] \in ClassSet(element.class)
    ELSE \/ element.char = Star
         \/ element.char = Question /\ Len(piece) = 1
         \/ element.char \notin {Star, Question} /\ piece = <<element.char>>

Matches(p, t) ==
    LET e == Elements(p)
    IN  \E end \in [0..Len(e) -> 0..Len(t)] :
          /\ end[0] = 0 /\ end[Len(e)] = Len(t)
          /\ \A i \in DOMAIN e :
               /\ end[i - 1] <= end[i]
               /\ Accepts(e[i], SubSeq(t, end[i - 1] + 1, end[i]))
==============================================================================
