------------------------------ MODULE Selections ------------------------------
(***************************************************************************)
(* The loops over a sequence that keep some of its elements, as the filter *)
(* commands write them, and the standard library's min and max.            *)
(***************************************************************************)
EXTENDS Integers, Sequences

\* The elements of s at the positions in `keep', in their order.
Those(s, keep) ==
    LET upto[k \in 0..Len(s)] ==
          IF k = 0 THEN <<>>
          ELSE IF k \in keep THEN Append(upto[k - 1], s[k]) ELSE upto[k - 1]
    IN  upto[Len(s)]

\* The numbers up to n that are in a set, in their order.
Listed(n, set) == Those([i \in 1..n |-> i], set)

AtLeast(x, y) == IF x >= y THEN x ELSE y
AtMost(x, y)  == IF x <= y THEN x ELSE y
==============================================================================
