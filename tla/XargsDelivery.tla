---------------------------- MODULE XargsDelivery ----------------------------
(***************************************************************************)
(* What xargs promises about its input, whatever the batches, the pool and *)
(* the exit statuses: the items are dealt with in the order they were      *)
(* read, each at most once, by handing them to a command (or to a user who *)
(* refuses it) from the front; items are passed over only in a run that    *)
(* fails; and a run that does not fail ends with no item left.             *)
(***************************************************************************)
EXTENDS Sequences, Naturals

CONSTANT Items

VARIABLES todo,     \* the items nobody has dealt with, in input order
          dealt,    \* the items handed to a command or refused, in order
          failed,   \* the run is going to end with a nonzero status
          over      \* xargs has returned

dvars == <<todo, dealt, failed, over>>

DInit ==
    /\ todo \in Seq(Items)
    /\ dealt = <<>>
    /\ failed = FALSE
    /\ over = FALSE

Without(n) == SubSeq(todo, n + 1, Len(todo))

\* One command is run on (or refused for) the next n items; none of them, for
\* an empty input.
Deal(n) ==
    /\ ~over
    /\ dealt' = dealt \o SubSeq(todo, 1, n)
    /\ todo' = Without(n)
    /\ UNCHANGED <<failed, over>>

\* The next n items are passed over: the run has failed.
PassOver(n) ==
    /\ ~over
    /\ todo' = Without(n)
    /\ failed' = TRUE
    /\ UNCHANGED <<dealt, over>>

Finish ==
    /\ ~over
    /\ todo # <<>> => failed
    /\ over' = TRUE
    /\ UNCHANGED <<todo, dealt, failed>>

\* A failed launch may end the run in the same step.
FailAndFinish(n) ==
    /\ ~over
    /\ todo' = Without(n)
    /\ failed' = TRUE
    /\ over' = TRUE
    /\ UNCHANGED dealt

DNext ==
    \/ \E n \in 0..Len(todo) : Deal(n) \/ PassOver(n) \/ FailAndFinish(n)
    \/ Finish

DSpec == DInit /\ [][DNext]_dvars
==============================================================================
