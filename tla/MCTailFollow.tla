---------------------------- MODULE MCTailFollow ----------------------------
(* Instances of TailFollow for TLC.                                         *)
EXTENDS TailFollow

One == {<<"a">>}
OneOrTwo == {<<"a">>, <<"a", "b">>}

\* Twice for one file, so that it is replaced and replaced again.
TwiceForOne == <<2, 1>>

Mode(byName, retry, watch, max) ==
    [byName |-> byName, retry |-> retry, watch |-> watch, lines |-> 1,
     maxUnchanged |-> max]

\* --max-unchanged-stats with --follow=name, --pid with --retry.
Modes ==
    {Mode(b, r, FALSE, -1) : b, r \in BOOLEAN}
      \cup {Mode(TRUE, r, FALSE, 2) : r \in BOOLEAN}
      \cup {Mode(b, TRUE, TRUE, -1) : b \in BOOLEAN}

Descriptor == {Mode(FALSE, FALSE, FALSE, -1)}
=============================================================================
