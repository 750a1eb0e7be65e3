------------------------------ MODULE MCParts ------------------------------
(* The instance of Parts that is checked. *)
EXTENDS Parts

\* Operand lists: none, one file, two, one twice, and with "-" between.
MCTeeArgs == {<<>>, <<"f">>, <<"f", "g">>, <<"f", "f">>, <<"f", "-", "g">>, <<"-">>}

\* Both pipes, up to one piece more than a pipe holds.
MCOutputs == {<<>>, <<"stderr", "stdout">>, <<"stdout", "stdout">>,
              <<"stdout", "stdout", "stdout">>}

\* A short character and a long one; both together on the clipboard.
MCChars == {<<"a">>, <<"lead", "cont">>}
MCClips == {<<"lead", "cont", "a">>}

\* A package of two files, and one whose file takes a new name.
MCPackages == [p |-> [files |-> <<"f1", "f2">>, rename_to |-> "absent"],
               q |-> [files |-> <<"g">>, rename_to |-> "r"]]
=============================================================================
