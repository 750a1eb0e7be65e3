---------------------------- MODULE MCFileReplace ----------------------------
(* Instances of FileReplace for TLC.                                        *)
EXTENDS FileReplace

Plain == [op |-> "mv", backup |-> FALSE, force |-> FALSE, keep |-> "no",
          elsewhere |-> FALSE, tree |-> FALSE, self |-> FALSE,
          skipSame |-> FALSE, applies |-> TRUE, noTargetDir |-> FALSE]

AllJobs ==
    {[Plain EXCEPT !.op = "sed", !.backup = b] : b \in BOOLEAN}
      \cup {[Plain EXCEPT !.backup = b, !.keep = k, !.elsewhere = e, !.tree = t] :
              b \in BOOLEAN, k \in {"no", "clobber", "update", "ask"}, e \in BOOLEAN,
              t \in BOOLEAN}
      \cup {[Plain EXCEPT !.op = "cp", !.backup = b, !.keep = k, !.force = f, !.self = s] :
              b \in BOOLEAN, k \in {"no", "clobber", "update", "ask"}, f \in BOOLEAN,
              s \in BOOLEAN}
      \cup {[Plain EXCEPT !.op = "install", !.backup = b, !.skipSame = s] :
              b \in BOOLEAN, s \in BOOLEAN}
      \cup {[Plain EXCEPT !.op = "patch", !.backup = b, !.applies = a] :
              b \in BOOLEAN, a \in BOOLEAN}
      \cup {[Plain EXCEPT !.op = "ln", !.backup = b, !.force = f, !.keep = k, !.noTargetDir = t] :
              b \in BOOLEAN, f \in BOOLEAN, k \in {"no", "ask"}, t \in BOOLEAN}

Moves == {j \in AllJobs : j.op = "mv"}
==============================================================================
