---------------------------- MODULE MCShellVars ----------------------------
(* Instances of ShellVars for TLC.  One name, PWD, stands for all: scripts  *)
(* assign it, cd sets it.                                                   *)
EXTENDS ShellVars

OneArg == {<<Empty>>}      \* shift makes it none

\* VAR=value before a command, never the same name twice.
PwdOnce == {<<[name |-> PWD, value |-> v]>> : v \in {Empty, "/a"}}
=============================================================================
