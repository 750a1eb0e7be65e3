---------------------------- MODULE ShellScopes ----------------------------
(***************************************************************************)
(* What the shell's variables, environment, positional arguments and       *)
(* working directory are to a script: nested scopes.  A function opens a   *)
(* scope with arguments of its own, in which `local' binds variables;      *)
(* VAR=value before a command opens one with a changed environment, bash   *)
(* -c one with arguments, ( ... ) one with a working directory.  A name is *)
(* looked up and assigned in the innermost scope that binds it, and what a *)
(* scope binds disappears with it.                                         *)
(***************************************************************************)
EXTENDS Integers, Sequences, FiniteSetsExt

CONSTANTS Names, UserNames, Values, Empty, Dirs, PWD, ArgLists, Overrides,
          Unset, Through, MaxDepth, MaxDirs

VARIABLES scopes,    \* outermost first; the first one binds everything
          dirStack,  \* pushd's stack, which belongs to no scope
          gone       \* directories that were removed

svars == <<scopes, dirStack, gone>>

Nothing == [n \in Names |-> Through]

NewScope(v, e, a, d) == [var |-> v, env |-> e, args |-> a, dir |-> d]

\* Where a thing is bound.
Innermost(Binds(_)) == Max({k \in DOMAIN scopes : Binds(scopes[k])})

VarLevel(n) == Innermost(LAMBDA s : s.var[n] # Through)
EnvLevel(n) == Innermost(LAMBDA s : s.env[n] # Through)
ArgLevel    == Innermost(LAMBDA s : s.args # Through)
DirLevel    == Innermost(LAMBDA s : s.dir # Through)

TheVar(n) == scopes[VarLevel(n)].var[n]
TheArgs   == scopes[ArgLevel].args
TheDir    == scopes[DirLevel].dir

\* An environment variable set to nothing is one that does not exist.
InEnv(v) == IF v = Empty THEN Unset ELSE v

SInit ==
    /\ \E v \in [Names -> {Unset}], e \in [Names -> {Unset}], a \in ArgLists,
          d \in Dirs, p \in {TRUE, FALSE} :
          scopes = << NewScope(v, [e EXCEPT ![PWD] = IF p THEN d ELSE @], a, d) >>
    /\ dirStack = <<>>
    /\ gone = {}

SetVar(n, v)  == scopes' = [scopes EXCEPT ![VarLevel(n)].var[n] = v]
SetBoth(n, v) == scopes' = [[scopes EXCEPT ![VarLevel(n)].var[n] = v]
                               EXCEPT ![EnvLevel(n)].env[n] = InEnv(v)]
SetArgs(a)    == scopes' = [scopes EXCEPT ![ArgLevel].args = a]
SetEnv(n, v)  == scopes' = [scopes EXCEPT ![EnvLevel(n)].env[n] = InEnv(v)]
SetDir(d)     == scopes' = [scopes EXCEPT ![DirLevel].dir = d]
Open(s)       == scopes' = Append(scopes, s)

Variables ==
    /\ \/ \E n \in Names, v \in Values \cup {Unset} : SetVar(n, v)
       \/ \E n \in Names, v \in Values : SetBoth(n, v)
       \/ \E n \in Names : TheVar(n) # Unset /\ SetEnv(n, TheVar(n))
       \/ \E k \in 2..Len(scopes), n \in Names, v \in Values :
             \* local, in a scope of a function
             scopes' = [scopes EXCEPT ![k].var[n] = v]
       \/ \E a \in ArgLists : SetArgs(a)
       \/ \E i \in 1..Len(TheArgs) : SetArgs(SubSeq(TheArgs, i + 1, Len(TheArgs)))
    /\ UNCHANGED <<dirStack, gone>>

Directories ==
    \/ \E d \in Dirs \ gone :
          /\ scopes' = [[scopes EXCEPT ![DirLevel].dir = d]
                           EXCEPT ![EnvLevel(PWD)].env[PWD] = d]
          /\ UNCHANGED <<dirStack, gone>>
    \/ \E d \in Dirs \ gone :
          SetDir(d) /\ dirStack' = Append(dirStack, TheDir) /\ UNCHANGED gone
    \/ /\ dirStack # <<>>
       /\ LET d == dirStack[Len(dirStack)] IN
             IF d \in gone THEN UNCHANGED scopes ELSE SetDir(d)
       /\ dirStack' = SubSeq(dirStack, 1, Len(dirStack) - 1)
       /\ UNCHANGED gone
    \/ \E d \in Dirs \ {TheDir} :
          gone' = gone \cup {d} /\ UNCHANGED <<scopes, dirStack>>

Opens ==
    /\ \/ \E a \in ArgLists : Open(NewScope(Nothing, Nothing, a, Through))
       \/ \E e \in [Names -> Values \cup {Unset, Through}] :
             Open(NewScope(Nothing, e, Through, Through))
       \/ Open(NewScope(Nothing, Nothing, Through, TheDir))
    /\ UNCHANGED <<dirStack, gone>>

\* A directory that was removed meanwhile cannot be gone back to.
Closes ==
    LET outer == SubSeq(scopes, 1, Len(scopes) - 1)
        s == scopes[Len(scopes)]
        below == Max({k \in DOMAIN outer : outer[k].dir # Through})
    IN
    /\ Len(scopes) > 1
    /\ scopes' = IF s.dir # Through /\ outer[below].dir \in gone
                 THEN [outer EXCEPT ![below].dir = s.dir] ELSE outer
    /\ UNCHANGED <<dirStack, gone>>

SNext == Variables \/ Directories \/ Opens \/ Closes

SSpec == SInit /\ [][SNext]_svars
=============================================================================
