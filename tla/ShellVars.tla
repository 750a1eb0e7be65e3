----------------------------- MODULE ShellVars -----------------------------
(***************************************************************************)
(* The shell's variables, environment, positional arguments and working    *)
(* directory as src/Main/main.cpp keeps them: one global of each, changed  *)
(* in place.  Whoever opens a scope puts the old contents aside and puts   *)
(* them back when it ends.  `calls' is the C++ stack of those who do: a    *)
(* function call, VAR=value before a command, bash -c with arguments, and  *)
(* a subshell.  What runs inside them is any sequence of builtins.         *)
(***************************************************************************)
EXTENDS Integers, Sequences, SequencesExt

CONSTANTS Names,      \* of variables
          UserNames,  \* those that scripts assign
          Values,     \* strings, directory names among them
          Empty,      \* the empty string
          Dirs,       \* directories
          PWD,        \* the name that cd sets
          ArgLists,   \* lists of positional arguments
          Overrides,  \* lists of VAR=value before a command
          Unset,
          Through,    \* nothing put aside
          MaxDepth,   \* bound: scopes open at a time
          MaxDirs     \* bound: entries of pushd's stack

ASSUME ScopeAssumption ==
    /\ UserNames \subseteq Names
    /\ PWD \in Names
    /\ Empty \in Values \ Dirs
    /\ Dirs \subseteq Values
    /\ ArgLists \subseteq Seq(Values)
    /\ Overrides \subseteq Seq([name : Names, value : Values])
    /\ Unset \notin Values
    /\ Through \notin Values \cup {Unset}
    /\ Through \notin Seq(Values)
    /\ MaxDepth \in Nat /\ MaxDirs \in Nat

VARIABLES shellVars,  \* g_shell_vars
          env,        \* the process's environment
          args,       \* g_positional_args
          cwd,        \* the process's working directory
          dirStack,   \* g_dir_stack
          calls,      \* what each open scope has put aside
          gone        \* directories that were removed

vars == <<shellVars, env, args, cwd, dirStack, calls, gone>>
places == <<cwd, dirStack, gone>>

Nothing == [n \in Names |-> Through]

Call(kind, v, e, a, d) ==
    [kind |-> kind, var |-> v, env |-> e, args |-> a, dir |-> d]

Mut_InEnv(v) == v

\* _putenv("NAME=") removes NAME.
InEnv(v) == IF v \in {Empty, Unset} THEN Unset ELSE v

\* The environment e after the first k assignments of a list.
Assigned(list, k, e) ==
    [n \in Names |->
        LET at == {i \in 1..k : list[i].name = n} IN
        IF at = {} THEN e[n] ELSE InEnv(list[Max(at)].value)]

\* getEnvVar: the environment comes first.  What HOME and USER stand for when they
\* are not set is left out.
getEnvVar(n) ==
    IF env[n] # Unset THEN env[n]
    ELSE IF shellVars[n] # Unset THEN shellVars[n] ELSE Empty

Init ==
    /\ shellVars = [n \in Names |-> Unset]
    /\ \E d \in Dirs, p \in BOOLEAN :
          /\ cwd = d
          /\ env = [n \in Names |-> IF p /\ n = PWD THEN d ELSE Unset]
    /\ args \in ArgLists
    /\ dirStack = <<>>
    /\ calls = <<>>
    /\ gone = {}

(***************************************************************************)
(* Variables.                                                              *)
(***************************************************************************)
\* NAME=value, for, read, readonly, declare, let.
Assign(n, v) ==
    /\ shellVars' = [shellVars EXCEPT ![n] = v]
    /\ UNCHANGED <<env, args, calls, places>>

Export(n, v) ==
    /\ shellVars' = [shellVars EXCEPT ![n] = v]
    /\ env' = [env EXCEPT ![n] = InEnv(v)]
    /\ UNCHANGED <<args, calls, places>>

ExportName(n) ==
    /\ shellVars[n] # Unset
    /\ env' = [env EXCEPT ![n] = InEnv(shellVars[n])]
    /\ UNCHANGED <<shellVars, args, calls, places>>

UnsetName(n) ==
    /\ shellVars' = [shellVars EXCEPT ![n] = Unset]
    /\ UNCHANGED <<env, args, calls, places>>

Functions == {k \in DOMAIN calls : calls[k].kind = "function"}

Mut_Local(n, v) ==
    LET k == Max(Functions) IN
    /\ Functions # {}
    /\ calls' = [calls EXCEPT ![k].var[n] = shellVars[n]]
    /\ shellVars' = [shellVars EXCEPT ![n] = v]
    /\ UNCHANGED <<env, args, places>>

\* The value is put aside once per function.
Local(n, v) ==
    LET k == Max(Functions) IN
    /\ Functions # {}
    /\ calls' = IF calls[k].var[n] = Through
                THEN [calls EXCEPT ![k].var[n] = shellVars[n]] ELSE calls
    /\ shellVars' = [shellVars EXCEPT ![n] = v]
    /\ UNCHANGED <<env, args, places>>

\* set -- ARGS
SetArgs(a) ==
    /\ args' = a
    /\ UNCHANGED <<shellVars, env, calls, places>>

\* shift N clears what there is if there are fewer.
Shift(i) ==
    /\ args' = IF i <= Len(args) THEN SubSeq(args, i + 1, Len(args)) ELSE <<>>
    /\ UNCHANGED <<shellVars, env, calls, places>>

(***************************************************************************)
(* Scopes.                                                                 *)
(***************************************************************************)
Deeper == Len(calls) < MaxDepth

CallFunction(a) ==
    /\ Deeper
    /\ calls' = Append(calls, Call("function", Nothing, <<>>, args, Through))
    /\ args' = a
    /\ UNCHANGED <<shellVars, env, places>>

CallBash(a) ==
    /\ Deeper
    /\ calls' = Append(calls, Call("bash", Nothing, <<>>, args, Through))
    /\ args' = a
    /\ UNCHANGED <<shellVars, env, places>>

\* Each assignment puts aside what it finds.
CallWithEnv(list) ==
    /\ Deeper
    /\ calls' = Append(calls, Call("override", Nothing,
                   [i \in DOMAIN list |->
                       [name |-> list[i].name,
                        value |-> Assigned(list, i - 1, env)[list[i].name]]],
                   Through, Through))
    /\ env' = Assigned(list, Len(list), env)
    /\ UNCHANGED <<shellVars, args, places>>

CallSubshell ==
    /\ Deeper
    /\ calls' = Append(calls, Call("subshell", Nothing, <<>>, Through, cwd))
    /\ UNCHANGED <<shellVars, env, args, places>>

Ends(kind) == calls # <<>> /\ Last(calls).kind = kind

FunctionEnds ==
    LET c == Last(calls) IN
    /\ Ends("function")
    /\ shellVars' = [n \in Names |-> IF c.var[n] = Through THEN shellVars[n]
                                     ELSE c.var[n]]
    /\ args' = c.args
    /\ calls' = Front(calls)
    /\ UNCHANGED <<env, places>>

BashEnds ==
    /\ Ends("bash")
    /\ args' = Last(calls).args
    /\ calls' = Front(calls)
    /\ UNCHANGED <<shellVars, env, places>>

\* Put back in the order they were put aside.
EnvEnds ==
    LET old == Last(calls).env IN
    /\ Ends("override")
    /\ env' = Assigned(old, Len(old), env)
    /\ calls' = Front(calls)
    /\ UNCHANGED <<shellVars, args, places>>

\* An error of current_path(saved, ec) is ignored.
SubshellEnds ==
    /\ Ends("subshell")
    /\ cwd' = IF Last(calls).dir \in gone THEN cwd ELSE Last(calls).dir
    /\ calls' = Front(calls)
    /\ UNCHANGED <<shellVars, env, args, dirStack, gone>>

(***************************************************************************)
(* Directories.  A builtin whose directory does not exist changes nothing, *)
(* except that popd has dropped the entry by then.                         *)
(***************************************************************************)
Cd(d) ==
    /\ d \notin gone
    /\ cwd' = d
    /\ env' = [env EXCEPT ![PWD] = d]
    /\ UNCHANGED <<shellVars, args, dirStack, calls, gone>>

Mut_Pushd(d) ==
    /\ d \notin gone
    /\ Len(dirStack) < MaxDirs
    /\ cwd' = d
    /\ dirStack' = Append(dirStack, cwd')
    /\ UNCHANGED <<shellVars, env, args, calls, gone>>

Pushd(d) ==
    /\ d \notin gone
    /\ Len(dirStack) < MaxDirs
    /\ dirStack' = Append(dirStack, cwd)
    /\ cwd' = d
    /\ UNCHANGED <<shellVars, env, args, calls, gone>>

Popd ==
    /\ dirStack # <<>>
    /\ cwd' = IF Last(dirStack) \in gone THEN cwd ELSE Last(dirStack)
    /\ dirStack' = Front(dirStack)
    /\ UNCHANGED <<shellVars, env, args, calls, gone>>

\* Anybody removes a directory nobody stands in.
RemoveDir(d) ==
    /\ d \in Dirs \ (gone \cup {cwd})
    /\ gone' = gone \cup {d}
    /\ UNCHANGED <<shellVars, env, args, cwd, dirStack, calls>>

Next ==
    \/ \E n \in UserNames :
          \/ \E v \in Values \ Dirs : Assign(n, v) \/ Export(n, v) \/ Local(n, v)
          \/ ExportName(n)
          \/ UnsetName(n)
    \/ \E a \in ArgLists : SetArgs(a) \/ CallFunction(a) \/ CallBash(a)
    \/ \E i \in 1..2 : Shift(i)
    \/ \E list \in Overrides : CallWithEnv(list)
    \/ CallSubshell
    \/ FunctionEnds \/ BashEnds \/ EnvEnds \/ SubshellEnds
    \/ \E d \in Dirs : Cd(d) \/ Pushd(d) \/ RemoveDir(d)
    \/ Popd

Spec == Init /\ [][Next]_vars

(***************************************************************************)
(* Properties.                                                             *)
(***************************************************************************)
\* What each global and each saved value may be.  The environment holds no
\* empty value: _putenv removes the name.
Maybe == Values \cup {Unset}

CallType ==
    [kind : {"function", "override", "bash", "subshell"},
     var : [Names -> Maybe \cup {Through}],
     env : Seq([name : Names, value : Maybe]),
     args : Seq(Values) \cup {Through},
     dir : Dirs \cup {Through}]

\* Type invariant: the globals, and in calls what each open scope put aside.
TypeOK ==
    /\ shellVars \in [Names -> Maybe]
    /\ env \in [Names -> Maybe \ {Empty}]
    /\ args \in Seq(Values)
    /\ cwd \in Dirs
    /\ dirStack \in Seq(Dirs)
    /\ calls \in Seq(CallType)
    /\ gone \subseteq Dirs

(***************************************************************************)
(* Scopes.  What a scope binds is what the next scope above that binds the *)
(* same has put aside, or the global if there is none.                     *)
(***************************************************************************)
EnvAside(c, n) ==
    LET at == {i \in DOMAIN c.env : c.env[i].name = n} IN
    IF at = {} THEN Through ELSE c.env[Max(at)].value

BoundAt(k, Aside(_), now) ==
    LET above == {j \in k..Len(calls) : Aside(calls[j]) # Through} IN
    IF k > 1 /\ Aside(calls[k - 1]) = Through THEN Through
    ELSE IF above = {} THEN now ELSE Aside(calls[Min(above)])

ScopeAt(k) ==
    [var  |-> [n \in Names |-> BoundAt(k, LAMBDA c : c.var[n], shellVars[n])],
     env  |-> [n \in Names |-> BoundAt(k, LAMBDA c : EnvAside(c, n), env[n])],
     args |-> BoundAt(k, LAMBDA c : c.args, args),
     dir  |-> BoundAt(k, LAMBDA c : c.dir, cwd)]

Scopes == INSTANCE ShellScopes
              WITH scopes <- [k \in 1..Len(calls) + 1 |-> ScopeAt(k)]

\* Saving and restoring one set of globals by hand comes to the same as
\* nested scopes: a local variable, an argument, an overridden environment
\* variable or a directory of an inner scope is never seen or lost outside.
ImplementsScopes == Scopes!SSpec
=============================================================================
