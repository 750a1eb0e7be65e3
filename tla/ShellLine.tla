------------------------------ MODULE ShellLine ------------------------------
(***************************************************************************)
(* How winuxcmd executes a command line (src/Main/main.cpp).               *)
(*                                                                         *)
(* executeShellLine splits a line into parts joined by ; && and ||, runs   *)
(* them in order, and calls itself for everything that is a line again: a  *)
(* condition, a loop body, a function, a subshell, a trap.  The program is *)
(* given as the lines it is made of; a line is the sequence of its parts   *)
(* as splitShellParts returns it, which for a line that ends in a          *)
(* semicolon ends with an EMPTY part.  `stack' is the C++ call stack of    *)
(* executeShellLine: a frame holds the locals of one call and, in `phase', *)
(* what it waits for.  `ret' is the value the last call returned.          *)
(*                                                                         *)
(* A simple command is any status it can end with; redirections, pipes and *)
(* expansion are not looked at here.  A line of assignments only, which    *)
(* returns before it is split, is a line of one command with status 0.     *)
(***************************************************************************)
EXTENDS Integers, Sequences, FiniteSets, SequencesExt

CONSTANTS Lines,          \* names of the lines a program is made of
          Main,           \* the line the shell is given
          Programs,       \* the programs considered: [Lines -> Seq(Part)]
          Funs,           \* names of functions
          Statuses,       \* what a simple command can end with
          MAX_ITERATIONS, \* rounds of a while loop, 10000 in the code
          None

\* What a part can be.  "group" stands for { ... }, eval and aliases.
Cmd ==
    [k : {"empty", "run", "test"}]
    \cup [k : {"exit", "return"}, n : Int]
    \cup [k : {"errexit"}, on : BOOLEAN]
    \cup [k : {"trap_exit", "trap_err"}, line : Lines \cup {None}]
    \cup [k : {"def"}, f : Funs, line : Lines]
    \cup [k : {"call"}, f : Funs]
    \cup [k : {"subshell", "group", "bash"}, line : Lines]
    \cup [k : {"if"}, cond : Lines, then : Lines, else : Lines \cup {None}]
    \cup [k : {"while"}, cond : Lines, body : Lines]
    \cup [k : {"for"}, n : Nat, body : Lines]
    \cup [k : {"case"}, line : Lines \cup {None}]
    \cup [k : {"source"}, lines : Seq(Lines)]

Part == [cmd : Cmd, negate : BOOLEAN, op : {";", "a", "o", ""}]

ASSUME ProgramAssumption ==
    /\ None \notin Lines
    /\ Main \in Lines
    /\ Programs \subseteq [Lines -> Seq(Part)]
    /\ Statuses \subseteq Int
    /\ MAX_ITERATIONS \in Nat

VARIABLES prog,      \* the program, fixed at start
          stack,     \* the calls of executeShellLine, outermost first
          ret,       \* what the last call returned
          lastExit,  \* g_last_exit_code
          exitTrap,  \* g_exit_trap: a line or None
          errTrap,   \* g_err_trap
          inErr,     \* g_in_err_trap
          setE,      \* g_set_e
          funs,      \* g_functions
          frames,    \* g_function_frames
          owed       \* history: EXIT traps set, not replaced, not run yet

globals == <<exitTrap, errTrap, inErr, setE, funs, frames>>
vars == <<prog, stack, ret, lastExit, exitTrap, errTrap, inErr, setE, funs,
          frames, owed>>

(***************************************************************************)
(* Frames.  `mine' is history: the EXIT trap in force as far as this       *)
(* call's own parts are concerned.                                         *)
(***************************************************************************)
Mut_NewFrame(line, trap) ==
    [line |-> line, j |-> 1, rc |-> 0, op |-> None, phase |-> "next",
     count |-> 0, saved |-> trap, mine |-> trap]

NewFrame(line, trap) ==
    [line |-> line, j |-> 1, rc |-> 0, op |-> "", phase |-> "next",
     count |-> 0, saved |-> trap, mine |-> trap]

Top == Last(stack)
Parts == prog[Top.line]
ThePart == Parts[Top.j]
HasPart == Top.j <= Len(Parts)

WithTop(f) == [stack EXCEPT ![Len(stack)] = f]

\* The top frame goes to `phase' and executeShellLine is called for `line'.
Enter(phase, line) ==
    stack' = Append(WithTop([Top EXCEPT !.phase = phase]),
                    NewFrame(line, exitTrap))

Waiting(phase) == stack # <<>> /\ Top.phase = phase

shouldReturn == frames # <<>> /\ Last(frames).requested
getReturnCode == IF frames = <<>> THEN 0 ELSE Last(frames).code

Init ==
    /\ prog \in Programs
    /\ stack = << NewFrame(Main, None) >>
    /\ ret = 0
    /\ lastExit = 0
    /\ exitTrap = None
    /\ errTrap = None
    /\ inErr = FALSE
    /\ setE = FALSE
    /\ funs = [f \in Funs |-> None]
    /\ frames = <<>>
    /\ owed = {}

(***************************************************************************)
(* One part of the line.                                                   *)
(***************************************************************************)
ShouldExecute(f) ==
    /\ ~(f.op = "a" /\ f.rc # 0)
    /\ ~(f.op = "o" /\ f.rc = 0)

AtPart(k) ==
    /\ Waiting("next")
    /\ HasPart
    /\ ShouldExecute(Top)
    /\ ThePart.cmd.k = k

\* The branches of the part's if-chain that leave `negate' and
\* g_last_exit_code alone; bash and sh are negated, no more.
Plain(k)     == k \in {"empty", "def", "subshell", "if", "while", "for",
                       "case", "test"}
Negatable(k) == ~Plain(k)
SetsLast(k)  == ~Plain(k) /\ k # "bash"

\* The part ended with rc.
Finish(rc) ==
    LET c == ThePart.cmd
        s == IF ThePart.negate /\ Negatable(c.k)
             THEN (IF rc = 0 THEN 1 ELSE 0) ELSE rc
    IN
    /\ stack' = WithTop([Top EXCEPT !.rc = s, !.phase = "done",
                            !.mine = IF c.k = "trap_exit" THEN c.line ELSE @])
    /\ lastExit' = IF SetsLast(c.k) THEN s ELSE lastExit

SkipPart ==
    /\ Waiting("next")
    /\ HasPart
    /\ ~ShouldExecute(Top)
    /\ stack' = WithTop([Top EXCEPT !.phase = "skipped"])
    /\ UNCHANGED <<prog, ret, lastExit, globals, owed>>

EmptyPart ==
    /\ AtPart("empty")
    /\ Finish(0)
    /\ UNCHANGED <<prog, ret, globals, owed>>

RunCommand ==
    /\ AtPart("run")
    /\ \E s \in Statuses : Finish(s)
    /\ UNCHANGED <<prog, ret, globals, owed>>

ExtendedTest ==
    /\ AtPart("test")
    /\ \E s \in {0, 1} : Finish(s)
    /\ UNCHANGED <<prog, ret, globals, owed>>

\* exit only makes a status.
ExitBuiltin ==
    /\ AtPart("exit")
    /\ Finish(ThePart.cmd.n)
    /\ UNCHANGED <<prog, ret, globals, owed>>

ReturnBuiltin ==
    /\ AtPart("return")
    /\ frames' = IF frames = <<>> THEN frames
                 ELSE [frames EXCEPT ![Len(frames)] =
                          [requested |-> TRUE, code |-> ThePart.cmd.n]]
    /\ Finish(ThePart.cmd.n)
    /\ UNCHANGED <<prog, ret, exitTrap, errTrap, inErr, setE, funs, owed>>

SetErrexit ==
    /\ AtPart("errexit")
    /\ setE' = ThePart.cmd.on
    /\ Finish(0)
    /\ UNCHANGED <<prog, ret, exitTrap, errTrap, inErr, funs, frames, owed>>

TrapExit ==
    LET l == ThePart.cmd.line IN
    /\ AtPart("trap_exit")
    /\ exitTrap' = l
    /\ Finish(0)
    /\ owed' = (owed \ {exitTrap}) \cup (IF l = None THEN {} ELSE {l})
    /\ UNCHANGED <<prog, ret, errTrap, inErr, setE, funs, frames>>

TrapErr ==
    /\ AtPart("trap_err")
    /\ errTrap' = ThePart.cmd.line
    /\ Finish(0)
    /\ UNCHANGED <<prog, ret, exitTrap, inErr, setE, funs, frames, owed>>

DefineFunction ==
    /\ AtPart("def")
    /\ funs' = [funs EXCEPT ![ThePart.cmd.f] = ThePart.cmd.line]
    /\ Finish(0)
    /\ UNCHANGED <<prog, ret, exitTrap, errTrap, inErr, setE, frames, owed>>

(***************************************************************************)
(* Parts that call executeShellLine, and what they do when it returns.     *)
(***************************************************************************)
StartSubshell ==
    /\ AtPart("subshell")
    /\ Enter("line", ThePart.cmd.line)
    /\ UNCHANGED <<prog, ret, lastExit, globals, owed>>

StartGroup ==
    /\ AtPart("group")
    /\ Enter("line", ThePart.cmd.line)
    /\ UNCHANGED <<prog, ret, lastExit, globals, owed>>

StartBash ==
    /\ AtPart("bash")
    /\ Enter("line", ThePart.cmd.line)
    /\ UNCHANGED <<prog, ret, lastExit, globals, owed>>

\* The status of the nested line is the part's, for subshells, groups and
\* bash -c; a branch of if or a clause of case asks for a return first.
LineDone ==
    /\ Waiting("line")
    /\ Finish(ret)
    /\ UNCHANGED <<prog, ret, globals, owed>>

BranchDone ==
    /\ Waiting("branch")
    /\ Finish(IF shouldReturn THEN getReturnCode ELSE ret)
    /\ UNCHANGED <<prog, ret, globals, owed>>

StartIf ==
    /\ AtPart("if")
    /\ Enter("cond", ThePart.cmd.cond)
    /\ UNCHANGED <<prog, ret, lastExit, globals, owed>>

IfCondDone ==
    LET c == ThePart.cmd IN
    /\ Waiting("cond")
    /\ \/ ret = 0 /\ Enter("branch", c.then) /\ UNCHANGED lastExit
       \/ ret # 0 /\ c.else # None /\ Enter("branch", c.else) /\ UNCHANGED lastExit
       \/ ret # 0 /\ c.else = None /\ Finish(0)
    /\ UNCHANGED <<prog, ret, globals, owed>>

\* The clause that matches, if one does.
StartCase ==
    /\ AtPart("case")
    /\ \/ ThePart.cmd.line # None /\ Enter("branch", ThePart.cmd.line)
          /\ UNCHANGED lastExit
       \/ ThePart.cmd.line = None /\ Finish(0)
    /\ UNCHANGED <<prog, ret, globals, owed>>

\* executeWhileLoop keeps the last round's status, held in rc meanwhile.
StartWhile ==
    /\ AtPart("while")
    /\ IF MAX_ITERATIONS = 0
       THEN Finish(0)
       ELSE /\ stack' = Append(WithTop([Top EXCEPT !.phase = "wcond",
                                                   !.count = 0, !.rc = 0]),
                               NewFrame(ThePart.cmd.cond, exitTrap))
            /\ UNCHANGED lastExit
    /\ UNCHANGED <<prog, ret, globals, owed>>

WhileCondDone ==
    /\ Waiting("wcond")
    /\ IF ret # 0
       THEN Finish(Top.rc)
       ELSE Enter("wbody", ThePart.cmd.body) /\ UNCHANGED lastExit
    /\ UNCHANGED <<prog, ret, globals, owed>>

Mut_WhileBodyDone ==
    /\ Waiting("wbody")
    /\ IF Top.count + 1 >= MAX_ITERATIONS
       THEN Finish(ret)
       ELSE /\ stack' = Append(WithTop([Top EXCEPT !.phase = "wcond",
                                            !.count = @ + 1, !.rc = ret]),
                               NewFrame(ThePart.cmd.cond, exitTrap))
            /\ UNCHANGED lastExit
    /\ UNCHANGED <<prog, ret, globals, owed>>

Mut_WhileBodyDone_uncounted ==
    /\ Waiting("wbody")
    /\ IF shouldReturn
       THEN Finish(getReturnCode)
       ELSE /\ stack' = Append(WithTop([Top EXCEPT !.phase = "wcond",
                                            !.rc = ret]),
                               NewFrame(ThePart.cmd.cond, exitTrap))
            /\ UNCHANGED lastExit
    /\ UNCHANGED <<prog, ret, globals, owed>>

WhileBodyDone ==
    /\ Waiting("wbody")
    /\ IF shouldReturn
       THEN Finish(getReturnCode)
       ELSE IF Top.count + 1 >= MAX_ITERATIONS
       THEN Finish(ret)
       ELSE /\ stack' = Append(WithTop([Top EXCEPT !.phase = "wcond",
                                            !.count = @ + 1, !.rc = ret]),
                               NewFrame(ThePart.cmd.cond, exitTrap))
            /\ UNCHANGED lastExit
    /\ UNCHANGED <<prog, ret, globals, owed>>

\* for and source run their lines one after the other; `count' of them are
\* done.  for drops their statuses, source keeps the last one.
StartFor ==
    /\ AtPart("for")
    /\ IF ThePart.cmd.n = 0
       THEN Finish(0)
       ELSE /\ stack' = Append(WithTop([Top EXCEPT !.phase = "for", !.count = 1]),
                               NewFrame(ThePart.cmd.body, exitTrap))
            /\ UNCHANGED lastExit
    /\ UNCHANGED <<prog, ret, globals, owed>>

ForBodyDone ==
    /\ Waiting("for")
    /\ IF shouldReturn THEN Finish(getReturnCode)
       ELSE IF Top.count = ThePart.cmd.n THEN Finish(0)
       ELSE /\ stack' = Append(WithTop([Top EXCEPT !.count = @ + 1]),
                               NewFrame(ThePart.cmd.body, exitTrap))
            /\ UNCHANGED lastExit
    /\ UNCHANGED <<prog, ret, globals, owed>>

\* A file that cannot be opened is a simple command that failed.
StartSource ==
    /\ AtPart("source")
    /\ IF ThePart.cmd.lines = <<>>
       THEN Finish(0)
       ELSE /\ stack' = Append(WithTop([Top EXCEPT !.phase = "source", !.count = 1]),
                               NewFrame(ThePart.cmd.lines[1], exitTrap))
            /\ UNCHANGED lastExit
    /\ UNCHANGED <<prog, ret, globals, owed>>

SourceLineDone ==
    /\ Waiting("source")
    /\ IF Top.count = Len(ThePart.cmd.lines)
       THEN Finish(ret)
       ELSE /\ stack' = Append(WithTop([Top EXCEPT !.count = @ + 1]),
                               NewFrame(ThePart.cmd.lines[Top.count + 1], exitTrap))
            /\ UNCHANGED lastExit
    /\ UNCHANGED <<prog, ret, globals, owed>>

\* A function not defined is a command not found.
CallFunction ==
    LET f == ThePart.cmd.f IN
    /\ AtPart("call")
    /\ \/ /\ funs[f] # None
          /\ frames' = Append(frames, [requested |-> FALSE, code |-> 0])
          /\ Enter("call", funs[f])
          /\ UNCHANGED lastExit
       \/ /\ funs[f] = None
          /\ Finish(127)
          /\ UNCHANGED frames
    /\ UNCHANGED <<prog, ret, exitTrap, errTrap, inErr, setE, funs, owed>>

CallDone ==
    /\ Waiting("call")
    /\ Finish(IF shouldReturn THEN getReturnCode ELSE ret)
    /\ frames' = Front(frames)
    /\ UNCHANGED <<prog, ret, exitTrap, errTrap, inErr, setE, funs, owed>>

(***************************************************************************)
(* After a part: the ERR trap, set -e, return, the next part.              *)
(***************************************************************************)
ErrTrapDue == Top.rc # 0 /\ errTrap # None /\ ~inErr

RunErrTrap ==
    /\ Waiting("done")
    /\ ErrTrapDue
    /\ inErr' = TRUE
    /\ Enter("err", errTrap)
    /\ UNCHANGED <<prog, ret, lastExit, exitTrap, errTrap, setE, funs, frames,
                   owed>>

ErrTrapDone ==
    /\ Waiting("err")
    /\ inErr' = FALSE
    /\ stack' = WithTop([Top EXCEPT !.phase = "checked"])
    /\ UNCHANGED <<prog, ret, lastExit, exitTrap, errTrap, setE, funs, frames,
                   owed>>

NoErrTrap ==
    /\ Waiting("done")
    /\ ~ErrTrapDue
    /\ stack' = WithTop([Top EXCEPT !.phase = "checked"])
    /\ UNCHANGED <<prog, ret, lastExit, globals, owed>>

\* executeShellLine returns rc: g_last_exit_code is set, then the locals die.
Leave(rc) ==
    /\ stack' = WithTop([Top EXCEPT !.rc = rc, !.phase = "leave"])
    /\ lastExit' = rc

Errexit ==
    /\ Waiting("checked")
    /\ setE /\ Top.rc # 0
    /\ Leave(Top.rc)
    /\ UNCHANGED <<prog, ret, globals, owed>>

AfterPart ==
    \/ Waiting("checked") /\ ~(setE /\ Top.rc # 0)
    \/ Waiting("skipped")

NextPart ==
    /\ AfterPart
    /\ ~shouldReturn
    /\ stack' = WithTop([Top EXCEPT !.j = @ + 1, !.op = ThePart.op,
                                    !.phase = "next"])
    /\ UNCHANGED <<prog, ret, lastExit, globals, owed>>

ReturnFromLine ==
    /\ AfterPart
    /\ shouldReturn
    /\ Leave(getReturnCode)
    /\ UNCHANGED <<prog, ret, globals, owed>>

\* An empty line returns at once and leaves g_last_exit_code alone.
EndOfLine ==
    /\ Waiting("next")
    /\ ~HasPart
    /\ \/ Parts # <<>> /\ Leave(Top.rc)
       \/ Parts = <<>> /\ UNCHANGED lastExit
          /\ stack' = WithTop([Top EXCEPT !.phase = "leave"])
    /\ UNCHANGED <<prog, ret, globals, owed>>

(***************************************************************************)
(* ExitTrapScope: whichever way the call returns, the EXIT trap runs and   *)
(* the one saved at entry is put back.                                     *)
(***************************************************************************)
Mut_ExitTrapDue == exitTrap # None /\ ~setE

ExitTrapDue == exitTrap # None

RunExitTrap ==
    /\ Waiting("leave")
    /\ ExitTrapDue
    /\ exitTrap' = None
    /\ owed' = owed \ {exitTrap}
    /\ stack' = Append(WithTop([Top EXCEPT !.phase = "trap"]),
                       NewFrame(exitTrap, None))
    /\ UNCHANGED <<prog, ret, lastExit, errTrap, inErr, setE, funs, frames>>

Mut_Restored(f) == exitTrap

Restored(f) == f.saved

\* The call is over; the frame below, if any, sees what it returned.
Pop ==
    /\ \/ Waiting("trap")
       \/ Waiting("leave") /\ ~ExitTrapDue
    /\ exitTrap' = Restored(Top)
    /\ ret' = Top.rc
    /\ stack' = Front(stack)
    /\ UNCHANGED <<prog, lastExit, errTrap, inErr, setE, funs, frames, owed>>

Over == stack = <<>>

Terminated == Over /\ UNCHANGED vars

Shell ==
    \/ SkipPart \/ EmptyPart \/ RunCommand \/ ExtendedTest \/ ExitBuiltin
    \/ ReturnBuiltin \/ SetErrexit \/ TrapExit \/ TrapErr \/ DefineFunction
    \/ StartSubshell \/ StartGroup \/ StartBash \/ LineDone \/ BranchDone
    \/ StartIf \/ IfCondDone \/ StartCase
    \/ StartWhile \/ WhileCondDone \/ WhileBodyDone
    \/ StartFor \/ ForBodyDone \/ StartSource \/ SourceLineDone
    \/ CallFunction \/ CallDone
    \/ RunErrTrap \/ ErrTrapDone \/ NoErrTrap \/ Errexit
    \/ NextPart \/ ReturnFromLine \/ EndOfLine \/ RunExitTrap \/ Pop

Next == Shell \/ Terminated

Spec == Init /\ [][Next]_vars

\* One thread, which is scheduled; a simple command ends some day.
FairSpec == Spec /\ WF_vars(Shell)

(***************************************************************************)
(* Properties.                                                             *)
(***************************************************************************)
Phases == {"next", "done", "checked", "skipped", "leave", "trap", "err",
           "line", "branch", "cond", "wcond", "wbody", "for", "source", "call"}

Frame == [line : Lines, j : Nat, rc : Int, op : {";", "a", "o", ""},
          phase : Phases, count : Nat, saved : Lines \cup {None},
          mine : Lines \cup {None}]

TypeOK ==
    /\ prog \in [Lines -> Seq(Part)]
    /\ stack \in Seq(Frame)
    /\ ret \in Int
    /\ lastExit \in Int
    /\ exitTrap \in Lines \cup {None}
    /\ errTrap \in Lines \cup {None}
    /\ inErr \in BOOLEAN
    /\ setE \in BOOLEAN
    /\ funs \in [Funs -> Lines \cup {None}]
    /\ frames \in Seq([requested : BOOLEAN, code : Int])
    /\ owed \subseteq Lines

(***************************************************************************)
(* Function frames and the ERR trap's guard follow the C++ stack: there is *)
(* one function frame per call in progress, and the ERR trap is running    *)
(* exactly once or not at all, so it never runs because of itself.  Both   *)
(* are globals that every way out of a call has to put back.               *)
(***************************************************************************)
InPhase(p) == Cardinality({i \in DOMAIN stack : stack[i].phase = p})

Balanced ==
    /\ Len(frames) = InPhase("call")
    /\ InPhase("err") = IF inErr THEN 1 ELSE 0

(***************************************************************************)
(* An EXIT trap belongs to the call of executeShellLine that set it: the   *)
(* trap in force is the one its own parts left, whatever the conditions,   *)
(* bodies, functions and traps it called did (ExitTrapScope).              *)
(***************************************************************************)
TrapIsLexical ==
    stack # <<>> =>
        exitTrap = IF Top.phase = "trap" THEN None ELSE Top.mine

\* Every EXIT trap that was set and not replaced has been run when the shell
\* is done, by whichever way each line was left: end, return or set -e.
EveryExitTrapRuns == Over => owed = {}

(***************************************************************************)
(* After `return' no part of the function starts any more: not the rest of *)
(* the line, not another round of a loop around it, not the other parts of *)
(* lines it is nested in.  A trap's line still runs.  A return in a        *)
(* condition or a sourced line is noticed too late, and so is one in the   *)
(* line of a trap that runs while a condition ends: the next line begins   *)
(* before anybody asks.  Those programs are left out.                      *)
(***************************************************************************)
AllCmds == UNION {{prog[l][i].cmd : i \in DOMAIN prog[l]} : l \in Lines}

TestLines ==
    {c.cond : c \in {d \in AllCmds : d.k \in {"if", "while"}}}
    \cup UNION {ToSet(c.lines) : c \in {d \in AllCmds : d.k = "source"}}

TrapLines ==
    {c.line : c \in {d \in AllCmds : d.k \in {"trap_exit", "trap_err"}}} \ {None}

SimpleConditions ==
    \A l \in TestLines \cup TrapLines : \A i \in DOMAIN prog[l] :
        prog[l][i].cmd.k \in {"run", "test", "empty"}

InTrap == \E i \in DOMAIN stack : stack[i].phase \in {"err", "trap"}

StartsPart == Waiting("next") /\ HasPart /\ ShouldExecute(Top)

ReturnEndsFunction ==
    SimpleConditions /\ StartsPart /\ shouldReturn => InTrap

\* Nested calls unwind: their globals are put back on every way out, and a
\* return is seen by every caller up to the function's (executeShellLine,
\* executeSimpleCommand).
CallsUnwind == Balanced /\ ReturnEndsFunction

\* Every program ends: while loops are cut off, the ERR trap does not call
\* itself and the EXIT trap is cleared before it runs.  (Functions that call
\* themselves are not among the programs.)
Terminates == <>Over
==============================================================================
