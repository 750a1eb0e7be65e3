-------------------------- MODULE ShellLineProofs --------------------------
(***************************************************************************)
(* Proofs about ShellLine, for every program: the type invariant; the rule *)
(* that an EXIT trap belongs to the call that set it, and that none is     *)
(* lost; and that nested calls unwind, with what they keep in globals.     *)
(*                                                                         *)
(* A part that waits for a nested line is looked at again when the line    *)
(* returns: Fits says that the phase of a frame agrees with the part it    *)
(* stands at.  Linked is the strengthening for the trap: every call saved  *)
(* the trap its caller has in force.  For the rest a step is summed up as  *)
(* what it does to the phases of the stack (Deed): Shaped says what the    *)
(* frames below the top one may be waiting for, Requests where a return    *)
(* may be pending, OwedInv where the traps still to be run are kept.       *)
(***************************************************************************)
EXTENDS ShellLine, SeqFacts, FiniteSetTheorems, TLAPS

CmdOf(f) == prog[f.line][f.j].cmd

AwayFromParts == {"next", "leave", "trap"}

Fits(f) ==
    /\ f.j \in Nat \ {0}
    /\ f.phase \notin AwayFromParts => f.j <= Len(prog[f.line])
    /\ f.phase \in {"line", "branch", "call"} => CmdOf(f).k # "trap_exit"
    /\ f.phase = "cond" => CmdOf(f).k = "if"
    /\ f.phase \in {"wcond", "wbody"} => CmdOf(f).k = "while"
    /\ f.phase = "for" => CmdOf(f).k = "for"
    /\ f.phase = "source" =>
          CmdOf(f).k = "source" /\ f.count \in 1..Len(CmdOf(f).lines)

GoodFrames == {f \in Frame : Fits(f)}

InForce(f) == IF f.phase = "trap" THEN None ELSE f.mine

Linked(s) == \A i \in 1..Len(s) - 1 : s[i + 1].saved = InForce(s[i])

\* Everything but the stack.
RestOK ==
    /\ prog \in [Lines -> Seq(Part)]
    /\ ret \in Int
    /\ lastExit \in Int
    /\ exitTrap \in Lines \cup {None}
    /\ errTrap \in Lines \cup {None}
    /\ inErr \in BOOLEAN
    /\ setE \in BOOLEAN
    /\ funs \in [Funs -> Lines \cup {None}]
    /\ frames \in Seq([requested : BOOLEAN, code : Int])
    /\ owed \subseteq Lines

TInv == RestOK /\ stack \in Seq(GoodFrames)

TrapInv == Linked(stack) /\ (stack # <<>> => exitTrap = InForce(Top))

(***************************************************************************)
(* What a step can do to the stack.                                        *)
(***************************************************************************)
Stay ==
    /\ stack # <<>>
    /\ \E g \in GoodFrames :
          /\ stack' = WithTop(g)
          /\ g.saved = Top.saved
          /\ exitTrap' = InForce(g)

PushM ==
    /\ stack # <<>>
    /\ \E g, h \in GoodFrames :
          /\ stack' = Append(WithTop(g), h)
          /\ g.saved = Top.saved
          /\ h.saved = InForce(g)
          /\ exitTrap' = InForce(h)

PopM ==
    /\ stack # <<>>
    /\ stack' = Front(stack)
    /\ exitTrap' = Top.saved

\* A command of a kind has that kind's fields.
LEMMA CmdFields ==
    ASSUME NEW c \in Cmd
    PROVE  /\ c.k \in {"exit", "return"} => c.n \in Int
           /\ c.k = "errexit" => c.on \in BOOLEAN
           /\ c.k \in {"trap_exit", "trap_err"} => c.line \in Lines \cup {None}
           /\ c.k = "def" => c.f \in Funs /\ c.line \in Lines
           /\ c.k = "call" => c.f \in Funs
           /\ c.k \in {"subshell", "group", "bash"} => c.line \in Lines
           /\ c.k = "if" => /\ c.cond \in Lines /\ c.then \in Lines
                            /\ c.else \in Lines \cup {None}
           /\ c.k = "while" => c.cond \in Lines /\ c.body \in Lines
           /\ c.k = "for" => c.n \in Nat /\ c.body \in Lines
           /\ c.k = "case" => c.line \in Lines \cup {None}
           /\ c.k = "source" => c.lines \in Seq(Lines)
BY DEF Cmd

\* The top frame and the part it stands at.
LEMMA TopFacts ==
    ASSUME TInv, stack # <<>>
    PROVE  /\ Top \in Frame
           /\ Fits(Top)
           /\ Parts \in Seq(Part)
           /\ HasPart => ThePart \in Part /\ ThePart.cmd \in Cmd
                         /\ ThePart.cmd = CmdOf(Top)
           /\ Top.phase \notin AwayFromParts => HasPart
<1>1. Top \in GoodFrames BY LastFrontFacts DEF TInv, Top
<1>2. Top \in Frame /\ Fits(Top) BY <1>1 DEF GoodFrames
<1>3. Top.line \in Lines /\ Top.j \in Nat \ {0} BY <1>2 DEF Frame, Fits
<1>4. Parts \in Seq(Part) BY <1>3 DEF TInv, RestOK, Parts
<1>5. ASSUME HasPart PROVE ThePart \in Part
  <2>1. Top.j \in 1..Len(Parts) BY <1>3, <1>4, <1>5 DEF HasPart
  <2>2. QED BY <1>4, <2>1, ElementOfSeq DEF ThePart
<1>6. ASSUME HasPart PROVE ThePart.cmd \in Cmd /\ ThePart.cmd = CmdOf(Top)
  BY <1>5, <1>6 DEF Part, ThePart, Parts, CmdOf
<1>7. ASSUME Top.phase \notin AwayFromParts PROVE HasPart
  BY <1>2, <1>7 DEF Fits, HasPart, Parts
<1>8. QED BY <1>2, <1>4, <1>5, <1>6, <1>7

(***************************************************************************)
(* Frames made from the top frame.                                         *)
(***************************************************************************)
\* A frame that ended its part with rc.
LEMMA DoneFrame ==
    ASSUME TInv, stack # <<>>, HasPart, NEW rc \in Int, NEW m \in Lines \cup {None}
    PROVE  [Top EXCEPT !.rc = rc, !.phase = "done", !.mine = m] \in GoodFrames
<1>1. Top \in Frame /\ Fits(Top) BY TopFacts
<1> DEFINE g == [Top EXCEPT !.rc = rc, !.phase = "done", !.mine = m]
<1>2. g \in Frame BY <1>1 DEF Frame, Phases
<1>3. g.j = Top.j /\ g.line = Top.line /\ g.phase = "done"
  BY <1>1 DEF Frame
<1>4. Fits(g) BY <1>1, <1>3 DEF Fits, HasPart, Parts
<1>5. QED BY <1>2, <1>4 DEF GoodFrames

\* Every new frame is good.
LEMMA NewFrameGood ==
    ASSUME NEW l \in Lines, NEW t \in Lines \cup {None}
    PROVE  /\ NewFrame(l, t) \in GoodFrames
           /\ NewFrame(l, t).saved = t
           /\ InForce(NewFrame(l, t)) = t
<1> DEFINE h == NewFrame(l, t)
<1>1. h \in Frame BY DEF NewFrame, Frame, Phases
<1>2. Fits(h) BY DEF NewFrame, Fits, AwayFromParts
<1>3. h.saved = t /\ InForce(h) = t BY DEF NewFrame, InForce
<1>4. QED BY <1>1, <1>2, <1>3 DEF GoodFrames

\* The trap in force is the top frame's own.
LEMMA TrapOfTop ==
    ASSUME TrapInv, stack # <<>>, Top.phase # "trap"
    PROVE  exitTrap = Top.mine
BY DEF TrapInv, InForce

\* A part that ends leaves its line's trap in force, or the one it set.
LEMMA FinishStays ==
    ASSUME TInv, TrapInv, stack # <<>>, HasPart, Top.phase # "trap",
           NEW rc \in Int, Finish(rc),
           exitTrap' = IF ThePart.cmd.k = "trap_exit" THEN ThePart.cmd.line
                       ELSE exitTrap
    PROVE  Stay /\ lastExit' \in Int
<1> DEFINE c == ThePart.cmd
           s == IF ThePart.negate /\ Negatable(c.k)
                THEN (IF rc = 0 THEN 1 ELSE 0) ELSE rc
           m == IF c.k = "trap_exit" THEN c.line ELSE Top.mine
           g == [Top EXCEPT !.rc = s, !.phase = "done", !.mine = m]
<1>1. Top \in Frame /\ c \in Cmd BY TopFacts
<1>2. s \in Int OBVIOUS
<1>3. m \in Lines \cup {None}
  <2>1. Top.mine \in Lines \cup {None} BY <1>1 DEF Frame
  <2>2. c.k = "trap_exit" => c.line \in Lines \cup {None}
    BY <1>1, CmdFields
  <2>3. QED BY <2>1, <2>2
<1>4. g \in GoodFrames
  <2> HIDE DEF s, m
  <2>1. QED BY <1>2, <1>3, DoneFrame
<1>5. stack' = WithTop(g) BY <1>1 DEF Finish, Frame
<1>6. g.saved = Top.saved /\ InForce(g) = m BY <1>1 DEF Frame, InForce
<1>7. exitTrap' = m BY TrapOfTop
<1>8. lastExit' \in Int
  <2>1. lastExit' = IF SetsLast(c.k) THEN s ELSE lastExit BY DEF Finish
  <2>2. QED BY <1>2, <2>1 DEF TInv, RestOK
<1>9. QED
  <2> HIDE DEF g, m
  <2>1. QED BY <1>4, <1>5, <1>6, <1>7, <1>8 DEF Stay

\* The top frame changed to g waits for a new call of executeShellLine.
LEMMA CallPushes ==
    ASSUME TInv, TrapInv, stack # <<>>, Top.phase # "trap",
           NEW g \in GoodFrames, g.saved = Top.saved, g.mine = Top.mine,
           g.phase # "trap", NEW l \in Lines,
           stack' = Append(WithTop(g), NewFrame(l, exitTrap)),
           exitTrap' = exitTrap
    PROVE  PushM
<1> DEFINE h == NewFrame(l, exitTrap)
<1>1. exitTrap \in Lines \cup {None} BY DEF TInv, RestOK
<1>2. h \in GoodFrames /\ h.saved = exitTrap /\ InForce(h) = exitTrap
  BY <1>1, NewFrameGood
<1>3. InForce(g) = exitTrap BY TrapOfTop DEF InForce
<1>4. stack' = Append(WithTop(g), h) OBVIOUS
<1>5. QED
  <2> HIDE DEF h
  <2>1. QED BY <1>2, <1>3, <1>4 DEF PushM

\* The top frame with a new phase.
LEMMA PhaseFrame ==
    ASSUME TInv, stack # <<>>, HasPart, NEW p \in Phases,
           p \in {"line", "branch", "call"} => ThePart.cmd.k # "trap_exit",
           p = "cond" => ThePart.cmd.k = "if",
           p \in {"wcond", "wbody"} => ThePart.cmd.k = "while",
           p \notin {"for", "source"}
    PROVE  LET g == [Top EXCEPT !.phase = p] IN
           /\ g \in GoodFrames
           /\ g.saved = Top.saved /\ g.mine = Top.mine /\ g.phase = p
<1> DEFINE g == [Top EXCEPT !.phase = p]
<1>1. Top \in Frame /\ Fits(Top) /\ ThePart.cmd = CmdOf(Top) BY TopFacts
<1>2. g \in Frame BY <1>1 DEF Frame
<1>3. g.j = Top.j /\ g.line = Top.line /\ g.phase = p /\ g.saved = Top.saved
      /\ g.mine = Top.mine
  BY <1>1 DEF Frame
<1>4. CmdOf(g) = CmdOf(Top) BY <1>3 DEF CmdOf
<1>5. Fits(g)
  <2> HIDE DEF g
  <2>1. QED BY <1>1, <1>3, <1>4 DEF Fits, HasPart, Parts
<1>6. QED BY <1>2, <1>3, <1>5 DEF GoodFrames

\* Enter pushes a frame.
LEMMA EnterPushes ==
    ASSUME TInv, TrapInv, stack # <<>>, HasPart, Top.phase # "trap",
           NEW p \in Phases \ {"trap", "for", "source"},
           p \in {"line", "branch", "call"} => ThePart.cmd.k # "trap_exit",
           p = "cond" => ThePart.cmd.k = "if",
           p \in {"wcond", "wbody"} => ThePart.cmd.k = "while",
           NEW l \in Lines, Enter(p, l), exitTrap' = exitTrap
    PROVE  PushM
<1> DEFINE g == [Top EXCEPT !.phase = p]
<1>1. g \in GoodFrames /\ g.saved = Top.saved /\ g.mine = Top.mine /\ g.phase = p
  BY PhaseFrame
<1>2. stack' = Append(WithTop(g), NewFrame(l, exitTrap)) BY DEF Enter
<1> HIDE DEF g
<1>3. QED BY <1>1, <1>2, CallPushes

(***************************************************************************)
(* One lemma per group of actions: the stack moves in one of three ways    *)
(* and the other variables keep their types.                               *)
(***************************************************************************)
Moves == Stay \/ PushM \/ PopM

\* The code a function returned is a number.
LEMMA ReturnCodeType ==
    ASSUME TInv
    PROVE  getReturnCode \in Int
<1>1. CASE frames = <<>> BY <1>1 DEF getReturnCode
<1>2. CASE frames # <<>>
  <2>1. Last(frames) \in [requested : BOOLEAN, code : Int]
    BY <1>2, LastFrontFacts DEF TInv, RestOK
  <2>2. QED BY <1>2, <2>1 DEF getReturnCode
<1>3. QED BY <1>1, <1>2

\* Where a part starts, the stack has a top frame that is not in its trap.
LEMMA AtPartFacts ==
    ASSUME TInv, NEW k, AtPart(k)
    PROVE  /\ stack # <<>> /\ HasPart /\ Top.phase = "next"
           /\ ThePart.cmd.k = k /\ ThePart.cmd \in Cmd
<1>1. stack # <<>> /\ HasPart /\ Top.phase = "next" /\ ThePart.cmd.k = k
  BY DEF AtPart, Waiting
<1>2. QED BY <1>1, TopFacts

\* What every waiting phase says.
LEMMA WaitingFacts ==
    ASSUME TInv, NEW p, Waiting(p), p \notin AwayFromParts
    PROVE  /\ stack # <<>> /\ HasPart /\ Top.phase = p
           /\ ThePart.cmd \in Cmd /\ ThePart.cmd = CmdOf(Top) /\ Fits(Top)
<1>1. stack # <<>> /\ Top.phase = p BY DEF Waiting
<1>2. QED BY <1>1, TopFacts

\* Commands and builtins that end at once.
LEMMA SimpleSteps ==
    ASSUME TInv, TrapInv,
           EmptyPart \/ RunCommand \/ ExtendedTest \/ ExitBuiltin
           \/ ReturnBuiltin \/ SetErrexit \/ TrapExit \/ TrapErr \/ DefineFunction,
           ProgramAssumption
    PROVE  Moves /\ RestOK'
<1>1. CASE EmptyPart
  <2>1. stack # <<>> /\ HasPart /\ Top.phase = "next" /\ ThePart.cmd.k = "empty"
    BY <1>1, AtPartFacts DEF EmptyPart
  <2>2. Finish(0) /\ exitTrap' = exitTrap BY <1>1 DEF EmptyPart, globals
  <2>3. Stay /\ lastExit' \in Int BY <2>1, <2>2, FinishStays
  <2>4. RestOK' BY <1>1, <2>3 DEF EmptyPart, globals, TInv, RestOK
  <2>5. QED BY <2>3, <2>4 DEF Moves
<1>2. CASE RunCommand
  <2>1. stack # <<>> /\ HasPart /\ Top.phase = "next" /\ ThePart.cmd.k = "run"
    BY <1>2, AtPartFacts DEF RunCommand
  <2>2. PICK r \in Statuses : Finish(r) BY <1>2 DEF RunCommand
  <2>3. r \in Int BY <2>2 DEF ProgramAssumption
  <2>4. exitTrap' = exitTrap BY <1>2 DEF RunCommand, globals
  <2>5. Stay /\ lastExit' \in Int BY <2>1, <2>2, <2>3, <2>4, FinishStays
  <2>6. RestOK'
    BY <1>2, <2>2, <2>3, <2>5 DEF RunCommand, globals, TInv, RestOK
  <2>7. QED BY <2>5, <2>6 DEF Moves
<1>3. CASE ExtendedTest
  <2>1. stack # <<>> /\ HasPart /\ Top.phase = "next" /\ ThePart.cmd.k = "test"
    BY <1>3, AtPartFacts DEF ExtendedTest
  <2>2. PICK r \in {0, 1} : Finish(r) BY <1>3 DEF ExtendedTest
  <2>3. r \in Int BY <2>2
  <2>4. exitTrap' = exitTrap BY <1>3 DEF ExtendedTest, globals
  <2>5. Stay /\ lastExit' \in Int BY <2>1, <2>2, <2>3, <2>4, FinishStays
  <2>6. RestOK'
    BY <1>3, <2>2, <2>3, <2>5 DEF ExtendedTest, globals, TInv, RestOK
  <2>7. QED BY <2>5, <2>6 DEF Moves
<1>4. CASE ExitBuiltin
  <2>1. stack # <<>> /\ HasPart /\ Top.phase = "next" /\ ThePart.cmd.k = "exit"
        /\ ThePart.cmd \in Cmd
    BY <1>4, AtPartFacts DEF ExitBuiltin
  <2>2. ThePart.cmd.n \in Int BY <2>1, CmdFields
  <2>3. Finish(ThePart.cmd.n) /\ exitTrap' = exitTrap
    BY <1>4 DEF ExitBuiltin, globals
  <2>4. Stay /\ lastExit' \in Int BY <2>1, <2>2, <2>3, FinishStays
  <2>5. RestOK' BY <1>4, <2>4 DEF ExitBuiltin, globals, TInv, RestOK
  <2>6. QED BY <2>4, <2>5 DEF Moves
<1>5. CASE ReturnBuiltin
  <2>1. stack # <<>> /\ HasPart /\ Top.phase = "next" /\ ThePart.cmd.k = "return"
        /\ ThePart.cmd \in Cmd
    BY <1>5, AtPartFacts DEF ReturnBuiltin
  <2>2. ThePart.cmd.n \in Int BY <2>1, CmdFields
  <2>3. Finish(ThePart.cmd.n) /\ exitTrap' = exitTrap
    BY <1>5 DEF ReturnBuiltin
  <2>4. Stay /\ lastExit' \in Int BY <2>1, <2>2, <2>3, FinishStays
  <2>5. frames' \in Seq([requested : BOOLEAN, code : Int])
    <3> DEFINE e == [requested |-> TRUE, code |-> ThePart.cmd.n]
    <3>1. CASE frames = <<>>
      BY <1>5, <3>1 DEF ReturnBuiltin, TInv, RestOK
    <3>2. CASE frames # <<>>
      <4>1. e \in [requested : BOOLEAN, code : Int] BY <2>2
      <4>2. frames' = [frames EXCEPT ![Len(frames)] = e]
        BY <1>5, <3>2 DEF ReturnBuiltin
      <4> HIDE DEF e
      <4>3. QED BY <3>2, <4>1, <4>2, SetLastFacts DEF TInv, RestOK
    <3>3. QED BY <3>1, <3>2
  <2>6. RestOK' BY <1>5, <2>4, <2>5 DEF ReturnBuiltin, TInv, RestOK
  <2>7. QED BY <2>4, <2>6 DEF Moves
<1>6. CASE SetErrexit
  <2>1. stack # <<>> /\ HasPart /\ Top.phase = "next" /\ ThePart.cmd.k = "errexit"
        /\ ThePart.cmd \in Cmd
    BY <1>6, AtPartFacts DEF SetErrexit
  <2>2. ThePart.cmd.on \in BOOLEAN BY <2>1, CmdFields
  <2>3. Finish(0) /\ exitTrap' = exitTrap BY <1>6 DEF SetErrexit
  <2>4. Stay /\ lastExit' \in Int BY <2>1, <2>3, FinishStays
  <2>5. RestOK' BY <1>6, <2>2, <2>4 DEF SetErrexit, TInv, RestOK
  <2>6. QED BY <2>4, <2>5 DEF Moves
<1>7. CASE TrapExit
  <2>1. stack # <<>> /\ HasPart /\ Top.phase = "next" /\ ThePart.cmd.k = "trap_exit"
        /\ ThePart.cmd \in Cmd
    BY <1>7, AtPartFacts DEF TrapExit
  <2>2. ThePart.cmd.line \in Lines \cup {None} BY <2>1, CmdFields
  <2>3. Finish(0) /\ exitTrap' = ThePart.cmd.line BY <1>7 DEF TrapExit
  <2>4. Stay /\ lastExit' \in Int BY <2>1, <2>3, FinishStays
  <2>5. owed' \subseteq Lines BY <1>7, <2>2 DEF TrapExit, TInv, RestOK
  <2>6. RestOK'
    BY <1>7, <2>2, <2>3, <2>4, <2>5 DEF TrapExit, TInv, RestOK
  <2>7. QED BY <2>4, <2>6 DEF Moves
<1>8. CASE TrapErr
  <2>1. stack # <<>> /\ HasPart /\ Top.phase = "next" /\ ThePart.cmd.k = "trap_err"
        /\ ThePart.cmd \in Cmd
    BY <1>8, AtPartFacts DEF TrapErr
  <2>2. ThePart.cmd.line \in Lines \cup {None} BY <2>1, CmdFields
  <2>3. Finish(0) /\ exitTrap' = exitTrap BY <1>8 DEF TrapErr
  <2>4. Stay /\ lastExit' \in Int BY <2>1, <2>3, FinishStays
  <2>5. RestOK' BY <1>8, <2>2, <2>4 DEF TrapErr, TInv, RestOK
  <2>6. QED BY <2>4, <2>5 DEF Moves
<1>9. CASE DefineFunction
  <2>1. stack # <<>> /\ HasPart /\ Top.phase = "next" /\ ThePart.cmd.k = "def"
        /\ ThePart.cmd \in Cmd
    BY <1>9, AtPartFacts DEF DefineFunction
  <2>2. ThePart.cmd.line \in Lines BY <2>1, CmdFields
  <2>3. Finish(0) /\ exitTrap' = exitTrap BY <1>9 DEF DefineFunction
  <2>4. Stay /\ lastExit' \in Int BY <2>1, <2>3, FinishStays
  <2>5. funs' \in [Funs -> Lines \cup {None}]
    BY <1>9, <2>2 DEF DefineFunction, TInv, RestOK
  <2>6. RestOK' BY <1>9, <2>4, <2>5 DEF DefineFunction, TInv, RestOK
  <2>7. QED BY <2>4, <2>6 DEF Moves
<1>10. QED BY <1>1, <1>2, <1>3, <1>4, <1>5, <1>6, <1>7, <1>8, <1>9

\* A line that is a part of this one: called, and returned from.
LEMMA LineSteps ==
    ASSUME TInv, TrapInv,
           StartSubshell \/ StartGroup \/ StartBash \/ StartIf \/ LineDone
           \/ BranchDone
    PROVE  Moves /\ RestOK'
<1>1. CASE StartSubshell
  <2>1. stack # <<>> /\ HasPart /\ Top.phase = "next" /\ ThePart.cmd.k = "subshell"
        /\ ThePart.cmd \in Cmd
    BY <1>1, AtPartFacts DEF StartSubshell
  <2>2. ThePart.cmd.line \in Lines BY <2>1, CmdFields
  <2>3. Enter("line", ThePart.cmd.line) /\ exitTrap' = exitTrap
    BY <1>1 DEF StartSubshell, globals
  <2>4. "line" \in Phases \ {"trap", "for", "source"} BY DEF Phases
  <2>5. PushM BY <2>1, <2>2, <2>3, <2>4, EnterPushes
  <2>6. RestOK' BY <1>1 DEF StartSubshell, globals, TInv, RestOK
  <2>7. QED BY <2>5, <2>6 DEF Moves
<1>2. CASE StartGroup
  <2>1. stack # <<>> /\ HasPart /\ Top.phase = "next" /\ ThePart.cmd.k = "group"
        /\ ThePart.cmd \in Cmd
    BY <1>2, AtPartFacts DEF StartGroup
  <2>2. ThePart.cmd.line \in Lines BY <2>1, CmdFields
  <2>3. Enter("line", ThePart.cmd.line) /\ exitTrap' = exitTrap
    BY <1>2 DEF StartGroup, globals
  <2>4. "line" \in Phases \ {"trap", "for", "source"} BY DEF Phases
  <2>5. PushM BY <2>1, <2>2, <2>3, <2>4, EnterPushes
  <2>6. RestOK' BY <1>2 DEF StartGroup, globals, TInv, RestOK
  <2>7. QED BY <2>5, <2>6 DEF Moves
<1>3. CASE StartBash
  <2>1. stack # <<>> /\ HasPart /\ Top.phase = "next" /\ ThePart.cmd.k = "bash"
        /\ ThePart.cmd \in Cmd
    BY <1>3, AtPartFacts DEF StartBash
  <2>2. ThePart.cmd.line \in Lines BY <2>1, CmdFields
  <2>3. Enter("line", ThePart.cmd.line) /\ exitTrap' = exitTrap
    BY <1>3 DEF StartBash, globals
  <2>4. "line" \in Phases \ {"trap", "for", "source"} BY DEF Phases
  <2>5. PushM BY <2>1, <2>2, <2>3, <2>4, EnterPushes
  <2>6. RestOK' BY <1>3 DEF StartBash, globals, TInv, RestOK
  <2>7. QED BY <2>5, <2>6 DEF Moves
<1>4. CASE StartIf
  <2>1. stack # <<>> /\ HasPart /\ Top.phase = "next" /\ ThePart.cmd.k = "if"
        /\ ThePart.cmd \in Cmd
    BY <1>4, AtPartFacts DEF StartIf
  <2>2. ThePart.cmd.cond \in Lines BY <2>1, CmdFields
  <2>3. Enter("cond", ThePart.cmd.cond) /\ exitTrap' = exitTrap
    BY <1>4 DEF StartIf, globals
  <2>4. "cond" \in Phases \ {"trap", "for", "source"} BY DEF Phases
  <2>5. PushM BY <2>1, <2>2, <2>3, <2>4, EnterPushes
  <2>6. RestOK' BY <1>4 DEF StartIf, globals, TInv, RestOK
  <2>7. QED BY <2>5, <2>6 DEF Moves
<1>5. CASE LineDone
  <2> DEFINE r == ret
  <2>1. Waiting("line") /\ Finish(r) /\ exitTrap' = exitTrap
    BY <1>5 DEF LineDone, globals
  <2>2. r \in Int BY ReturnCodeType DEF TInv, RestOK
  <2>3. stack # <<>> /\ HasPart /\ Top.phase = "line"
        /\ ThePart.cmd.k # "trap_exit"
    BY <2>1, WaitingFacts DEF AwayFromParts, Fits
  <2> HIDE DEF r
  <2>4. Stay /\ lastExit' \in Int BY <2>1, <2>2, <2>3, FinishStays
  <2>5. RestOK' BY <1>5, <2>4 DEF LineDone, globals, TInv, RestOK
  <2>6. QED BY <2>4, <2>5 DEF Moves
<1>6. CASE BranchDone
  <2> DEFINE r == IF shouldReturn THEN getReturnCode ELSE ret
  <2>1. Waiting("branch") /\ Finish(r) /\ exitTrap' = exitTrap
    BY <1>6 DEF BranchDone, globals
  <2>2. r \in Int BY ReturnCodeType DEF TInv, RestOK
  <2>3. stack # <<>> /\ HasPart /\ Top.phase = "branch"
        /\ ThePart.cmd.k # "trap_exit"
    BY <2>1, WaitingFacts DEF AwayFromParts, Fits
  <2> HIDE DEF r
  <2>4. Stay /\ lastExit' \in Int BY <2>1, <2>2, <2>3, FinishStays
  <2>5. RestOK' BY <1>6, <2>4 DEF BranchDone, globals, TInv, RestOK
  <2>6. QED BY <2>4, <2>5 DEF Moves
<1>7. QED BY <1>1, <1>2, <1>3, <1>4, <1>5, <1>6

\* A part that either ends or calls a line: if without else, case.
LEMMA BranchSteps ==
    ASSUME TInv, TrapInv, ProgramAssumption, IfCondDone \/ StartCase
    PROVE  Moves /\ RestOK'
<1>1. CASE IfCondDone
  <2>1. Waiting("cond") /\ exitTrap' = exitTrap
    BY <1>1 DEF IfCondDone, globals
  <2>2. stack # <<>> /\ HasPart /\ Top.phase = "cond" /\ ThePart.cmd \in Cmd
        /\ ThePart.cmd.k = "if"
    BY <2>1, WaitingFacts DEF AwayFromParts, Fits
  <2>3. ThePart.cmd.then \in Lines /\ ThePart.cmd.else \in Lines \cup {None}
    BY <2>2, CmdFields
  <2>4. "branch" \in Phases \ {"trap", "for", "source"} BY DEF Phases
  <2>5. Moves /\ lastExit' \in Int
    <3>1. CASE Enter("branch", ThePart.cmd.then) /\ UNCHANGED lastExit
      BY <2>1, <2>2, <2>3, <2>4, <3>1, EnterPushes DEF Moves, TInv, RestOK
    <3>2. CASE /\ ThePart.cmd.else # None
               /\ Enter("branch", ThePart.cmd.else) /\ UNCHANGED lastExit
      BY <2>1, <2>2, <2>3, <2>4, <3>2, EnterPushes DEF Moves, TInv, RestOK
    <3>3. CASE Finish(0) BY <2>1, <2>2, <3>3, FinishStays DEF Moves
    <3>4. QED BY <1>1, <3>1, <3>2, <3>3 DEF IfCondDone
  <2>6. RestOK' BY <1>1, <2>5 DEF IfCondDone, globals, TInv, RestOK
  <2>7. QED BY <2>5, <2>6
<1>2. CASE StartCase
  <2>1. AtPart("case") /\ exitTrap' = exitTrap
    BY <1>2 DEF StartCase, globals
  <2>2. stack # <<>> /\ HasPart /\ Top.phase = "next" /\ ThePart.cmd \in Cmd
        /\ ThePart.cmd.k = "case"
    BY <2>1, AtPartFacts
  <2>3. ThePart.cmd.line \in Lines \cup {None} BY <2>2, CmdFields
  <2>4. "branch" \in Phases \ {"trap", "for", "source"} BY DEF Phases
  <2>5. Moves /\ lastExit' \in Int
    <3>1. CASE /\ ThePart.cmd.line # None
               /\ Enter("branch", ThePart.cmd.line) /\ UNCHANGED lastExit
      BY <2>1, <2>2, <2>3, <2>4, <3>1, EnterPushes DEF Moves, TInv, RestOK
    <3>2. CASE Finish(0) BY <2>1, <2>2, <3>2, FinishStays DEF Moves
    <3>3. QED BY <1>2, <3>1, <3>2 DEF StartCase
  <2>6. RestOK' BY <1>2, <2>5 DEF StartCase, globals, TInv, RestOK
  <2>7. QED BY <2>5, <2>6
<1>3. QED BY <1>1, <1>2

InRound(p, n, rc) == [Top EXCEPT !.phase = p, !.count = n, !.rc = rc]

\* The top frame in a round of a loop.
LEMMA LoopFrame ==
    ASSUME TInv, stack # <<>>, HasPart, NEW p \in {"wcond", "for", "source"},
           NEW n \in Nat, NEW rc \in Int,
           p = "wcond" => ThePart.cmd.k = "while",
           p = "for" => ThePart.cmd.k = "for",
           p = "source" => ThePart.cmd.k = "source" /\ n \in 1..Len(ThePart.cmd.lines)
    PROVE  LET g == InRound(p, n, rc) IN
           /\ g \in GoodFrames
           /\ g.saved = Top.saved /\ g.mine = Top.mine /\ g.phase = p
<1> DEFINE g == InRound(p, n, rc)
<1> USE DEF InRound
<1>1. Top \in Frame /\ Fits(Top) /\ ThePart.cmd = CmdOf(Top) BY TopFacts
<1>2. g \in Frame BY <1>1 DEF Frame, Phases
<1>3. g.j = Top.j /\ g.line = Top.line /\ g.phase = p /\ g.saved = Top.saved
      /\ g.mine = Top.mine /\ g.count = n
  BY <1>1 DEF Frame
<1>4. CmdOf(g) = CmdOf(Top) BY <1>3 DEF CmdOf
<1>5. Fits(g)
  <2> HIDE DEF g
  <2>1. QED BY <1>1, <1>3, <1>4 DEF Fits, HasPart, Parts
<1>6. QED
  <2> HIDE DEF InRound
  <2>1. QED BY <1>2, <1>3, <1>5 DEF GoodFrames

\* The next round calls its line.
LEMMA LoopPushes ==
    ASSUME TInv, TrapInv, stack # <<>>, HasPart, Top.phase # "trap",
           NEW p \in {"wcond", "for", "source"}, NEW n \in Nat, NEW rc \in Int,
           p = "wcond" => ThePart.cmd.k = "while",
           p = "for" => ThePart.cmd.k = "for",
           p = "source" => ThePart.cmd.k = "source" /\ n \in 1..Len(ThePart.cmd.lines),
           NEW l \in Lines,
           stack' = Append(WithTop(InRound(p, n, rc)), NewFrame(l, exitTrap)),
           exitTrap' = exitTrap
    PROVE  PushM
<1> DEFINE g == InRound(p, n, rc)
<1>1. g \in GoodFrames /\ g.saved = Top.saved /\ g.mine = Top.mine /\ g.phase = p
  BY LoopFrame
<1>2. stack' = Append(WithTop(g), NewFrame(l, exitTrap)) OBVIOUS
<1> HIDE DEF g
<1>3. QED BY <1>1, <1>2, CallPushes

\* Frames written with fewer fields.
LEMMA SameRound ==
    ASSUME TInv, stack # <<>>, NEW p \in {"for", "source"}, NEW n \in Nat
    PROVE  /\ [Top EXCEPT !.phase = p, !.count = n] = InRound(p, n, Top.rc)
           /\ Top.phase = p => [Top EXCEPT !.count = n] = InRound(p, n, Top.rc)
           /\ Top.rc \in Int /\ Top.count \in Nat
<1>1. Top \in Frame BY TopFacts
<1>2. QED BY <1>1 DEF Frame, InRound

\* The counter and the status of the top frame are numbers.
LEMMA TopNumbers ==
    ASSUME TInv, stack # <<>>
    PROVE  Top.rc \in Int /\ Top.count \in Nat /\ Top.count + 1 \in Nat
<1>1. Top.rc \in Int /\ Top.count \in Nat BY TopFacts DEF Frame
<1>2. QED BY <1>1

\* while: rounds are counted, the last status is kept.
LEMMA WhileSteps ==
    ASSUME TInv, TrapInv, ProgramAssumption,
           StartWhile \/ WhileCondDone \/ WhileBodyDone
    PROVE  Moves /\ RestOK'
<1>1. CASE StartWhile
  <2>1. AtPart("while") /\ exitTrap' = exitTrap
    BY <1>1 DEF StartWhile, globals
  <2>2. stack # <<>> /\ HasPart /\ Top.phase = "next" /\ ThePart.cmd \in Cmd
        /\ ThePart.cmd.k = "while"
    BY <2>1, AtPartFacts
  <2>3. ThePart.cmd.cond \in Lines BY <2>2, CmdFields
  <2>4. Moves /\ lastExit' \in Int
    <3>1. CASE MAX_ITERATIONS = 0
      BY <1>1, <2>1, <2>2, <3>1, FinishStays DEF StartWhile, Moves
    <3>2. CASE MAX_ITERATIONS # 0
      <4>1. /\ stack' = Append(WithTop(InRound("wcond", 0, 0)),
                               NewFrame(ThePart.cmd.cond, exitTrap))
            /\ lastExit' = lastExit
        BY <1>1, <3>2, Zenon DEF StartWhile, InRound
      <4>2. PushM BY <2>1, <2>2, <2>3, <4>1, LoopPushes
      <4>3. QED BY <4>1, <4>2 DEF Moves, TInv, RestOK
    <3>3. QED BY <3>1, <3>2
  <2>5. RestOK' BY <1>1, <2>4 DEF StartWhile, globals, TInv, RestOK
  <2>6. QED BY <2>4, <2>5
<1>2. CASE WhileCondDone
  <2>1. Waiting("wcond") /\ exitTrap' = exitTrap
    BY <1>2 DEF WhileCondDone, globals
  <2>2. stack # <<>> /\ HasPart /\ Top.phase = "wcond" /\ ThePart.cmd \in Cmd
        /\ ThePart.cmd.k = "while"
    BY <2>1, WaitingFacts DEF AwayFromParts, Fits
  <2>3. ThePart.cmd.body \in Lines /\ "wbody" \in Phases \ {"trap", "for", "source"}
    BY <2>2, CmdFields DEF Phases
  <2>4. Top.rc \in Int BY <2>2, TopFacts DEF Frame
  <2>5. Moves /\ lastExit' \in Int
    <3>1. CASE ret # 0
      BY <1>2, <2>1, <2>2, <2>4, <3>1, FinishStays DEF WhileCondDone, Moves
    <3>2. CASE ret = 0
      <4>1. Enter("wbody", ThePart.cmd.body) /\ lastExit' = lastExit
        BY <1>2, <3>2 DEF WhileCondDone
      <4>2. PushM BY <2>1, <2>2, <2>3, <4>1, EnterPushes
      <4>3. QED BY <4>1, <4>2 DEF Moves, TInv, RestOK
    <3>3. QED BY <3>1, <3>2
  <2>6. RestOK' BY <1>2, <2>5 DEF WhileCondDone, globals, TInv, RestOK
  <2>7. QED BY <2>5, <2>6
<1>3. CASE WhileBodyDone
  <2>1. Waiting("wbody") /\ exitTrap' = exitTrap
    BY <1>3 DEF WhileBodyDone, globals
  <2>2. stack # <<>> /\ HasPart /\ Top.phase = "wbody" /\ ThePart.cmd \in Cmd
        /\ ThePart.cmd.k = "while"
    BY <2>1, WaitingFacts DEF AwayFromParts, Fits
  <2>3. ThePart.cmd.cond \in Lines /\ Top.count + 1 \in Nat /\ ret \in Int
    BY <2>2, CmdFields, TopNumbers DEF TInv, RestOK
  <2>4. Moves /\ lastExit' \in Int
    <3>1. CASE shouldReturn
      BY <1>3, <2>1, <2>2, <3>1, ReturnCodeType, FinishStays DEF WhileBodyDone, Moves
    <3>2. CASE ~shouldReturn /\ Top.count + 1 >= MAX_ITERATIONS
      BY <1>3, <2>1, <2>2, <2>3, <3>2, FinishStays DEF WhileBodyDone, Moves
    <3>3. CASE ~shouldReturn /\ ~(Top.count + 1 >= MAX_ITERATIONS)
      <4>1. /\ stack' = Append(WithTop(InRound("wcond", Top.count + 1, ret)),
                               NewFrame(ThePart.cmd.cond, exitTrap))
            /\ lastExit' = lastExit
        BY <1>3, <3>3, Zenon DEF WhileBodyDone, InRound
      <4>2. PushM BY <2>1, <2>2, <2>3, <4>1, LoopPushes
      <4>3. QED BY <4>1, <4>2 DEF Moves, TInv, RestOK
    <3>4. QED BY <3>1, <3>2, <3>3
  <2>5. RestOK' BY <1>3, <2>4 DEF WhileBodyDone, globals, TInv, RestOK
  <2>6. QED BY <2>4, <2>5
<1>4. QED BY <1>1, <1>2, <1>3

\* for: its rounds, none of whose statuses is kept.
LEMMA ForSteps ==
    ASSUME TInv, TrapInv, StartFor \/ ForBodyDone
    PROVE  Moves /\ RestOK'
<1>1. CASE StartFor
  <2>1. AtPart("for") /\ exitTrap' = exitTrap
    BY <1>1 DEF StartFor, globals
  <2>2. stack # <<>> /\ HasPart /\ Top.phase = "next" /\ ThePart.cmd \in Cmd
        /\ ThePart.cmd.k = "for"
    BY <2>1, AtPartFacts
  <2>3. ThePart.cmd.body \in Lines BY <2>2, CmdFields
  <2>4. Moves /\ lastExit' \in Int
    <3>1. CASE ThePart.cmd.n = 0
      BY <1>1, <2>1, <2>2, <3>1, FinishStays DEF StartFor, Moves
    <3>2. CASE ThePart.cmd.n # 0
      <4>1. /\ stack' = Append(WithTop([Top EXCEPT !.phase = "for", !.count = 1]),
                               NewFrame(ThePart.cmd.body, exitTrap))
            /\ lastExit' = lastExit
        BY <1>1, <3>2, Zenon DEF StartFor
      <4>2. /\ [Top EXCEPT !.phase = "for", !.count = 1] = InRound("for", 1, Top.rc)
            /\ Top.rc \in Int
        BY <2>2, SameRound, Zenon, "for" \in {"for", "source"}, 1 \in Nat
      <4>3. stack' = Append(WithTop(InRound("for", 1, Top.rc)),
                            NewFrame(ThePart.cmd.body, exitTrap))
        BY <4>1, <4>2, Zenon
      <4>4. PushM BY <2>1, <2>2, <2>3, <4>2, <4>3, LoopPushes
      <4>5. QED BY <4>1, <4>4 DEF Moves, TInv, RestOK
    <3>3. QED BY <3>1, <3>2
  <2>5. RestOK' BY <1>1, <2>4 DEF StartFor, globals, TInv, RestOK
  <2>6. QED BY <2>4, <2>5
<1>2. CASE ForBodyDone
  <2>1. Waiting("for") /\ exitTrap' = exitTrap
    BY <1>2 DEF ForBodyDone, globals
  <2>2. stack # <<>> /\ HasPart /\ Top.phase = "for" /\ ThePart.cmd \in Cmd
        /\ ThePart.cmd.k = "for"
    BY <2>1, WaitingFacts DEF AwayFromParts, Fits
  <2>3. ThePart.cmd.body \in Lines /\ Top.count + 1 \in Nat
    BY <2>2, CmdFields, TopNumbers
  <2>4. Moves /\ lastExit' \in Int
    <3>1. CASE shouldReturn
      BY <1>2, <2>1, <2>2, <3>1, ReturnCodeType, FinishStays DEF ForBodyDone, Moves
    <3>2. CASE ~shouldReturn /\ Top.count = ThePart.cmd.n
      BY <1>2, <2>1, <2>2, <3>2, FinishStays DEF ForBodyDone, Moves
    <3>3. CASE ~shouldReturn /\ Top.count # ThePart.cmd.n
      <4>1. /\ stack' = Append(WithTop([Top EXCEPT !.count = Top.count + 1]),
                               NewFrame(ThePart.cmd.body, exitTrap))
            /\ lastExit' = lastExit
        BY <1>2, <3>3, Zenon DEF ForBodyDone
      <4>2. /\ [Top EXCEPT !.count = Top.count + 1]
                 = InRound("for", Top.count + 1, Top.rc)
            /\ Top.rc \in Int
        BY <2>2, <2>3, SameRound, Zenon, "for" \in {"for", "source"}
      <4>3. stack' = Append(WithTop(InRound("for", Top.count + 1, Top.rc)),
                            NewFrame(ThePart.cmd.body, exitTrap))
        BY <4>1, <4>2, Zenon
      <4>4. PushM BY <2>1, <2>2, <2>3, <4>2, <4>3, LoopPushes
      <4>5. QED BY <4>1, <4>4 DEF Moves, TInv, RestOK
    <3>4. QED BY <3>1, <3>2, <3>3
  <2>5. RestOK' BY <1>2, <2>4 DEF ForBodyDone, globals, TInv, RestOK
  <2>6. QED BY <2>4, <2>5
<1>3. QED BY <1>1, <1>2

\* source: the lines of a file, one after the other.
LEMMA SourceSteps ==
    ASSUME TInv, TrapInv, StartSource \/ SourceLineDone
    PROVE  Moves /\ RestOK'
<1>1. CASE StartSource
  <2>1. AtPart("source") /\ exitTrap' = exitTrap
    BY <1>1 DEF StartSource, globals
  <2>2. stack # <<>> /\ HasPart /\ Top.phase = "next" /\ ThePart.cmd \in Cmd
        /\ ThePart.cmd.k = "source"
    BY <2>1, AtPartFacts
  <2>3. ThePart.cmd.lines \in Seq(Lines) BY <2>2, CmdFields
  <2>4. Moves /\ lastExit' \in Int
    <3>1. CASE ThePart.cmd.lines = <<>>
      BY <1>1, <2>1, <2>2, <3>1, FinishStays DEF StartSource, Moves
    <3>2. CASE ThePart.cmd.lines # <<>>
      <4>1. /\ stack' = Append(WithTop([Top EXCEPT !.phase = "source", !.count = 1]),
                               NewFrame(ThePart.cmd.lines[1], exitTrap))
            /\ lastExit' = lastExit
        BY <1>1, <3>2, Zenon DEF StartSource
      <4>2. /\ [Top EXCEPT !.phase = "source", !.count = 1]
                 = InRound("source", 1, Top.rc)
            /\ Top.rc \in Int
        BY <2>2, SameRound, Zenon, "source" \in {"for", "source"}, 1 \in Nat
      <4>3. stack' = Append(WithTop(InRound("source", 1, Top.rc)),
                            NewFrame(ThePart.cmd.lines[1], exitTrap))
        BY <4>1, <4>2, Zenon
      <4>4. 1 \in 1..Len(ThePart.cmd.lines)
        BY <2>3, <3>2, LastFrontFacts
      <4>5. ThePart.cmd.lines[1] \in Lines BY <2>3, <4>4, ElementOfSeq
      <4>6. PushM BY <2>1, <2>2, <4>2, <4>3, <4>4, <4>5, LoopPushes
      <4>7. QED BY <4>1, <4>6 DEF Moves, TInv, RestOK
    <3>3. QED BY <3>1, <3>2
  <2>5. RestOK' BY <1>1, <2>4 DEF StartSource, globals, TInv, RestOK
  <2>6. QED BY <2>4, <2>5
<1>2. CASE SourceLineDone
  <2>1. Waiting("source") /\ exitTrap' = exitTrap
    BY <1>2 DEF SourceLineDone, globals
  <2>2. stack # <<>> /\ HasPart /\ Top.phase = "source" /\ ThePart.cmd \in Cmd
        /\ ThePart.cmd.k = "source" /\ Top.count \in 1..Len(ThePart.cmd.lines)
    BY <2>1, WaitingFacts DEF AwayFromParts, Fits
  <2>3. ThePart.cmd.lines \in Seq(Lines) /\ Top.count + 1 \in Nat /\ ret \in Int
    BY <2>2, CmdFields, TopNumbers DEF TInv, RestOK
  <2>4. Moves /\ lastExit' \in Int
    <3>1. CASE Top.count = Len(ThePart.cmd.lines)
      BY <1>2, <2>1, <2>2, <2>3, <3>1, FinishStays DEF SourceLineDone, Moves
    <3>2. CASE Top.count # Len(ThePart.cmd.lines)
      <4>1. /\ stack' = Append(WithTop([Top EXCEPT !.count = Top.count + 1]),
                               NewFrame(ThePart.cmd.lines[Top.count + 1], exitTrap))
            /\ lastExit' = lastExit
        BY <1>2, <3>2, Zenon DEF SourceLineDone
      <4>2. /\ [Top EXCEPT !.count = Top.count + 1]
                 = InRound("source", Top.count + 1, Top.rc)
            /\ Top.rc \in Int
        BY <2>2, <2>3, SameRound, Zenon, "source" \in {"for", "source"}
      <4>3. stack' = Append(WithTop(InRound("source", Top.count + 1, Top.rc)),
                            NewFrame(ThePart.cmd.lines[Top.count + 1], exitTrap))
        BY <4>1, <4>2, Zenon
      <4>4. Top.count + 1 \in 1..Len(ThePart.cmd.lines)
        BY <2>2, <2>3, <3>2
      <4>5. ThePart.cmd.lines[Top.count + 1] \in Lines
        BY <2>3, <4>4, ElementOfSeq
      <4>6. PushM
        BY <2>1, <2>2, <2>3, <4>2, <4>3, <4>4, <4>5, LoopPushes
      <4>7. QED BY <4>1, <4>6 DEF Moves, TInv, RestOK
    <3>3. QED BY <3>1, <3>2
  <2>5. RestOK' BY <1>2, <2>4 DEF SourceLineDone, globals, TInv, RestOK
  <2>6. QED BY <2>4, <2>5
<1>3. QED BY <1>1, <1>2

\* Calls of functions: one function frame is pushed, one is popped.
LEMMA CallSteps ==
    ASSUME TInv, TrapInv, CallFunction \/ CallDone
    PROVE  Moves /\ RestOK'
<1> DEFINE FF == [requested : BOOLEAN, code : Int]
<1>1. CASE CallFunction
  <2>1. AtPart("call") /\ exitTrap' = exitTrap BY <1>1 DEF CallFunction
  <2>2. stack # <<>> /\ HasPart /\ Top.phase = "next" /\ ThePart.cmd \in Cmd
        /\ ThePart.cmd.k = "call"
    BY <2>1, AtPartFacts
  <2>3. ThePart.cmd.f \in Funs BY <2>2, CmdFields
  <2>4. funs[ThePart.cmd.f] \in Lines \cup {None}
    BY <2>3 DEF TInv, RestOK
  <2>5. "call" \in Phases \ {"trap", "for", "source"} BY DEF Phases
  <2>6. Moves /\ lastExit' \in Int /\ frames' \in Seq(FF)
    <3>1. CASE funs[ThePart.cmd.f] # None
      <4>1. /\ Enter("call", funs[ThePart.cmd.f]) /\ lastExit' = lastExit
            /\ frames' = Append(frames, [requested |-> FALSE, code |-> 0])
        BY <1>1, <3>1 DEF CallFunction
      <4>2. PushM BY <2>1, <2>2, <2>4, <2>5, <3>1, <4>1, EnterPushes
      <4>3. [requested |-> FALSE, code |-> 0] \in FF OBVIOUS
      <4>4. frames' \in Seq(FF)
        BY <4>1, <4>3, AppendFacts DEF TInv, RestOK
      <4>5. QED BY <4>1, <4>2, <4>4 DEF Moves, TInv, RestOK
    <3>2. CASE funs[ThePart.cmd.f] = None
      <4>1. Finish(127) /\ frames' = frames
        BY <1>1, <3>2 DEF CallFunction
      <4>2. Stay /\ lastExit' \in Int BY <2>1, <2>2, <4>1, FinishStays
      <4>3. QED BY <4>1, <4>2 DEF Moves, TInv, RestOK
    <3>3. QED BY <3>1, <3>2
  <2>7. RestOK' BY <1>1, <2>6 DEF CallFunction, TInv, RestOK
  <2>8. QED BY <2>6, <2>7
<1>2. CASE CallDone
  <2> DEFINE r == IF shouldReturn THEN getReturnCode ELSE ret
  <2>1. Waiting("call") /\ Finish(r) /\ exitTrap' = exitTrap /\ frames' = Front(frames)
    BY <1>2 DEF CallDone
  <2>2. r \in Int BY ReturnCodeType DEF TInv, RestOK
  <2>3. stack # <<>> /\ HasPart /\ Top.phase = "call"
        /\ ThePart.cmd.k # "trap_exit"
    BY <2>1, WaitingFacts DEF AwayFromParts, Fits
  <2> HIDE DEF r
  <2>4. Stay /\ lastExit' \in Int BY <2>1, <2>2, <2>3, FinishStays
  <2>5. frames' \in Seq(FF) BY <2>1, FrontType DEF TInv, RestOK
  <2>6. RestOK' BY <1>2, <2>4, <2>5 DEF CallDone, TInv, RestOK
  <2>7. QED BY <2>4, <2>6 DEF Moves
<1>3. QED BY <1>1, <1>2

\* The top frame changed, the trap not.
LEMMA FrameStays ==
    ASSUME TInv, TrapInv, stack # <<>>, Top.phase # "trap",
           NEW g \in GoodFrames, g.saved = Top.saved, g.mine = Top.mine,
           g.phase # "trap", stack' = WithTop(g), exitTrap' = exitTrap
    PROVE  Stay
<1>1. exitTrap' = InForce(g) BY TrapOfTop DEF InForce
<1>2. QED BY <1>1 DEF Stay

\* The top frame goes to a phase of the same part.
LEMMA PhaseStays ==
    ASSUME TInv, TrapInv, stack # <<>>, HasPart, Top.phase # "trap",
           NEW p \in Phases,
           p \notin {"line", "branch", "call", "cond", "wcond", "wbody", "for",
                    "source", "trap"},
           stack' = WithTop([Top EXCEPT !.phase = p]), exitTrap' = exitTrap
    PROVE  Stay
<1> DEFINE g == [Top EXCEPT !.phase = p]
<1>1. g \in GoodFrames /\ g.saved = Top.saved /\ g.mine = Top.mine /\ g.phase = p
  BY PhaseFrame
<1>2. stack' = WithTop(g) OBVIOUS
<1> HIDE DEF g
<1>3. QED BY <1>1, <1>2, FrameStays

\* A call about to return.
LEMMA LeaveStays ==
    ASSUME TInv, TrapInv, stack # <<>>, Top.phase # "trap", NEW rc \in Int,
           stack' = WithTop([Top EXCEPT !.rc = rc, !.phase = "leave"]),
           exitTrap' = exitTrap
    PROVE  Stay
<1> DEFINE g == [Top EXCEPT !.rc = rc, !.phase = "leave"]
<1>1. Top \in Frame /\ Fits(Top) BY TopFacts
<1>2. g \in Frame /\ g.saved = Top.saved /\ g.mine = Top.mine /\ g.phase = "leave"
      /\ g.j = Top.j
  BY <1>1 DEF Frame, Phases
<1>3. stack' = WithTop(g) OBVIOUS
<1> HIDE DEF g
<1>4. g \in GoodFrames BY <1>1, <1>2 DEF GoodFrames, Fits, AwayFromParts
<1>5. QED BY <1>2, <1>3, <1>4, FrameStays

\* The ERR trap, before and after, and parts that are skipped.
LEMMA ErrSteps ==
    ASSUME TInv, TrapInv, SkipPart \/ NoErrTrap \/ ErrTrapDone \/ RunErrTrap,
           ProgramAssumption
    PROVE  Moves /\ RestOK'
<1>1. CASE SkipPart
  <2>1. Waiting("next") /\ HasPart /\ exitTrap' = exitTrap
        /\ stack' = WithTop([Top EXCEPT !.phase = "skipped"])
    BY <1>1, Zenon DEF SkipPart, globals
  <2>2. stack # <<>> /\ HasPart /\ Top.phase = "next" /\ "skipped" \in Phases
    BY <2>1 DEF Waiting, Phases
  <2>3. Stay BY <2>1, <2>2, PhaseStays
  <2>4. RestOK' BY <1>1 DEF SkipPart, globals, TInv, RestOK
  <2>5. QED BY <2>3, <2>4 DEF Moves
<1>2. CASE NoErrTrap
  <2>1. Waiting("done") /\ exitTrap' = exitTrap
        /\ stack' = WithTop([Top EXCEPT !.phase = "checked"])
    BY <1>2, Zenon DEF NoErrTrap, globals
  <2>2. stack # <<>> /\ HasPart /\ Top.phase = "done"
    BY <2>1, WaitingFacts DEF AwayFromParts
  <2>3. "checked" \in Phases BY DEF Phases
  <2>4. Stay BY <2>1, <2>2, <2>3, PhaseStays
  <2>5. RestOK' BY <1>2 DEF NoErrTrap, globals, TInv, RestOK
  <2>6. QED BY <2>4, <2>5 DEF Moves
<1>3. CASE ErrTrapDone
  <2>1. Waiting("err") /\ exitTrap' = exitTrap
        /\ stack' = WithTop([Top EXCEPT !.phase = "checked"])
    BY <1>3, Zenon DEF ErrTrapDone, globals
  <2>2. stack # <<>> /\ HasPart /\ Top.phase = "err"
    BY <2>1, WaitingFacts DEF AwayFromParts
  <2>3. "checked" \in Phases BY DEF Phases
  <2>4. Stay BY <2>1, <2>2, <2>3, PhaseStays
  <2>5. RestOK' BY <1>3 DEF ErrTrapDone, globals, TInv, RestOK
  <2>6. QED BY <2>4, <2>5 DEF Moves
<1>4. CASE RunErrTrap
  <2>1. Waiting("done") /\ exitTrap' = exitTrap /\ Enter("err", errTrap)
        /\ errTrap # None /\ inErr' = TRUE
    BY <1>4 DEF RunErrTrap, ErrTrapDue
  <2>2. stack # <<>> /\ HasPart /\ Top.phase = "done"
    BY <2>1, WaitingFacts DEF AwayFromParts
  <2>3. errTrap \in Lines /\ "err" \in Phases \ {"trap", "for", "source"}
    BY <2>1 DEF Phases, TInv, RestOK
  <2>4. PushM BY <2>1, <2>2, <2>3, EnterPushes
  <2>5. RestOK' BY <1>4, <2>1 DEF RunErrTrap, TInv, RestOK
  <2>6. QED BY <2>4, <2>5 DEF Moves
<1>5. QED BY <1>1, <1>2, <1>3, <1>4

\* The next part, or the end of the line in one of three ways.
LEMMA AfterSteps ==
    ASSUME TInv, TrapInv, Errexit \/ NextPart \/ ReturnFromLine \/ EndOfLine
    PROVE  Moves /\ RestOK'
<1>1. CASE Errexit
  <2>1. stack # <<>> /\ Top.phase = "checked" /\ exitTrap' = exitTrap
    BY <1>1 DEF Errexit, Waiting, globals
  <2>2. Top.rc \in Int BY <2>1, TopNumbers
  <2>3. /\ stack' = WithTop([Top EXCEPT !.rc = Top.rc, !.phase = "leave"])
        /\ lastExit' = Top.rc
    BY <1>1, Zenon DEF Errexit, Leave
  <2>4. Stay BY <2>1, <2>2, <2>3, LeaveStays
  <2>5. RestOK' BY <1>1, <2>2, <2>3 DEF Errexit, globals, TInv, RestOK
  <2>6. QED BY <2>4, <2>5 DEF Moves
<1>2. CASE NextPart
  <2> DEFINE g == [Top EXCEPT !.j = @ + 1, !.op = ThePart.op, !.phase = "next"]
  <2>1. AfterPart /\ exitTrap' = exitTrap /\ stack' = WithTop(g)
    BY <1>2, Zenon DEF NextPart, globals
  <2>2. stack # <<>> /\ Top.phase \in {"checked", "skipped"}
    BY <2>1 DEF AfterPart, Waiting
  <2>3. Top \in Frame /\ Fits(Top) /\ ThePart \in Part
    BY <2>2, TopFacts DEF AwayFromParts
  <2>4. Top.j + 1 \in Nat \ {0} BY <2>3 DEF Fits
  <2>5. ThePart.op \in {";", "a", "o", ""} BY <2>3 DEF Part
  <2>6. g \in Frame
    <3>1. \A n \in Nat, o \in {";", "a", "o", ""} :
             [Top EXCEPT !.j = n, !.op = o, !.phase = "next"] \in Frame
      BY <2>3 DEF Frame, Phases
    <3>2. Top.j + 1 \in Nat BY <2>4
    <3>3. QED BY <2>5, <3>1, <3>2, Zenon
  <2>7. g.saved = Top.saved /\ g.mine = Top.mine /\ g.phase = "next"
        /\ g.j = Top.j + 1
    BY <2>3 DEF Frame
  <2> HIDE DEF g
  <2>8. g \in GoodFrames
    <3>1. g.j \in Nat \ {0} BY <2>4, <2>7, Zenon
    <3>2. QED BY <2>6, <2>7, <3>1 DEF GoodFrames, Fits, AwayFromParts
  <2>9. Stay BY <2>1, <2>2, <2>7, <2>8, FrameStays
  <2>10. RestOK' BY <1>2 DEF NextPart, globals, TInv, RestOK
  <2>11. QED BY <2>9, <2>10 DEF Moves
<1>3. CASE ReturnFromLine
  <2>1. stack # <<>> /\ Top.phase \in {"checked", "skipped"} /\ exitTrap' = exitTrap
    BY <1>3 DEF ReturnFromLine, AfterPart, Waiting, globals
  <2>2. getReturnCode \in Int BY ReturnCodeType
  <2>3. /\ stack' = WithTop([Top EXCEPT !.rc = getReturnCode, !.phase = "leave"])
        /\ lastExit' = getReturnCode
    BY <1>3, Zenon DEF ReturnFromLine, Leave
  <2>4. Stay BY <2>1, <2>2, <2>3, LeaveStays
  <2>5. RestOK'
    BY <1>3, <2>2, <2>3 DEF ReturnFromLine, globals, TInv, RestOK
  <2>6. QED BY <2>4, <2>5 DEF Moves
<1>4. CASE EndOfLine
  <2>1. stack # <<>> /\ Top.phase = "next" /\ exitTrap' = exitTrap
    BY <1>4 DEF EndOfLine, Waiting, globals
  <2>2. Top.rc \in Int BY <2>1, TopNumbers
  <2>3. Stay /\ lastExit' \in Int
    <3>1. CASE Leave(Top.rc)
      <4>1. /\ stack' = WithTop([Top EXCEPT !.rc = Top.rc, !.phase = "leave"])
            /\ lastExit' = Top.rc
        BY <3>1, Zenon DEF Leave
      <4>2. QED BY <2>1, <2>2, <4>1, LeaveStays
    <3>2. CASE UNCHANGED lastExit /\ stack' = WithTop([Top EXCEPT !.phase = "leave"])
      <4> DEFINE g == [Top EXCEPT !.phase = "leave"]
      <4>1. Top \in Frame /\ Fits(Top) BY <2>1, TopFacts
      <4>2. g \in Frame /\ g.saved = Top.saved /\ g.mine = Top.mine
            /\ g.phase = "leave" /\ g.j = Top.j
        BY <4>1 DEF Frame, Phases
      <4>3. stack' = WithTop(g) BY <3>2
      <4> HIDE DEF g
      <4>4. g \in GoodFrames
        BY <4>1, <4>2 DEF GoodFrames, Fits, AwayFromParts
      <4>5. QED BY <2>1, <3>2, <4>2, <4>3, <4>4, FrameStays DEF TInv, RestOK
    <3>3. QED BY <1>4, <3>1, <3>2, Zenon DEF EndOfLine
  <2>4. RestOK' BY <1>4, <2>3 DEF EndOfLine, globals, TInv, RestOK
  <2>5. QED BY <2>3, <2>4 DEF Moves
<1>5. QED BY <1>1, <1>2, <1>3, <1>4

\* ExitTrapScope's destructor: the trap runs as a call of its own, and the
\* saved one comes back.
LEMMA ScopeSteps ==
    ASSUME TInv, TrapInv, RunExitTrap \/ Pop, ProgramAssumption
    PROVE  Moves /\ RestOK'
<1>1. CASE RunExitTrap
  <2> DEFINE g == [Top EXCEPT !.phase = "trap"]
             h == NewFrame(exitTrap, None)
  <2>1. stack # <<>> /\ Top.phase = "leave" /\ exitTrap # None /\ exitTrap' = None
    BY <1>1 DEF RunExitTrap, Waiting, ExitTrapDue
  <2>2. stack' = Append(WithTop(g), h) BY <1>1, Zenon DEF RunExitTrap
  <2>3. exitTrap \in Lines BY <2>1 DEF TInv, RestOK
  <2>4. Top \in Frame /\ Fits(Top) BY <2>1, TopFacts
  <2>5. g \in Frame /\ g.saved = Top.saved /\ g.phase = "trap" /\ g.j = Top.j
    BY <2>4 DEF Frame, Phases
  <2>6. h \in GoodFrames /\ h.saved = None /\ InForce(h) = None
    BY <2>3, NewFrameGood
  <2> HIDE DEF g, h
  <2>7. g \in GoodFrames /\ InForce(g) = None
    BY <2>4, <2>5 DEF GoodFrames, Fits, AwayFromParts, InForce
  <2>8. PushM BY <2>1, <2>2, <2>5, <2>6, <2>7 DEF PushM
  <2>9. RestOK' BY <1>1, <2>1 DEF RunExitTrap, TInv, RestOK
  <2>10. QED BY <2>8, <2>9 DEF Moves
<1>2. CASE Pop
  <2>1. stack # <<>> /\ stack' = Front(stack) /\ exitTrap' = Top.saved /\ ret' = Top.rc
    BY <1>2 DEF Pop, Waiting, Restored
  <2>2. Top.saved \in Lines \cup {None} /\ Top.rc \in Int
    BY <2>1, TopFacts DEF Frame
  <2>3. RestOK' BY <1>2, <2>1, <2>2 DEF Pop, TInv, RestOK
  <2>4. QED BY <2>1, <2>3 DEF Moves, PopM
<1>3. QED BY <1>1, <1>2

(***************************************************************************)
(* The three moves keep the links between calls.                           *)
(***************************************************************************)
\* A new last frame with the old one's saved trap.
LEMMA LinkedSet ==
    ASSUME NEW S, NEW s \in Seq(S), s # <<>>, Linked(s),
           NEW g \in S, g.saved = Last(s).saved
    PROVE  Linked([s EXCEPT ![Len(s)] = g])
<1> DEFINE t == [s EXCEPT ![Len(s)] = g]
<1>1. Len(s) \in Nat \ {0} /\ Last(s) = s[Len(s)] BY LastFrontFacts
<1>2. Len(t) = Len(s) /\ t[Len(s)] = g /\ \A i \in 1..Len(s) - 1 : t[i] = s[i]
  BY SetLastFacts
<1> HIDE DEF t
<1>3. ASSUME NEW i \in 1..Len(t) - 1 PROVE t[i + 1].saved = InForce(t[i])
  <2>1. i \in 1..Len(s) - 1 /\ t[i] = s[i] /\ s[i + 1].saved = InForce(s[i])
    BY <1>2 DEF Linked
  <2>2. CASE i + 1 = Len(s) BY <1>1, <1>2, <2>1, <2>2
  <2>3. CASE i + 1 # Len(s)
    <3>1. i + 1 \in 1..Len(s) - 1 BY <1>1, <2>1, <2>3
    <3>2. QED BY <1>2, <2>1, <3>1
  <2>4. QED BY <2>2, <2>3
<1>4. QED BY <1>3 DEF Linked, t

\* One frame more, which saved what the last one has in force.
LEMMA LinkedAppend ==
    ASSUME NEW S, NEW s \in Seq(S), s # <<>>, Linked(s),
           NEW h \in S, h.saved = InForce(Last(s))
    PROVE  Linked(Append(s, h))
<1> DEFINE t == Append(s, h)
<1>1. Len(s) \in Nat \ {0} /\ Last(s) = s[Len(s)] BY LastFrontFacts
<1>2. /\ Len(t) = Len(s) + 1 /\ t[Len(s) + 1] = h
      /\ \A i \in 1..Len(s) : t[i] = s[i]
  BY AppendFacts
<1> HIDE DEF t
<1>3. ASSUME NEW i \in 1..Len(t) - 1 PROVE t[i + 1].saved = InForce(t[i])
  <2>1. i \in 1..Len(s) /\ t[i] = s[i] BY <1>1, <1>2
  <2>2. CASE i = Len(s) BY <1>1, <1>2, <2>1, <2>2
  <2>3. CASE i # Len(s)
    <3>1. i \in 1..Len(s) - 1 /\ i + 1 \in 1..Len(s) BY <1>1, <2>1, <2>3
    <3>2. QED BY <1>2, <2>1, <3>1 DEF Linked
  <2>4. QED BY <2>2, <2>3
<1>4. QED BY <1>3 DEF Linked, t

\* Without the last frame; what it saved is in force below it.
LEMMA LinkedFront ==
    ASSUME NEW S, NEW s \in Seq(S), s # <<>>, Linked(s)
    PROVE  /\ Linked(Front(s))
           /\ Front(s) # <<>> => Last(s).saved = InForce(Last(Front(s)))
<1> DEFINE t == Front(s)
<1>1. /\ Len(s) \in Nat \ {0} /\ Last(s) = s[Len(s)] /\ t \in Seq(S)
      /\ Len(t) = Len(s) - 1 /\ \A i \in 1..Len(s) - 1 : t[i] = s[i]
  BY LastFrontFacts
<1> HIDE DEF t
<1>2. ASSUME NEW i \in 1..Len(t) - 1 PROVE t[i + 1].saved = InForce(t[i])
  <2>1. i \in 1..Len(s) - 1 /\ i + 1 \in 1..Len(s) - 1 BY <1>1
  <2>2. QED BY <1>1, <2>1 DEF Linked
<1>3. ASSUME t # <<>> PROVE Last(s).saved = InForce(Last(t))
  <2>1. Len(t) \in Nat \ {0} /\ Last(t) = t[Len(t)]
    BY <1>1, <1>3, LastFrontFacts
  <2>2. Len(t) \in 1..Len(s) - 1 /\ Len(t) + 1 = Len(s) /\ t[Len(t)] = s[Len(t)]
    BY <1>1, <2>1
  <2>3. s[Len(t) + 1].saved = InForce(s[Len(t)]) BY <2>2 DEF Linked
  <2>4. QED BY <1>1, <2>1, <2>2, <2>3
<1>4. QED BY <1>2, <1>3 DEF Linked, t

\* Every move keeps both parts of the invariant that are about the stack.
LEMMA MovesKeep ==
    ASSUME TInv, TrapInv, Moves
    PROVE  /\ stack' \in Seq(GoodFrames)
           /\ Linked(stack')
           /\ stack' # <<>> => exitTrap' = InForce(Last(stack'))
<1>1. stack \in Seq(GoodFrames) /\ Linked(stack) BY DEF TInv, TrapInv
<1>2. CASE Stay
  <2>1. PICK g \in GoodFrames :
           /\ stack' = WithTop(g) /\ g.saved = Top.saved /\ exitTrap' = InForce(g)
    BY <1>2 DEF Stay
  <2> DEFINE t == [stack EXCEPT ![Len(stack)] = g]
  <2>2. stack # <<>> /\ g.saved = Last(stack).saved /\ stack' = t
    BY <1>2, <2>1 DEF Stay, Top, WithTop
  <2>3. t \in Seq(GoodFrames) /\ Last(t) = g
    <3>1. stack # <<>> BY <2>2
    <3>2. QED BY <1>1, <3>1, SetLastFacts
  <2>4. Linked(t) BY <1>1, <2>2, LinkedSet
  <2> HIDE DEF t
  <2>5. QED BY <2>1, <2>2, <2>3, <2>4
<1>3. CASE PushM
  <2>1. PICK g \in GoodFrames, h \in GoodFrames :
           /\ stack' = Append(WithTop(g), h) /\ g.saved = Top.saved
           /\ h.saved = InForce(g) /\ exitTrap' = InForce(h)
    BY <1>3 DEF PushM
  <2> DEFINE t == [stack EXCEPT ![Len(stack)] = g]
  <2>2. stack # <<>> /\ g.saved = Last(stack).saved /\ stack' = Append(t, h)
    BY <1>3, <2>1 DEF PushM, Top, WithTop
  <2>3. t \in Seq(GoodFrames) /\ Last(t) = g /\ t # <<>>
    BY <1>1, <2>2, SetLastFacts
  <2>4. Linked(t) BY <1>1, <2>2, LinkedSet
  <2> HIDE DEF t
  <2>5. Linked(stack') BY <2>1, <2>2, <2>3, <2>4, LinkedAppend
  <2>6. /\ stack' \in Seq(GoodFrames) /\ Len(stack') = Len(t) + 1
        /\ stack'[Len(t) + 1] = h
    BY <2>2, <2>3, AppendFacts
  <2>7. Last(stack') = h BY <2>6 DEF Last
  <2>8. QED BY <2>1, <2>5, <2>6, <2>7
<1>4. CASE PopM
  <2>1. stack # <<>> /\ stack' = Front(stack) /\ exitTrap' = Last(stack).saved
    BY <1>4 DEF PopM, Top
  <2>2. stack' \in Seq(GoodFrames) BY <1>1, <2>1, LastFrontFacts
  <2>3. QED BY <1>1, <2>1, <2>2, LinkedFront
<1>5. QED BY <1>2, <1>3, <1>4 DEF Moves

(***************************************************************************)
(* The invariant.                                                          *)
(***************************************************************************)
IInv == TInv /\ TrapInv

\* It holds when the shell is given its line.
LEMMA InitInv == ASSUME ProgramAssumption, Init PROVE IInv
<1> DEFINE f == NewFrame(Main, None)
<1>1. f \in GoodFrames /\ f.saved = None /\ InForce(f) = None
  BY NewFrameGood DEF ProgramAssumption
<1>2. stack = <<f>> BY DEF Init
<1> HIDE DEF f
<1>3. stack \in Seq(GoodFrames) /\ Len(stack) = 1 /\ Last(stack) = f
  BY <1>1, <1>2 DEF Last
<1>4. TrapInv BY <1>1, <1>3 DEF TrapInv, Linked, Top, Init
<1>5. RestOK
  <2>1. prog \in [Lines -> Seq(Part)] BY DEF Init, ProgramAssumption
  <2>2. frames \in Seq([requested : BOOLEAN, code : Int]) BY DEF Init
  <2>3. inErr \in BOOLEAN /\ setE \in BOOLEAN BY DEF Init
  <2>4. QED BY <2>1, <2>2, <2>3 DEF Init, RestOK
<1>6. QED BY <1>3, <1>4, <1>5 DEF IInv, TInv

\* Every step of the shell keeps it.
LEMMA StepInv == ASSUME ProgramAssumption, IInv, [Next]_vars PROVE IInv'
<1>1. CASE Shell
  <2>1. Moves /\ RestOK'
    <3>1. TInv /\ TrapInv BY DEF IInv
    <3>2. QED
      BY <1>1, <3>1, SimpleSteps, LineSteps, BranchSteps, WhileSteps, ForSteps,
         SourceSteps, CallSteps, ErrSteps, AfterSteps, ScopeSteps, Zenon DEF Shell
  <2>2. prog' = prog
    BY <1>1 DEF Shell, SkipPart, EmptyPart, RunCommand, ExtendedTest, ExitBuiltin,
       ReturnBuiltin, SetErrexit, TrapExit, TrapErr, DefineFunction, StartSubshell,
       StartGroup, StartBash, LineDone, BranchDone, StartIf, IfCondDone, StartCase,
       StartWhile, WhileCondDone, WhileBodyDone, StartFor, ForBodyDone, StartSource,
       SourceLineDone, CallFunction, CallDone, RunErrTrap, ErrTrapDone, NoErrTrap,
       Errexit, NextPart, ReturnFromLine, EndOfLine, RunExitTrap, Pop
  <2>3. /\ stack' \in Seq(GoodFrames)
        /\ Linked(stack')
        /\ stack' # <<>> => exitTrap' = InForce(Last(stack'))
    BY <2>1, MovesKeep DEF IInv
  <2>4. GoodFrames' = GoodFrames BY <2>2 DEF GoodFrames, Fits, CmdOf
  <2>5. TInv' BY <2>1, <2>3, <2>4 DEF TInv
  <2>6. TrapInv' BY <2>3 DEF TrapInv, Linked, InForce, Top
  <2>7. QED BY <2>5, <2>6 DEF IInv
<1>2. CASE UNCHANGED vars
  <2>1. RestOK' BY <1>2 DEF vars, IInv, TInv, RestOK
  <2>2. GoodFrames' = GoodFrames /\ stack' = stack /\ exitTrap' = exitTrap
    BY <1>2 DEF GoodFrames, Fits, CmdOf, vars
  <2>3. TInv' BY <2>1, <2>2 DEF TInv, IInv
  <2>4. TrapInv' BY <2>2 DEF IInv, TrapInv, Linked, InForce, Top
  <2>5. QED BY <2>3, <2>4 DEF IInv
<1>3. QED BY <1>1, <1>2 DEF Next, Terminated

\* For every program of every size: executeShellLine never reads a part past
\* the end of its line, comes back to the part it left, and the globals keep
\* their types.
THEOREM TypeCorrect == Spec => []TypeOK
<1>1. Init => IInv BY InitInv, ProgramAssumption
<1>2. IInv /\ [Next]_vars => IInv' BY StepInv, ProgramAssumption
<1>3. IInv => TypeOK
  <2>1. ASSUME IInv PROVE stack \in Seq(Frame)
    <3>1. stack \in Seq(GoodFrames) /\ GoodFrames \subseteq Frame
      BY <2>1 DEF IInv, TInv, GoodFrames
    <3>2. QED BY <3>1
  <2>2. QED BY <2>1 DEF IInv, TInv, RestOK, TypeOK
<1>4. QED BY <1>1, <1>2, <1>3, PTL DEF Spec

\* For every program: the EXIT trap in force is the one the running call of
\* executeShellLine set itself or found when it began; no condition, loop
\* body, function, subshell or trap line leaves another one behind.
THEOREM TrapsAreLexical == Spec => []TrapIsLexical
<1>1. Init => IInv BY InitInv, ProgramAssumption
<1>2. IInv /\ [Next]_vars => IInv' BY StepInv, ProgramAssumption
<1>3. IInv => TrapIsLexical BY DEF IInv, TrapInv, TrapIsLexical, InForce
<1>4. QED BY <1>1, <1>2, <1>3, PTL DEF Spec

(***************************************************************************)
(* The phases a step takes the top frame through.  For the counts of calls *)
(* and for what a return does, a step is one of: the top frame goes to     *)
(* another phase, it calls a line, or it is over.                          *)
(***************************************************************************)
Goes(p) ==
    /\ stack # <<>>
    /\ \E g : /\ stack' = WithTop(g)
              /\ g.phase = p /\ g.line = Top.line /\ g.saved = Top.saved

Calls(p, l) ==
    /\ stack # <<>>
    /\ \E g, h : /\ stack' = Append(WithTop(g), h)
                 /\ g.phase = p /\ g.line = Top.line /\ g.saved = Top.saved
                 /\ h.phase = "next" /\ h.line = l /\ h.saved \in {exitTrap, None}

Ends == stack # <<>> /\ stack' = Front(stack)

\* The frames below the top one.
Lower(s) == \A i \in 1..Len(stack) - 1 : s[i] = stack[i]

LEMMA GoesFacts ==
    ASSUME TInv, NEW p, Goes(p)
    PROVE  /\ Len(stack) \in Nat \ {0} /\ Top = stack[Len(stack)]
           /\ Len(stack') = Len(stack) /\ Lower(stack')
           /\ stack'[Len(stack)].phase = p
           /\ stack'[Len(stack)].line = Top.line
           /\ stack'[Len(stack)].saved = Top.saved
           /\ DOMAIN stack = 1..Len(stack) /\ DOMAIN stack' = 1..Len(stack)
<1>1. stack \in Seq(GoodFrames) /\ stack # <<>> BY DEF TInv, Goes
<1>2. PICK g : stack' = WithTop(g) /\ g.phase = p /\ g.line = Top.line /\ g.saved = Top.saved
  BY DEF Goes
<1> DEFINE S == GoodFrames \cup {g}
<1>3. stack \in Seq(S) /\ g \in S BY <1>1
<1> HIDE DEF S
<1> DEFINE t == [stack EXCEPT ![Len(stack)] = g]
<1>4. t \in Seq(S) /\ Len(t) = Len(stack) /\ t[Len(stack)] = g
      /\ \A i \in 1..Len(stack) - 1 : t[i] = stack[i]
  BY <1>1, <1>3, SetLastFacts
<1>5. stack' = t BY <1>2 DEF WithTop
<1> HIDE DEF t
<1>6. Len(stack) \in Nat \ {0} /\ Top = stack[Len(stack)]
  BY <1>1, LastFrontFacts DEF Top
<1>7. DOMAIN stack = 1..Len(stack) /\ DOMAIN t = 1..Len(t) BY <1>1, <1>4
<1> QED BY <1>2, <1>4, <1>5, <1>6, <1>7 DEF Lower

LEMMA CallsFacts ==
    ASSUME TInv, NEW p, NEW l, Calls(p, l)
    PROVE  /\ Len(stack) \in Nat \ {0} /\ Top = stack[Len(stack)]
           /\ Len(stack') = Len(stack) + 1 /\ Lower(stack')
           /\ stack'[Len(stack)].phase = p
           /\ stack'[Len(stack)].line = Top.line
           /\ stack'[Len(stack)].saved = Top.saved
           /\ stack'[Len(stack) + 1].phase = "next"
           /\ stack'[Len(stack) + 1].line = l
           /\ stack'[Len(stack) + 1].saved \in {exitTrap, None}
           /\ DOMAIN stack = 1..Len(stack) /\ DOMAIN stack' = 1..Len(stack) + 1
<1>1. stack \in Seq(GoodFrames) /\ stack # <<>> BY DEF TInv, Calls
<1>2. PICK g, h : /\ stack' = Append(WithTop(g), h)
                  /\ g.phase = p /\ g.line = Top.line /\ g.saved = Top.saved
                  /\ h.phase = "next" /\ h.line = l /\ h.saved \in {exitTrap, None}
  BY DEF Calls
<1> DEFINE S == GoodFrames \cup {g, h}
<1>3. stack \in Seq(S) /\ g \in S /\ h \in S BY <1>1
<1> HIDE DEF S
<1> DEFINE t == [stack EXCEPT ![Len(stack)] = g]
<1>4. t \in Seq(S) /\ Len(t) = Len(stack) /\ t[Len(stack)] = g
      /\ \A i \in 1..Len(stack) - 1 : t[i] = stack[i]
  BY <1>1, <1>3, SetLastFacts
<1> DEFINE u == Append(t, h)
<1>5. stack' = u BY <1>2 DEF WithTop
<1> HIDE DEF t
<1>6. /\ Len(u) = Len(t) + 1 /\ DOMAIN u = 1..Len(t) + 1 /\ u[Len(t) + 1] = h
      /\ \A i \in 1..Len(t) : u[i] = t[i]
  BY <1>3, <1>4, AppendFacts
<1> HIDE DEF u
<1>7. Len(stack) \in Nat \ {0} /\ Top = stack[Len(stack)] /\ DOMAIN stack = 1..Len(stack)
  <2>1. Len(stack) \in Nat \ {0} /\ Top = stack[Len(stack)]
    BY <1>1, LastFrontFacts DEF Top
  <2>2. DOMAIN stack = 1..Len(stack) BY <1>1
  <2> QED BY <2>1, <2>2
<1>8. \A i \in 1..Len(stack) - 1 : u[i] = stack[i] BY <1>4, <1>6, <1>7
<1>9. u[Len(stack)] = g /\ u[Len(stack) + 1] = h /\ Len(u) = Len(stack) + 1
      /\ DOMAIN u = 1..Len(stack) + 1
  BY <1>4, <1>6, <1>7
<1> QED BY <1>2, <1>5, <1>7, <1>8, <1>9 DEF Lower

LEMMA EndsFacts ==
    ASSUME TInv, Ends
    PROVE  /\ Len(stack) \in Nat \ {0} /\ Top = stack[Len(stack)]
           /\ Len(stack') = Len(stack) - 1 /\ Lower(stack')
           /\ stack' # <<>> => Len(stack) > 1 /\ Last(stack') = stack[Len(stack) - 1]
           /\ stack' = <<>> => Len(stack) = 1
           /\ DOMAIN stack = 1..Len(stack) /\ DOMAIN stack' = 1..Len(stack) - 1
<1>1. stack \in Seq(GoodFrames) /\ stack # <<>> /\ stack' = Front(stack)
  BY DEF TInv, Ends
<1>2. /\ Len(stack) \in Nat \ {0} /\ Top = stack[Len(stack)]
      /\ stack' \in Seq(GoodFrames) /\ Len(stack') = Len(stack) - 1
      /\ \A i \in 1..Len(stack) - 1 : stack'[i] = stack[i]
  BY <1>1, LastFrontFacts DEF Top
<1>3. DOMAIN stack = 1..Len(stack) /\ DOMAIN stack' = 1..Len(stack')
  BY <1>1, <1>2
<1>4. ASSUME stack' # <<>> PROVE Len(stack) > 1 /\ Last(stack') = stack[Len(stack) - 1]
  <2>1. Len(stack') \in Nat \ {0} /\ Last(stack') = stack'[Len(stack')]
    BY <1>2, <1>4, LastFrontFacts
  <2>2. PICK k : k = Len(stack') OBVIOUS
  <2>3. k \in 1..Len(stack) - 1 /\ Len(stack) > 1 BY <1>2, <2>1, <2>2
  <2>4. stack'[k] = stack[k] BY <1>2, <2>3
  <2> QED BY <1>2, <2>1, <2>2, <2>3, <2>4
<1>5. stack' = <<>> => Len(stack) = 1 BY <1>2
<1> QED BY <1>1, <1>2, <1>3, <1>4, <1>5 DEF Lower

(***************************************************************************)
(* What each action does in these terms.                                   *)
(***************************************************************************)
SimpleKinds == {"run", "test", "empty"}
Tests == {"cond", "wcond", "source"}
Same == frames' = frames /\ inErr' = inErr

\* A part ends.
Ending ==
    /\ Top.phase \in {"next", "line", "branch", "cond", "wcond", "wbody", "for", "source"}
    /\ Goes("done") /\ Same

Returning ==
    /\ StartsPart /\ ThePart.cmd.k = "return"
    /\ Goes("done") /\ inErr' = inErr
    /\ frames' = IF frames = <<>> THEN frames
                 ELSE [frames EXCEPT ![Len(frames)] =
                          [requested |-> TRUE, code |-> ThePart.cmd.n]]

\* A part that is a line again starts it.
Nesting ==
    /\ StartsPart /\ ThePart.cmd.k \notin SimpleKinds
    /\ \E p \in {"line", "branch", "cond", "wcond", "for", "source"}, l \in Lines :
          Calls(p, l) /\ (p \in Tests => l \in TestLines)
    /\ Same

Invoking ==
    /\ StartsPart /\ ThePart.cmd.k = "call"
    /\ \E l \in Lines : Calls("call", l)
    /\ frames' = Append(frames, [requested |-> FALSE, code |-> 0]) /\ inErr' = inErr

\* Behind a condition, or between the lines of a file.
Chosen ==
    /\ Top.phase \in Tests
    /\ \E p \in {"branch", "wbody", "source"}, l \in Lines :
          Calls(p, l) /\ (p = "source" => l \in TestLines)
    /\ Same

\* Another round, which is begun only if nobody asked for a return.
Again ==
    /\ Top.phase \in {"wbody", "for"} /\ ~shouldReturn
    /\ \E p \in {"wcond", "for"}, l \in Lines :
          Calls(p, l) /\ (p = "wcond" => l \in TestLines)
    /\ Same

Answered ==
    /\ Top.phase = "call" /\ Goes("done")
    /\ frames' = Front(frames) /\ inErr' = inErr

Trapping ==
    /\ Top.phase = "done" /\ errTrap # None /\ Calls("err", errTrap)
    /\ frames' = frames /\ ~inErr /\ inErr' = TRUE

Trapped ==
    /\ Top.phase = "err" /\ Goes("checked")
    /\ frames' = frames /\ inErr' = FALSE

\* From one part to the next, or out of the line.
Passing ==
    /\ \/ Top.phase = "done" /\ Goes("checked")
       \/ Top.phase \in {"checked", "skipped", "next"} /\ Goes("leave")
       \/ Top.phase \in {"checked", "skipped"} /\ ~shouldReturn /\ Goes("next")
       \/ Top.phase = "next" /\ Goes("skipped")
    /\ Same

Farewell ==
    /\ Top.phase = "leave" /\ exitTrap # None /\ Calls("trap", exitTrap) /\ Same

Popping ==
    /\ Top.phase \in {"leave", "trap"} /\ Ends /\ exitTrap' = Top.saved /\ Same

Deed ==
    \/ Ending \/ Returning \/ Nesting \/ Invoking \/ Chosen \/ Again \/ Answered
    \/ Trapping \/ Trapped \/ Passing \/ Farewell \/ Popping

\* The part ended.
LEMMA FinishGoes ==
    ASSUME TInv, stack # <<>>, NEW rc, Finish(rc)
    PROVE  Goes("done")
<1> DEFINE c == ThePart.cmd
           s == IF ThePart.negate /\ Negatable(c.k)
                THEN (IF rc = 0 THEN 1 ELSE 0) ELSE rc
           m == IF c.k = "trap_exit" THEN c.line ELSE Top.mine
           g == [Top EXCEPT !.rc = s, !.phase = "done", !.mine = m]
<1>1. Top \in Frame BY TopFacts
<1>2. stack' = WithTop(g) BY <1>1 DEF Finish, Frame
<1>3. g.phase = "done" /\ g.line = Top.line /\ g.saved = Top.saved
  BY <1>1 DEF Frame
<1> HIDE DEF g
<1> QED BY <1>2, <1>3 DEF Goes

\* A frame that calls a line, whatever else it notes.
LEMMA FrameCalls ==
    ASSUME stack # <<>>, NEW g, NEW p, NEW l, NEW t \in {exitTrap, None},
           g.phase = p, g.line = Top.line, g.saved = Top.saved,
           stack' = Append(WithTop(g), NewFrame(l, t))
    PROVE  Calls(p, l)
<1> DEFINE h == NewFrame(l, t)
<1>1. h.phase = "next" /\ h.line = l /\ h.saved = t BY DEF NewFrame
<1>2. stack' = Append(WithTop(g), h) OBVIOUS
<1> HIDE DEF h
<1> QED BY <1>1, <1>2 DEF Calls

LEMMA EnterCalls ==
    ASSUME TInv, stack # <<>>, NEW p, NEW l, Enter(p, l)
    PROVE  Calls(p, l)
<1> DEFINE g == [Top EXCEPT !.phase = p]
<1>1. g.phase = p /\ g.line = Top.line /\ g.saved = Top.saved
  BY TopFacts DEF Frame
<1>2. stack' = Append(WithTop(g), NewFrame(l, exitTrap)) BY DEF Enter
<1> HIDE DEF g
<1> QED BY <1>1, <1>2, FrameCalls

\* A loop or a file that begins a line.
LEMMA RoundCalls ==
    ASSUME TInv, stack # <<>>, NEW p, NEW l, NEW k, NEW r,
           stack' = Append(WithTop(InRound(p, k, r)), NewFrame(l, exitTrap))
    PROVE  Calls(p, l)
<1> DEFINE g == InRound(p, k, r)
<1>1. g.phase = p /\ g.line = Top.line /\ g.saved = Top.saved
  BY TopFacts DEF Frame, InRound
<1>2. stack' = Append(WithTop(g), NewFrame(l, exitTrap)) OBVIOUS
<1> HIDE DEF g
<1> QED BY <1>1, <1>2, FrameCalls

\* A part of the program that is a condition's, or a file's, has test lines.
LEMMA TestLinesOf ==
    ASSUME TInv, stack # <<>>, HasPart
    PROVE  /\ ThePart.cmd.k \in {"if", "while"} => ThePart.cmd.cond \in TestLines
           /\ ThePart.cmd.k = "source" =>
                 \A i \in 1..Len(ThePart.cmd.lines) : ThePart.cmd.lines[i] \in TestLines
           /\ ThePart.cmd.k \in {"trap_exit", "trap_err"} =>
                 ThePart.cmd.line \in TrapLines \cup {None}
<1> DEFINE c == ThePart.cmd
<1>1. Top \in Frame /\ Parts \in Seq(Part) /\ c \in Cmd /\ Top.j \in 1..Len(Parts)
  BY TopFacts DEF Fits, HasPart
<1>2. Top.line \in Lines /\ Top.j \in DOMAIN prog[Top.line] /\ c = prog[Top.line][Top.j].cmd
  <2>1. Top.line \in Lines BY <1>1 DEF Frame
  <2>2. DOMAIN Parts = 1..Len(Parts) BY <1>1
  <2> QED BY <1>1, <2>1, <2>2 DEF ThePart, Parts
<1>3. c \in AllCmds BY <1>2 DEF AllCmds
<1> HIDE DEF c
<1>4. c.k = "source" => DOMAIN c.lines = 1..Len(c.lines)
  BY <1>1, CmdFields
<1> QED BY <1>3, <1>4 DEF TestLines, TrapLines, ToSet, c

LEMMA FirstRoundCalls ==
    ASSUME TInv, stack # <<>>, NEW p, NEW l, NEW k,
           stack' = Append(WithTop([Top EXCEPT !.phase = p, !.count = k]), NewFrame(l, exitTrap))
    PROVE  Calls(p, l)
<1> DEFINE g == [Top EXCEPT !.phase = p, !.count = k]
<1>1. g.phase = p /\ g.line = Top.line /\ g.saved = Top.saved
  BY TopFacts DEF Frame
<1>2. stack' = Append(WithTop(g), NewFrame(l, exitTrap)) OBVIOUS
<1> HIDE DEF g
<1> QED BY <1>1, <1>2, FrameCalls

LEMMA NextRoundCalls ==
    ASSUME TInv, stack # <<>>, NEW l, NEW k,
           stack' = Append(WithTop([Top EXCEPT !.count = k]), NewFrame(l, exitTrap))
    PROVE  Calls(Top.phase, l)
<1> DEFINE g == [Top EXCEPT !.count = k]
<1>1. g.phase = Top.phase /\ g.line = Top.line /\ g.saved = Top.saved
  BY TopFacts DEF Frame
<1>2. stack' = Append(WithTop(g), NewFrame(l, exitTrap)) OBVIOUS
<1> HIDE DEF g
<1> QED BY <1>1, <1>2, FrameCalls

\* A phase that is noted on the way to the next part.
LEMMA PhaseGoes ==
    ASSUME TInv, stack # <<>>, NEW p, stack' = WithTop([Top EXCEPT !.phase = p])
    PROVE  Goes(p)
<1> DEFINE g == [Top EXCEPT !.phase = p]
<1>1. g.phase = p /\ g.line = Top.line /\ g.saved = Top.saved
  BY TopFacts DEF Frame
<1>2. stack' = WithTop(g) OBVIOUS
<1> HIDE DEF g
<1> QED BY <1>1, <1>2 DEF Goes

LEMMA LeaveGoes ==
    ASSUME TInv, stack # <<>>, NEW rc, Leave(rc)
    PROVE  Goes("leave")
<1> DEFINE g == [Top EXCEPT !.rc = rc, !.phase = "leave"]
<1>1. g.phase = "leave" /\ g.line = Top.line /\ g.saved = Top.saved
  BY TopFacts DEF Frame
<1>2. stack' = WithTop(g) BY DEF Leave
<1> HIDE DEF g
<1> QED BY <1>1, <1>2 DEF Goes

\* Where a part starts and where one is waited for.
LEMMA PartStarts ==
    ASSUME TInv, NEW k, AtPart(k)
    PROVE  /\ StartsPart /\ stack # <<>> /\ HasPart /\ Top.phase = "next"
           /\ ThePart.cmd.k = k /\ ThePart.cmd \in Cmd
BY AtPartFacts DEF AtPart, StartsPart

\* Parts that end at once.
LEMMA SimpleDeeds ==
    ASSUME TInv, EmptyPart \/ RunCommand \/ ExtendedTest \/ ExitBuiltin \/ SetErrexit
                 \/ TrapExit \/ TrapErr \/ DefineFunction \/ ReturnBuiltin
    PROVE  Deed
<1>1. CASE ReturnBuiltin
  <2>1. AtPart("return") /\ Finish(ThePart.cmd.n) /\ inErr' = inErr
    BY <1>1 DEF ReturnBuiltin
  <2>2. /\ stack # <<>> /\ StartsPart /\ ThePart.cmd.k = "return"
        /\ Goes("done")
    BY <2>1, PartStarts, FinishGoes
  <2>3. frames' = IF frames = <<>> THEN frames
                  ELSE [frames EXCEPT ![Len(frames)] =
                           [requested |-> TRUE, code |-> ThePart.cmd.n]]
    BY <1>1, Zenon DEF ReturnBuiltin
  <2> QED BY <2>1, <2>2, <2>3, Zenon DEF Deed, Returning
<1>2. CASE EmptyPart \/ RunCommand \/ ExtendedTest \/ ExitBuiltin \/ SetErrexit
           \/ TrapExit \/ TrapErr \/ DefineFunction
  <2>1. Top.phase = "next" /\ stack # <<>> /\ Same
    BY <1>2 DEF EmptyPart, RunCommand, ExtendedTest, ExitBuiltin, SetErrexit, TrapExit,
       TrapErr, DefineFunction, AtPart, Waiting, Same, globals
  <2>2. \E rc : Finish(rc)
    BY <1>2, Zenon DEF EmptyPart, RunCommand, ExtendedTest, ExitBuiltin, SetErrexit, TrapExit,
       TrapErr, DefineFunction
  <2>3. Goes("done") BY <2>1, <2>2, FinishGoes
  <2> QED BY <2>1, <2>3 DEF Deed, Ending
<1> QED BY <1>1, <1>2

\* Parts that are lines again, when they start.
LEMMA StartDeeds ==
    ASSUME TInv, StartSubshell \/ StartGroup \/ StartBash \/ StartIf \/ StartCase
                 \/ StartWhile \/ StartFor \/ StartSource
    PROVE  Deed
<1>1. Same
  BY DEF StartSubshell, StartGroup, StartBash, StartIf, StartCase, StartWhile, StartFor,
     StartSource, Same, globals
<1>2. PICK k \in {"subshell", "group", "bash", "if", "case", "while", "for", "source"} : AtPart(k)
  BY DEF StartSubshell, StartGroup, StartBash, StartIf, StartCase, StartWhile, StartFor,
     StartSource
<1>3. /\ StartsPart /\ stack # <<>> /\ HasPart /\ Top.phase = "next"
      /\ ThePart.cmd.k = k /\ ThePart.cmd \in Cmd /\ k \notin SimpleKinds
  BY <1>2, PartStarts DEF SimpleKinds
<1>4. ASSUME NEW rc, Finish(rc) PROVE Deed
  BY <1>1, <1>3, <1>4, FinishGoes DEF Deed, Ending
<1>5. ASSUME NEW p \in {"line", "branch", "cond", "wcond", "for", "source"}, NEW l \in Lines,
             Calls(p, l), p \in Tests => l \in TestLines
      PROVE  Deed
  BY <1>1, <1>3, <1>5 DEF Deed, Nesting
<1>6. CASE StartSubshell \/ StartGroup \/ StartBash
  <2>1. k \in {"subshell", "group", "bash"} /\ Enter("line", ThePart.cmd.line)
    BY <1>3, <1>6 DEF StartSubshell, StartGroup, StartBash, AtPart
  <2>2. ThePart.cmd.line \in Lines /\ Calls("line", ThePart.cmd.line)
    BY <1>3, <2>1, CmdFields, EnterCalls
  <2> QED BY <1>5, <2>2 DEF Tests
<1>7. CASE StartIf
  <2>1. k = "if" /\ Enter("cond", ThePart.cmd.cond)
    BY <1>3, <1>7 DEF StartIf, AtPart
  <2>2. ThePart.cmd.cond \in Lines /\ Calls("cond", ThePart.cmd.cond)
    BY <1>3, <2>1, CmdFields, EnterCalls
  <2> QED BY <1>3, <1>5, <2>1, <2>2, TestLinesOf
<1>8. CASE StartCase
  <2>1. CASE ThePart.cmd.line # None
    <3>1. k = "case" /\ Enter("branch", ThePart.cmd.line)
      BY <1>3, <1>8, <2>1 DEF StartCase, AtPart
    <3>2. ThePart.cmd.line \in Lines /\ Calls("branch", ThePart.cmd.line)
      BY <1>3, <2>1, <3>1, CmdFields, EnterCalls
    <3> QED BY <1>5, <3>2 DEF Tests
  <2>2. CASE ThePart.cmd.line = None BY <1>4, <1>8, <2>2 DEF StartCase
  <2> QED BY <2>1, <2>2
<1>9. CASE StartWhile
  <2>1. CASE MAX_ITERATIONS = 0 BY <1>4, <1>9, <2>1 DEF StartWhile
  <2>2. CASE MAX_ITERATIONS # 0
    <3>1. k = "while" BY <1>3, <1>9 DEF StartWhile, AtPart
    <3>2. stack' = Append(WithTop(InRound("wcond", 0, 0)), NewFrame(ThePart.cmd.cond, exitTrap))
      BY <1>9, <2>2, Zenon DEF StartWhile, InRound
    <3>3. ThePart.cmd.cond \in Lines /\ Calls("wcond", ThePart.cmd.cond)
      BY <1>3, <3>1, <3>2, CmdFields, RoundCalls
    <3> QED BY <1>3, <1>5, <3>1, <3>3, TestLinesOf
  <2> QED BY <2>1, <2>2
<1>10. CASE StartFor
  <2>1. CASE ThePart.cmd.n = 0 BY <1>4, <1>10, <2>1 DEF StartFor
  <2>2. CASE ThePart.cmd.n # 0
    <3>1. k = "for" BY <1>3, <1>10 DEF StartFor, AtPart
    <3>2. stack' = Append(WithTop([Top EXCEPT !.phase = "for", !.count = 1]),
                          NewFrame(ThePart.cmd.body, exitTrap))
      BY <1>10, <2>2, Zenon DEF StartFor
    <3>3. ThePart.cmd.body \in Lines /\ Calls("for", ThePart.cmd.body)
      BY <1>3, <3>1, <3>2, CmdFields, FirstRoundCalls
    <3> QED BY <1>5, <3>3 DEF Tests
  <2> QED BY <2>1, <2>2
<1>11. CASE StartSource
  <2>1. CASE ThePart.cmd.lines = <<>>
    BY <1>4, <1>11, <2>1 DEF StartSource
  <2>2. CASE ThePart.cmd.lines # <<>>
    <3>1. k = "source" /\ ThePart.cmd.lines \in Seq(Lines)
      BY <1>3, <1>11, CmdFields DEF StartSource, AtPart
    <3>2. stack' = Append(WithTop([Top EXCEPT !.phase = "source", !.count = 1]),
                          NewFrame(ThePart.cmd.lines[1], exitTrap))
      BY <1>11, <2>2, Zenon DEF StartSource
    <3>3. Calls("source", ThePart.cmd.lines[1])
      BY <1>3, <3>2, FirstRoundCalls
    <3>4. 1 \in 1..Len(ThePart.cmd.lines) BY <2>2, <3>1, LastFrontFacts
    <3>5. ThePart.cmd.lines[1] \in Lines BY <3>1, <3>4, ElementOfSeq
    <3> QED BY <1>3, <1>5, <3>1, <3>3, <3>4, <3>5, TestLinesOf
  <2> QED BY <2>1, <2>2
<1> QED BY <1>6, <1>7, <1>8, <1>9, <1>10, <1>11

\* What a frame that waits for a line does when it returns.
LEMMA WaitDeeds ==
    ASSUME TInv, LineDone \/ BranchDone \/ IfCondDone \/ WhileCondDone \/ WhileBodyDone
                 \/ ForBodyDone \/ SourceLineDone
    PROVE  Deed
<1>1. Same
  BY DEF LineDone, BranchDone, IfCondDone, WhileCondDone, WhileBodyDone, ForBodyDone,
     SourceLineDone, Same, globals
<1>2. PICK k \in {"line", "branch", "cond", "wcond", "wbody", "for", "source"} : Waiting(k)
  BY DEF LineDone, BranchDone, IfCondDone, WhileCondDone, WhileBodyDone, ForBodyDone,
     SourceLineDone
<1>3. /\ stack # <<>> /\ HasPart /\ Top.phase = k
      /\ ThePart.cmd \in Cmd /\ ThePart.cmd = CmdOf(Top) /\ Fits(Top)
  BY <1>2, WaitingFacts DEF AwayFromParts
<1>4. ASSUME NEW rc, Finish(rc) PROVE Deed
  BY <1>1, <1>3, <1>4, FinishGoes DEF Deed, Ending
<1>5. ASSUME NEW p \in {"branch", "wbody", "source"}, NEW l \in Lines, k \in Tests,
             Calls(p, l), p = "source" => l \in TestLines
      PROVE  Deed
  BY <1>1, <1>3, <1>5 DEF Deed, Chosen
<1>6. ASSUME NEW p \in {"wcond", "for"}, NEW l \in Lines, k \in {"wbody", "for"},
             ~shouldReturn, Calls(p, l), p = "wcond" => l \in TestLines
      PROVE  Deed
  BY <1>1, <1>3, <1>6 DEF Deed, Again
<1>7. CASE LineDone BY <1>4, <1>7 DEF LineDone
<1>8. CASE BranchDone BY <1>4, <1>8, Zenon DEF BranchDone
<1>9. CASE IfCondDone
  <2>1. k = "cond" /\ ThePart.cmd.k = "if"
    BY <1>3, <1>9 DEF IfCondDone, Waiting, Fits
  <2>2. /\ ThePart.cmd.then \in Lines
        /\ ThePart.cmd.else # None => ThePart.cmd.else \in Lines
    BY <1>3, <2>1, CmdFields
  <2>3. CASE Finish(0) BY <1>4, <2>3
  <2>4. ASSUME NEW l \in Lines, Enter("branch", l) PROVE Deed
    <3>1. Calls("branch", l) BY <1>3, <2>4, EnterCalls
    <3> QED BY <1>5, <2>1, <2>4, <3>1 DEF Tests
  <2>5. \/ Enter("branch", ThePart.cmd.then)
        \/ ThePart.cmd.else # None /\ Enter("branch", ThePart.cmd.else)
        \/ Finish(0)
    BY <1>9 DEF IfCondDone
  <2> QED BY <2>2, <2>3, <2>4, <2>5
<1>10. CASE WhileCondDone
  <2>1. k = "wcond" /\ ThePart.cmd.k = "while"
    BY <1>3, <1>10 DEF WhileCondDone, Waiting, Fits
  <2>2. ThePart.cmd.body \in Lines BY <1>3, <2>1, CmdFields
  <2>3. CASE ret # 0 BY <1>4, <1>10, <2>3 DEF WhileCondDone
  <2>4. CASE ret = 0
    <3>1. Calls("wbody", ThePart.cmd.body)
      BY <1>3, <1>10, <2>4, EnterCalls DEF WhileCondDone
    <3> QED BY <1>5, <2>1, <2>2, <3>1 DEF Tests
  <2> QED BY <2>3, <2>4
<1>11. CASE WhileBodyDone
  <2>1. k = "wbody" /\ ThePart.cmd.k = "while"
    BY <1>3, <1>11 DEF WhileBodyDone, Waiting, Fits
  <2>2. CASE shouldReturn BY <1>4, <1>11, <2>2 DEF WhileBodyDone
  <2>3. CASE ~shouldReturn /\ Top.count + 1 >= MAX_ITERATIONS
    BY <1>4, <1>11, <2>3 DEF WhileBodyDone
  <2>4. CASE ~shouldReturn /\ ~(Top.count + 1 >= MAX_ITERATIONS)
    <3>1. stack' = Append(WithTop(InRound("wcond", Top.count + 1, ret)),
                          NewFrame(ThePart.cmd.cond, exitTrap))
      BY <1>11, <2>4, Zenon DEF WhileBodyDone, InRound
    <3>2. ThePart.cmd.cond \in Lines /\ Calls("wcond", ThePart.cmd.cond)
      BY <1>3, <2>1, <3>1, CmdFields, RoundCalls
    <3> QED BY <1>3, <1>6, <2>1, <2>4, <3>2, TestLinesOf
  <2> QED BY <2>2, <2>3, <2>4
<1>12. CASE ForBodyDone
  <2>1. k = "for" /\ ThePart.cmd.k = "for"
    BY <1>3, <1>12 DEF ForBodyDone, Waiting, Fits
  <2>2. CASE shouldReturn BY <1>4, <1>12, <2>2 DEF ForBodyDone
  <2>3. CASE ~shouldReturn /\ Top.count = ThePart.cmd.n
    BY <1>4, <1>12, <2>3 DEF ForBodyDone
  <2>4. CASE ~shouldReturn /\ Top.count # ThePart.cmd.n
    <3>1. stack' = Append(WithTop([Top EXCEPT !.count = Top.count + 1]),
                          NewFrame(ThePart.cmd.body, exitTrap))
      BY <1>12, <2>4, Zenon DEF ForBodyDone
    <3>2. ThePart.cmd.body \in Lines /\ Calls("for", ThePart.cmd.body)
      BY <1>3, <2>1, <3>1, CmdFields, NextRoundCalls
    <3> QED BY <1>6, <2>1, <2>4, <3>2
  <2> QED BY <2>2, <2>3, <2>4
<1>13. CASE SourceLineDone
  <2>1. /\ k = "source" /\ ThePart.cmd.k = "source"
        /\ Top.count \in 1..Len(ThePart.cmd.lines)
    BY <1>3, <1>13 DEF SourceLineDone, Waiting, Fits
  <2>2. ThePart.cmd.lines \in Seq(Lines) BY <1>3, <2>1, CmdFields
  <2>3. CASE Top.count = Len(ThePart.cmd.lines)
    BY <1>4, <1>13, <2>3 DEF SourceLineDone
  <2>4. CASE Top.count # Len(ThePart.cmd.lines)
    <3>1. stack' = Append(WithTop([Top EXCEPT !.count = Top.count + 1]),
                          NewFrame(ThePart.cmd.lines[Top.count + 1], exitTrap))
      BY <1>13, <2>4, Zenon DEF SourceLineDone
    <3>2. PICK i \in 1..Len(ThePart.cmd.lines) : i = Top.count + 1
      BY <2>1, <2>2, <2>4
    <3>3. ThePart.cmd.lines[i] \in Lines BY <2>2, ElementOfSeq
    <3>4. Calls("source", ThePart.cmd.lines[i])
      BY <1>3, <2>1, <3>1, <3>2, NextRoundCalls
    <3>5. ThePart.cmd.lines[i] \in TestLines BY <1>3, <2>1, TestLinesOf
    <3> QED BY <1>5, <2>1, <3>3, <3>4, <3>5 DEF Tests
  <2> QED BY <2>3, <2>4
<1> QED BY <1>7, <1>8, <1>9, <1>10, <1>11, <1>12, <1>13

\* Calls of functions, the traps, and the way from part to part.
LEMMA OtherDeeds ==
    ASSUME TInv, CallFunction \/ CallDone \/ SkipPart \/ RunErrTrap \/ ErrTrapDone
                 \/ NoErrTrap \/ Errexit \/ NextPart \/ ReturnFromLine \/ EndOfLine
                 \/ RunExitTrap \/ Pop
    PROVE  Deed
<1>1. CASE CallFunction
  <2>1. AtPart("call") /\ inErr' = inErr BY <1>1 DEF CallFunction
  <2>2. /\ StartsPart /\ stack # <<>> /\ HasPart /\ Top.phase = "next"
        /\ ThePart.cmd.k = "call" /\ ThePart.cmd \in Cmd
    BY <2>1, PartStarts
  <2>3. funs[ThePart.cmd.f] \in Lines \cup {None}
    BY <2>2, CmdFields DEF TInv, RestOK
  <2>4. CASE funs[ThePart.cmd.f] # None
    <3>1. /\ Enter("call", funs[ThePart.cmd.f])
          /\ frames' = Append(frames, [requested |-> FALSE, code |-> 0])
      BY <1>1, <2>4 DEF CallFunction
    <3>2. Calls("call", funs[ThePart.cmd.f]) /\ funs[ThePart.cmd.f] \in Lines
      BY <2>2, <2>3, <2>4, <3>1, EnterCalls
    <3> QED BY <2>1, <2>2, <3>1, <3>2 DEF Deed, Invoking
  <2>5. CASE funs[ThePart.cmd.f] = None
    <3>1. Finish(127) /\ frames' = frames BY <1>1, <2>5 DEF CallFunction
    <3>2. Goes("done") BY <2>2, <3>1, FinishGoes
    <3> QED BY <2>1, <2>2, <3>1, <3>2 DEF Deed, Ending, Same
  <2> QED BY <2>4, <2>5
<1>2. CASE CallDone
  <2>1. Waiting("call") /\ frames' = Front(frames) /\ inErr' = inErr /\ \E rc : Finish(rc)
    BY <1>2, Zenon DEF CallDone
  <2>2. stack # <<>> /\ Top.phase = "call" /\ Goes("done")
    BY <2>1, FinishGoes DEF Waiting
  <2> QED BY <2>1, <2>2 DEF Deed, Answered
<1>3. CASE RunErrTrap
  <2>1. /\ stack # <<>> /\ Top.phase = "done" /\ errTrap # None /\ ~inErr /\ inErr' = TRUE
        /\ frames' = frames /\ Enter("err", errTrap)
    BY <1>3 DEF RunErrTrap, Waiting, ErrTrapDue
  <2> QED BY <2>1, EnterCalls DEF Deed, Trapping
<1>4. CASE ErrTrapDone
  <2>1. stack # <<>> /\ Top.phase = "err" /\ inErr' = FALSE /\ frames' = frames
    BY <1>4 DEF ErrTrapDone, Waiting
  <2>2. stack' = WithTop([Top EXCEPT !.phase = "checked"])
    BY <1>4, Zenon DEF ErrTrapDone
  <2> QED BY <2>1, <2>2, PhaseGoes DEF Deed, Trapped
<1>5. CASE SkipPart \/ NoErrTrap \/ Errexit \/ NextPart \/ ReturnFromLine \/ EndOfLine
  <2>1. Same /\ stack # <<>>
    BY <1>5 DEF SkipPart, NoErrTrap, Errexit, NextPart, ReturnFromLine, EndOfLine, AfterPart,
       Waiting, Same, globals
  <2>2. CASE SkipPart
    <3>1. Top.phase = "next" /\ stack' = WithTop([Top EXCEPT !.phase = "skipped"])
      BY <2>2, Zenon DEF SkipPart, Waiting
    <3> QED BY <2>1, <3>1, PhaseGoes DEF Deed, Passing
  <2>3. CASE NoErrTrap
    <3>1. Top.phase = "done" /\ stack' = WithTop([Top EXCEPT !.phase = "checked"])
      BY <2>3, Zenon DEF NoErrTrap, Waiting
    <3> QED BY <2>1, <3>1, PhaseGoes DEF Deed, Passing
  <2>4. CASE Errexit
    <3>1. Top.phase = "checked" /\ Leave(Top.rc)
      BY <2>4 DEF Errexit, Waiting
    <3> QED BY <2>1, <3>1, LeaveGoes DEF Deed, Passing
  <2>5. CASE NextPart
    <3> DEFINE g == [Top EXCEPT !.j = @ + 1, !.op = ThePart.op, !.phase = "next"]
    <3>1. Top.phase \in {"checked", "skipped"} /\ ~shouldReturn
      BY <2>5 DEF NextPart, AfterPart, Waiting
    <3>2. stack' = WithTop(g) BY <2>5, Zenon DEF NextPart
    <3>3. g.phase = "next" /\ g.line = Top.line /\ g.saved = Top.saved
      BY <2>1, TopFacts DEF Frame
    <3> HIDE DEF g
    <3>4. Goes("next") BY <2>1, <3>2, <3>3 DEF Goes
    <3> QED BY <2>1, <3>1, <3>4 DEF Deed, Passing
  <2>6. CASE ReturnFromLine
    <3>1. Top.phase \in {"checked", "skipped"} /\ Leave(getReturnCode)
      BY <2>6 DEF ReturnFromLine, AfterPart, Waiting
    <3> QED BY <2>1, <3>1, LeaveGoes DEF Deed, Passing
  <2>7. CASE EndOfLine
    <3>1. Top.phase = "next" BY <2>7 DEF EndOfLine, Waiting
    <3>2. Leave(Top.rc) \/ stack' = WithTop([Top EXCEPT !.phase = "leave"])
      BY <2>7, Zenon DEF EndOfLine
    <3>3. Goes("leave") BY <2>1, <3>2, LeaveGoes, PhaseGoes
    <3> QED BY <2>1, <3>1, <3>3 DEF Deed, Passing
  <2> QED BY <1>5, <2>2, <2>3, <2>4, <2>5, <2>6, <2>7
<1>6. CASE RunExitTrap
  <2> DEFINE g == [Top EXCEPT !.phase = "trap"]
  <2>1. stack # <<>> /\ Top.phase = "leave" /\ exitTrap # None /\ Same
    BY <1>6 DEF RunExitTrap, Waiting, ExitTrapDue, Same
  <2>2. stack' = Append(WithTop(g), NewFrame(exitTrap, None))
    BY <1>6, Zenon DEF RunExitTrap
  <2>3. g.phase = "trap" /\ g.line = Top.line /\ g.saved = Top.saved
    BY <2>1, TopFacts DEF Frame
  <2> HIDE DEF g
  <2>4. Calls("trap", exitTrap) BY <2>1, <2>2, <2>3, FrameCalls
  <2> QED BY <2>1, <2>4 DEF Deed, Farewell
<1>7. CASE Pop
  <2>1. /\ stack # <<>> /\ Top.phase \in {"leave", "trap"} /\ stack' = Front(stack)
        /\ exitTrap' = Top.saved /\ Same
    BY <1>7 DEF Pop, Waiting, Restored, Same
  <2> QED BY <2>1 DEF Deed, Popping, Ends
<1> QED BY <1>1, <1>2, <1>3, <1>4, <1>5, <1>6, <1>7

LEMMA ShellDeeds ==
    ASSUME TInv, Shell
    PROVE  Deed
BY SimpleDeeds, StartDeeds, WaitDeeds, OtherDeeds, Zenon DEF Shell

(***************************************************************************)
(* Counting the frames in a phase.                                         *)
(***************************************************************************)
Where(q) == {i \in DOMAIN stack : stack[i].phase = q}

\* A step that leaves the frames below alone and the top frame in phase p, or
\* that takes it away.
Turns(p) == Goes(p) \/ \E l : Calls(p, l)

LEMMA WhereTurns ==
    ASSUME TInv, NEW p, Turns(p), NEW q, q # "next"
    PROVE  /\ IsFiniteSet(Where(q)) /\ (Top.phase = q <=> Len(stack) \in Where(q))
           /\ Where(q)' = IF p = q THEN Where(q) \cup {Len(stack)}
                          ELSE Where(q) \ {Len(stack)}
<1>1. /\ Len(stack) \in Nat \ {0} /\ Top = stack[Len(stack)] /\ DOMAIN stack = 1..Len(stack)
      /\ Lower(stack') /\ stack'[Len(stack)].phase = p
      /\ \/ DOMAIN stack' = 1..Len(stack)
         \/ /\ DOMAIN stack' = 1..Len(stack) + 1
            /\ stack'[Len(stack) + 1].phase = "next"
  BY GoesFacts, CallsFacts DEF Turns
<1>2. IsFiniteSet(Where(q))
  <2>1. IsFiniteSet(1..Len(stack)) /\ Where(q) \subseteq 1..Len(stack)
    BY <1>1, FS_Interval DEF Where
  <2> QED BY <2>1, FS_Subset
<1>3. Top.phase = q <=> Len(stack) \in Where(q) BY <1>1 DEF Where
<1>4. ASSUME NEW i \in 1..Len(stack) - 1 PROVE i \in Where(q)' <=> i \in Where(q)
  BY <1>1 DEF Where, Lower
<1>5. Len(stack) \in Where(q)' <=> p = q BY <1>1 DEF Where
<1>6. \A i \in Where(q)' \cup Where(q) : i \in 1..Len(stack) - 1 \/ i = Len(stack)
  BY <1>1 DEF Where
<1> HIDE DEF Where
<1> QED BY <1>1, <1>2, <1>3, <1>4, <1>5, <1>6

LEMMA WhereEnds ==
    ASSUME TInv, Ends, NEW q
    PROVE  /\ IsFiniteSet(Where(q)) /\ (Top.phase = q <=> Len(stack) \in Where(q))
           /\ Where(q)' = Where(q) \ {Len(stack)}
<1>1. /\ Len(stack) \in Nat \ {0} /\ Top = stack[Len(stack)] /\ DOMAIN stack = 1..Len(stack)
      /\ Lower(stack') /\ DOMAIN stack' = 1..Len(stack) - 1
  BY EndsFacts
<1>2. IsFiniteSet(Where(q))
  <2>1. IsFiniteSet(1..Len(stack)) /\ Where(q) \subseteq 1..Len(stack)
    BY <1>1, FS_Interval DEF Where
  <2> QED BY <2>1, FS_Subset
<1> QED BY <1>1, <1>2 DEF Where, Lower

LEMMA CountTurns ==
    ASSUME TInv, NEW p, Turns(p), NEW q, q # "next"
    PROVE  /\ InPhase(q) \in Nat
           /\ Top.phase = q => InPhase(q) # 0
           /\ InPhase(q)' = IF Top.phase = q
                            THEN IF p = q THEN InPhase(q) ELSE InPhase(q) - 1
                            ELSE IF p = q THEN InPhase(q) + 1 ELSE InPhase(q)
<1>1. InPhase(q) = Cardinality(Where(q)) /\ InPhase(q)' = Cardinality(Where(q)')
  BY DEF InPhase, Where
<1> DEFINE A == Where(q)
           B == Where(q)'
<1>2. /\ IsFiniteSet(A) /\ (Top.phase = q <=> Len(stack) \in A)
      /\ B = IF p = q THEN A \cup {Len(stack)} ELSE A \ {Len(stack)}
  BY WhereTurns
<1> HIDE DEF A, B
<1>3. Cardinality(A) \in Nat /\ (Top.phase = q => Cardinality(A) # 0)
  BY <1>2, FS_CardinalityType, FS_EmptySet
<1>4. Cardinality(B) = IF Top.phase = q
                       THEN IF p = q THEN Cardinality(A) ELSE Cardinality(A) - 1
                       ELSE IF p = q THEN Cardinality(A) + 1 ELSE Cardinality(A)
  BY <1>2, FS_AddElement, FS_RemoveElement
<1> QED BY <1>1, <1>3, <1>4 DEF A, B

LEMMA CountEnds ==
    ASSUME TInv, Ends, NEW q, Top.phase # q
    PROVE  InPhase(q)' = InPhase(q)
<1>1. InPhase(q) = Cardinality(Where(q)) /\ InPhase(q)' = Cardinality(Where(q)')
  BY DEF InPhase, Where
<1> DEFINE A == Where(q)
           B == Where(q)'
<1>2. Len(stack) \notin A /\ B = A \ {Len(stack)} BY WhereEnds
<1> HIDE DEF A, B
<1>3. A = B BY <1>2
<1> QED BY <1>1, <1>3 DEF A, B

\* The function frames are those of the calls in progress, and the ERR trap's
\* guard is up while one frame waits for its line.
LEMMA DeedBalanced ==
    ASSUME TInv, Balanced, Deed
    PROVE  Balanced'
<1>1. /\ frames \in Seq([requested : BOOLEAN, code : Int]) /\ Len(frames) \in Nat
      /\ inErr \in BOOLEAN
  BY DEF TInv, RestOK
<1>2. ASSUME NEW p, Turns(p), Top.phase \notin {"call", "err"}, p \notin {"call", "err"},
             Len(frames') = Len(frames), inErr' = inErr
      PROVE  Balanced'
  <2>1. InPhase("call")' = InPhase("call") /\ InPhase("err")' = InPhase("err")
    BY <1>2, CountTurns
  <2> QED BY <1>2, <2>1 DEF Balanced
<1>3. CASE Ending \/ Nesting \/ Chosen \/ Again \/ Passing \/ Farewell
  <2>1. Same /\ Top.phase \notin {"call", "err"}
    BY <1>3 DEF Ending, Nesting, Chosen, Again, Passing, Farewell, StartsPart, Waiting, Tests
  <2>2. \E p : Turns(p) /\ p \notin {"call", "err"}
    BY <1>3 DEF Ending, Nesting, Chosen, Again, Passing, Farewell, Turns
  <2> QED BY <1>2, <2>1, <2>2 DEF Same
<1>4. CASE Returning
  <2>1. Top.phase = "next" /\ Turns("done") /\ inErr' = inErr
    BY <1>4 DEF Returning, StartsPart, Waiting, Turns
  <2>2. Len(frames') = Len(frames)
    <3> DEFINE e == [requested |-> TRUE, code |-> ThePart.cmd.n]
               R == [requested : BOOLEAN, code : Int]
               S == R \cup {e}
    <3>1. frames' = IF frames = <<>> THEN frames ELSE [frames EXCEPT ![Len(frames)] = e]
      BY <1>4 DEF Returning
    <3>2. frames \in Seq(R) BY <1>1
    <3> HIDE DEF e, R
    <3>3. frames \in Seq(S) /\ e \in S BY <3>2
    <3> HIDE DEF S
    <3> QED BY <3>1, <3>3, SetLastFacts
  <2> QED BY <1>2, <2>1, <2>2
<1>5. CASE Invoking
  <2>1. /\ Top.phase = "next" /\ Turns("call") /\ inErr' = inErr
        /\ frames' = Append(frames, [requested |-> FALSE, code |-> 0])
    BY <1>5 DEF Invoking, StartsPart, Waiting, Turns
  <2>2. Len(frames') = Len(frames) + 1 BY <1>1, <2>1
  <2>3. InPhase("call")' = InPhase("call") + 1 /\ InPhase("err")' = InPhase("err")
    BY <2>1, CountTurns
  <2> QED BY <2>1, <2>2, <2>3 DEF Balanced
<1>6. CASE Answered
  <2>1. Top.phase = "call" /\ Turns("done") /\ inErr' = inErr /\ frames' = Front(frames)
    BY <1>6 DEF Answered, Turns
  <2>2. /\ InPhase("call") \in Nat \ {0} /\ InPhase("call")' = InPhase("call") - 1
        /\ InPhase("err")' = InPhase("err")
    BY <2>1, CountTurns
  <2>3. Len(frames') = Len(frames) - 1
    <3>1. frames # <<>> BY <2>2 DEF Balanced
    <3> QED BY <1>1, <2>1, <3>1, LastFrontFacts
  <2> QED BY <2>1, <2>2, <2>3 DEF Balanced
<1>7. CASE Trapping
  <2>1. Top.phase = "done" /\ Turns("err") /\ ~inErr /\ inErr' = TRUE /\ frames' = frames
    BY <1>7 DEF Trapping, Turns
  <2>2. InPhase("call")' = InPhase("call") /\ InPhase("err")' = InPhase("err") + 1
    BY <2>1, CountTurns
  <2> QED BY <2>1, <2>2 DEF Balanced
<1>8. CASE Trapped
  <2>1. Top.phase = "err" /\ Turns("checked") /\ inErr' = FALSE /\ frames' = frames
    BY <1>8 DEF Trapped, Turns
  <2>2. /\ InPhase("call")' = InPhase("call") /\ InPhase("err") \in Nat \ {0}
        /\ InPhase("err")' = InPhase("err") - 1
    BY <2>1, CountTurns
  <2> QED BY <2>1, <2>2 DEF Balanced
<1>9. CASE Popping
  <2>1. Same /\ InPhase("call")' = InPhase("call") /\ InPhase("err")' = InPhase("err")
    BY <1>9, CountEnds DEF Popping
  <2> QED BY <2>1 DEF Balanced, Same
<1> QED BY <1>3, <1>4, <1>5, <1>6, <1>7, <1>8, <1>9 DEF Deed

(***************************************************************************)
(* What a return does.  In the programs the property is about, conditions, *)
(* sourced lines and the lines of traps are simple, so everything above a  *)
(* frame that waits for one of them is simple too; a return is asked for   *)
(* only where no such frame waits, and then every frame up to the          *)
(* function's is one that looks.                                           *)
(***************************************************************************)
SimpleLines == TestLines \cup TrapLines

Shadow == Tests \cup {"err", "trap"}
Waits == Shadow \cup {"line", "branch", "call", "wbody", "for"}
Quiet == {"next", "done", "checked", "skipped", "leave", "trap", "err"}
OnTheWay == {"done", "checked", "leave", "line", "branch", "wbody", "for", "call"}

\* Every frame but the top one waits; above a shadow all lines are simple; and
\* a simple line calls nothing but traps.
Shaped ==
    /\ \A i \in 1..Len(stack) - 1 : stack[i].phase \in Waits
    /\ \A i, j \in 1..Len(stack) :
          i < j /\ stack[i].phase \in Shadow => stack[j].line \in SimpleLines
    /\ \A i \in 1..Len(stack) : stack[i].line \in SimpleLines => stack[i].phase \in Quiet

\* The traps of the program.
TrapsKnown ==
    /\ exitTrap \in TrapLines \cup {None} /\ errTrap \in TrapLines \cup {None}
    /\ \A i \in 1..Len(stack) : stack[i].saved \in TrapLines \cup {None}

\* Only the innermost function can be asked to return, by no condition and no
\* file; the top frame is then on its way out, unless a trap runs.
Requests ==
    /\ \A i \in 1..Len(frames) - 1 : ~frames[i].requested
    /\ shouldReturn => \A i \in 1..Len(stack) : stack[i].phase \notin Tests
    /\ shouldReturn /\ stack # <<>> => Top.phase \in OnTheWay \/ InTrap

RInv == SimpleConditions => Shaped /\ Requests

LEMMA ShapedGoes ==
    ASSUME TInv, Shaped, prog' = prog, NEW p, Goes(p),
           Top.line \in SimpleLines => p \in Quiet
    PROVE  Shaped'
<1>1. SimpleLines' = SimpleLines
  BY DEF SimpleLines, TestLines, TrapLines, AllCmds
<1>2. /\ Len(stack) \in Nat \ {0} /\ Top = stack[Len(stack)] /\ Len(stack') = Len(stack)
      /\ \A i \in 1..Len(stack) - 1 : stack'[i] = stack[i]
      /\ stack'[Len(stack)].phase = p /\ stack'[Len(stack)].line = Top.line
  BY GoesFacts DEF Lower
<1>3. \A i \in 1..Len(stack') - 1 : stack'[i].phase \in Waits
  BY <1>2 DEF Shaped
<1>4. ASSUME NEW i \in 1..Len(stack'), NEW j \in 1..Len(stack'), i < j,
             stack'[i].phase \in Shadow
      PROVE  stack'[j].line \in SimpleLines
  <2>1. i \in 1..Len(stack) - 1 /\ j \in 1..Len(stack) BY <1>2, <1>4
  <2>2. stack'[j].line = stack[j].line BY <1>2, <2>1
  <2> QED BY <1>2, <1>4, <2>1, <2>2 DEF Shaped
<1>5. ASSUME NEW i \in 1..Len(stack'), stack'[i].line \in SimpleLines
      PROVE  stack'[i].phase \in Quiet
  <2>1. CASE i = Len(stack) BY <1>2, <1>5, <2>1
  <2>2. CASE i # Len(stack) BY <1>2, <1>5, <2>2 DEF Shaped
  <2> QED BY <2>1, <2>2
<1> QED BY <1>1, <1>3, <1>4, <1>5 DEF Shaped

LEMMA ShapedCalls ==
    ASSUME TInv, Shaped, prog' = prog, NEW p \in Waits, NEW l, Calls(p, l),
           p \in Shadow => l \in SimpleLines,
           Top.line \in SimpleLines => p \in {"err", "trap"}
    PROVE  Shaped'
<1>1. SimpleLines' = SimpleLines
  BY DEF SimpleLines, TestLines, TrapLines, AllCmds
<1>2. /\ Len(stack) \in Nat \ {0} /\ Top = stack[Len(stack)] /\ Len(stack') = Len(stack) + 1
      /\ \A i \in 1..Len(stack) - 1 : stack'[i] = stack[i]
      /\ stack'[Len(stack)].phase = p /\ stack'[Len(stack)].line = Top.line
      /\ stack'[Len(stack) + 1].phase = "next" /\ stack'[Len(stack) + 1].line = l
  BY CallsFacts DEF Lower
<1>3. ASSUME NEW i \in 1..Len(stack') - 1 PROVE stack'[i].phase \in Waits
  <2>1. CASE i = Len(stack) BY <1>2, <2>1
  <2>2. CASE i # Len(stack) BY <1>2, <2>2 DEF Shaped
  <2> QED BY <2>1, <2>2
<1>4. ASSUME NEW i \in 1..Len(stack'), NEW j \in 1..Len(stack'), i < j,
             stack'[i].phase \in Shadow
      PROVE  stack'[j].line \in SimpleLines
  <2>1. i \in 1..Len(stack) BY <1>2, <1>4
  <2>2. CASE j # Len(stack) + 1
    <3>1. i \in 1..Len(stack) - 1 /\ j \in 1..Len(stack) /\ stack'[j].line = stack[j].line
      BY <1>2, <1>4, <2>2
    <3> QED BY <1>2, <1>4, <3>1 DEF Shaped
  <2>3. CASE j = Len(stack) + 1 /\ i = Len(stack) BY <1>2, <1>4, <2>3
  <2>4. CASE j = Len(stack) + 1 /\ i # Len(stack)
    <3>1. i \in 1..Len(stack) - 1 /\ stack[i].phase \in Shadow
      BY <1>2, <1>4, <2>1, <2>4
    <3>2. Top.line \in SimpleLines BY <1>2, <3>1 DEF Shaped
    <3> QED BY <1>2, <2>4, <3>2 DEF Shadow
  <2> QED BY <2>2, <2>3, <2>4
<1>5. ASSUME NEW i \in 1..Len(stack'), stack'[i].line \in SimpleLines
      PROVE  stack'[i].phase \in Quiet
  <2>1. CASE i = Len(stack) BY <1>2, <1>5, <2>1 DEF Quiet
  <2>2. CASE i = Len(stack) + 1 BY <1>2, <2>2 DEF Quiet
  <2>3. CASE i \in 1..Len(stack) - 1 BY <1>2, <1>5, <2>3 DEF Shaped
  <2> QED BY <1>2, <2>1, <2>2, <2>3
<1> QED BY <1>1, <1>3, <1>4, <1>5 DEF Shaped

LEMMA ShapedEnds ==
    ASSUME TInv, Shaped, prog' = prog, Ends
    PROVE  Shaped'
<1>1. SimpleLines' = SimpleLines
  BY DEF SimpleLines, TestLines, TrapLines, AllCmds
<1>2. /\ Len(stack) \in Nat \ {0} /\ Len(stack') = Len(stack) - 1
      /\ \A i \in 1..Len(stack) - 1 : stack'[i] = stack[i]
  BY EndsFacts DEF Lower
<1>3. ASSUME NEW i \in 1..Len(stack')
      PROVE  i \in 1..Len(stack) - 1 /\ i \in 1..Len(stack) /\ stack'[i] = stack[i]
  BY <1>2
<1>4. \A i \in 1..Len(stack') - 1 : stack'[i].phase \in Waits
  <2> TAKE i \in 1..Len(stack') - 1
  <2>1. i \in 1..Len(stack') BY <1>2
  <2> QED BY <1>3, <2>1 DEF Shaped
<1>5. ASSUME NEW i \in 1..Len(stack'), NEW j \in 1..Len(stack'), i < j,
             stack'[i].phase \in Shadow
      PROVE  stack'[j].line \in SimpleLines
  BY <1>3, <1>5 DEF Shaped
<1>6. ASSUME NEW i \in 1..Len(stack'), stack'[i].line \in SimpleLines
      PROVE  stack'[i].phase \in Quiet
  BY <1>3, <1>6 DEF Shaped
<1> QED BY <1>1, <1>4, <1>5, <1>6 DEF Shaped

\* A simple line starts simple commands only.
LEMMA SimpleStarts ==
    ASSUME TInv, SimpleConditions, Shaped, Requests, StartsPart,
           ThePart.cmd.k \notin SimpleKinds
    PROVE  /\ Top.line \notin SimpleLines /\ ~shouldReturn /\ ~InTrap
           /\ \A i \in 1..Len(stack) : stack[i].phase \notin Shadow
<1>1. stack # <<>> /\ HasPart /\ Top.phase = "next"
  BY DEF StartsPart, Waiting
<1>2. /\ Top \in Frame /\ Parts \in Seq(Part) /\ Top.j \in 1..Len(Parts)
      /\ Len(stack) \in Nat \ {0} /\ Top = stack[Len(stack)] /\ DOMAIN stack = 1..Len(stack)
  <2>1. Top \in Frame /\ Parts \in Seq(Part) /\ Top.j \in 1..Len(Parts)
    BY <1>1, TopFacts DEF Fits, HasPart
  <2>2. Len(stack) \in Nat \ {0} /\ Top = stack[Len(stack)]
    BY <1>1, LastFrontFacts DEF TInv, Top
  <2>3. DOMAIN stack = 1..Len(stack) BY DEF TInv
  <2> QED BY <2>1, <2>2, <2>3
<1>3. Top.line \notin SimpleLines
  <2>1. DOMAIN Parts = 1..Len(Parts) BY <1>2
  <2> QED
    BY <1>2, <2>1 DEF SimpleConditions, SimpleLines, SimpleKinds, ThePart, Parts
<1>4. ASSUME NEW i \in 1..Len(stack) PROVE stack[i].phase \notin Shadow
  <2>1. CASE i = Len(stack) BY <1>1, <1>2, <2>1 DEF Shadow, Tests
  <2>2. CASE i # Len(stack)
    <3>1. i < Len(stack) /\ Len(stack) \in 1..Len(stack)
      <4>1. Len(stack) \in Nat \ {0} BY <1>2
      <4> QED BY <2>2, <4>1
    <3> QED BY <1>2, <1>3, <3>1 DEF Shaped
  <2> QED BY <2>1, <2>2
<1>5. ~InTrap BY <1>2, <1>4 DEF InTrap, Shadow
<1>6. ~shouldReturn BY <1>1, <1>5 DEF Requests, OnTheWay
<1> QED BY <1>3, <1>4, <1>5, <1>6

\* The top frame is the last one and waits in a phase or stands at a part.
LEMMA DeedTop ==
    ASSUME TInv, Shaped, Deed
    PROVE  /\ stack # <<>> /\ Len(stack) \in Nat \ {0} /\ Top = stack[Len(stack)]
           /\ Top.line \in SimpleLines => Top.phase \in Quiet
<1>1. stack # <<>>
  BY DEF Deed, Ending, Returning, Nesting, Invoking, Chosen, Again, Answered, Trapping, Trapped,
     Passing, Farewell, Popping, Goes, Calls, Ends
<1>2. Len(stack) \in Nat \ {0} /\ Top = stack[Len(stack)]
  BY <1>1, LastFrontFacts DEF TInv, Top
<1> QED BY <1>1, <1>2 DEF Shaped

LEMMA DeedShaped ==
    ASSUME TInv, SimpleConditions, Shaped, Requests, TrapsKnown, prog' = prog, Deed
    PROVE  Shaped'
<1>1. Top.line \in SimpleLines => Top.phase \in Quiet BY DeedTop
<1>2. ASSUME NEW p \in Quiet, Goes(p) PROVE Shaped' BY <1>2, ShapedGoes
<1>3. CASE Ending \/ Returning \/ Answered \/ Trapped \/ Passing
  <2>1. \E p \in Quiet : Goes(p)
    BY <1>3 DEF Ending, Returning, Answered, Trapped, Passing, Quiet
  <2> QED BY <1>2, <2>1
<1>4. CASE Nesting
  <2>1. PICK p \in {"line", "branch", "cond", "wcond", "for", "source"}, l \in Lines :
           Calls(p, l) /\ (p \in Tests => l \in TestLines)
    BY <1>4 DEF Nesting
  <2>2. Top.line \notin SimpleLines BY <1>4, SimpleStarts DEF Nesting
  <2>3. p \in Waits /\ (p \in Shadow => l \in SimpleLines)
    BY <2>1 DEF Waits, Shadow, Tests, SimpleLines
  <2> QED BY <2>1, <2>2, <2>3, ShapedCalls
<1>5. CASE Invoking
  <2>1. PICK l \in Lines : Calls("call", l) BY <1>5 DEF Invoking
  <2>2. Top.line \notin SimpleLines
    BY <1>5, SimpleStarts DEF Invoking, SimpleKinds
  <2>3. "call" \in Waits /\ "call" \notin Shadow
    BY DEF Waits, Shadow, Tests
  <2> QED BY <2>1, <2>2, <2>3, ShapedCalls
<1>6. CASE Chosen
  <2>1. PICK p \in {"branch", "wbody", "source"}, l \in Lines :
           Calls(p, l) /\ (p = "source" => l \in TestLines)
    BY <1>6 DEF Chosen
  <2>2. Top.line \notin SimpleLines
    BY <1>1, <1>6 DEF Chosen, Tests, Quiet
  <2>3. p \in Waits /\ (p \in Shadow => l \in SimpleLines)
    BY <2>1 DEF Waits, Shadow, Tests, SimpleLines
  <2> QED BY <2>1, <2>2, <2>3, ShapedCalls
<1>7. CASE Again
  <2>1. PICK p \in {"wcond", "for"}, l \in Lines :
           Calls(p, l) /\ (p = "wcond" => l \in TestLines)
    BY <1>7 DEF Again
  <2>2. Top.line \notin SimpleLines BY <1>1, <1>7 DEF Again, Quiet
  <2>3. p \in Waits /\ (p \in Shadow => l \in SimpleLines)
    BY <2>1 DEF Waits, Shadow, Tests, SimpleLines
  <2> QED BY <2>1, <2>2, <2>3, ShapedCalls
<1>8. CASE Trapping
  <2>1. Calls("err", errTrap) /\ errTrap \in SimpleLines
    BY <1>8 DEF Trapping, TrapsKnown, SimpleLines
  <2> QED BY <2>1, ShapedCalls DEF Waits, Shadow
<1>9. CASE Farewell
  <2>1. Calls("trap", exitTrap) /\ exitTrap \in SimpleLines
    BY <1>9 DEF Farewell, TrapsKnown, SimpleLines
  <2> QED BY <2>1, ShapedCalls DEF Waits, Shadow
<1>10. CASE Popping BY <1>10, ShapedEnds DEF Popping
<1> QED BY <1>3, <1>4, <1>5, <1>6, <1>7, <1>8, <1>9, <1>10 DEF Deed

(***************************************************************************)
(* Requests.                                                               *)
(***************************************************************************)
\* Nobody asks for a return.
LEMMA NobodyAsks ==
    ASSUME \A i \in 1..Len(frames') - 1 : ~frames'[i].requested, ~shouldReturn'
    PROVE  Requests'
BY DEF Requests

\* The top frame is in a phase on the way, and no condition waits.
LEMMA AskedGoes ==
    ASSUME TInv, NEW p, Goes(p), p \notin Tests, p \in OnTheWay,
           \A i \in 1..Len(frames') - 1 : ~frames'[i].requested,
           \A i \in 1..Len(stack) - 1 : stack[i].phase \notin Tests
    PROVE  Requests'
<1>1. /\ Len(stack) \in Nat \ {0} /\ Len(stack') = Len(stack)
      /\ \A i \in 1..Len(stack) - 1 : stack'[i] = stack[i]
      /\ stack'[Len(stack)].phase = p
  BY GoesFacts DEF Lower
<1>2. Top' = stack'[Len(stack)] BY <1>1 DEF Top, Last
<1>3. ASSUME NEW i \in 1..Len(stack') PROVE stack'[i].phase \notin Tests
  <2>1. CASE i = Len(stack) BY <1>1, <2>1
  <2>2. CASE i # Len(stack) BY <1>1, <2>2
  <2> QED BY <2>1, <2>2
<1> QED BY <1>1, <1>2, <1>3 DEF Requests

\* A frame that waits for a trap or is in the shadow of one.
LEMMA StillTrapped ==
    ASSUME TInv, NEW i \in 1..Len(stack) - 1, stack[i].phase \in {"err", "trap"},
           NEW p, Goes(p)
    PROVE  InTrap'
<1>1. /\ Len(stack) \in Nat \ {0} /\ stack'[i] = stack[i] /\ DOMAIN stack' = 1..Len(stack)
  BY GoesFacts DEF Lower
<1>2. i \in DOMAIN stack' BY <1>1
<1> QED BY <1>1, <1>2 DEF InTrap

\* A trap's line begins.
LEMMA AskedTraps ==
    ASSUME TInv, Requests, NEW p \in {"err", "trap"}, NEW l, Calls(p, l),
           frames' = frames, Top.phase \notin Tests
    PROVE  Requests'
<1>1. /\ Len(stack) \in Nat \ {0} /\ Len(stack') = Len(stack) + 1
      /\ \A i \in 1..Len(stack) - 1 : stack'[i] = stack[i]
      /\ stack'[Len(stack)].phase = p /\ stack'[Len(stack) + 1].phase = "next"
      /\ DOMAIN stack' = 1..Len(stack) + 1
  BY CallsFacts DEF Lower
<1>2. InTrap'
  <2>1. Len(stack) \in DOMAIN stack' BY <1>1
  <2> QED BY <1>1, <2>1 DEF InTrap
<1>3. shouldReturn' = shouldReturn BY DEF shouldReturn
<1>4. ASSUME shouldReturn, NEW i \in 1..Len(stack') PROVE stack'[i].phase \notin Tests
  <2>1. CASE i \in {Len(stack), Len(stack) + 1} BY <1>1, <2>1 DEF Tests
  <2>2. CASE i \in 1..Len(stack) - 1
    <3>1. i \in 1..Len(stack) BY <2>2
    <3> QED BY <1>1, <1>4, <2>2, <3>1 DEF Requests
  <2> QED BY <1>1, <2>1, <2>2
<1> QED BY <1>2, <1>3, <1>4 DEF Requests

LEMMA DeedRequests ==
    ASSUME TInv, Balanced, SimpleConditions, Shaped, Requests, Deed
    PROVE  Requests'
<1> DEFINE R == [requested : BOOLEAN, code : Int]
<1>1. /\ frames \in Seq(R) /\ Len(frames) \in Nat
      /\ \A i \in 1..Len(frames) - 1 : ~frames[i].requested
  BY DEF TInv, RestOK, Requests
<1>2. /\ stack # <<>> /\ Len(stack) \in Nat \ {0} /\ Top = stack[Len(stack)]
      /\ DOMAIN stack = 1..Len(stack)
  <2>1. DOMAIN stack = 1..Len(stack) BY DEF TInv
  <2> QED BY <2>1, DeedTop
<1>3. ASSUME frames' = frames, ~shouldReturn PROVE Requests'
  <2>1. ~shouldReturn' BY <1>3 DEF shouldReturn
  <2> QED BY <1>1, <1>3, <2>1, NobodyAsks
<1>4. ASSUME frames' = frames, NEW p \in OnTheWay, p \notin Tests, Goes(p) PROVE Requests'
  <2>1. CASE shouldReturn
    <3>1. \A i \in 1..Len(stack) - 1 : stack[i].phase \notin Tests
      BY <1>2, <2>1 DEF Requests
    <3>2. \A i \in 1..Len(frames') - 1 : ~frames'[i].requested
      BY <1>1, <1>4
    <3> QED BY <1>4, <3>1, <3>2, AskedGoes
  <2> QED BY <1>3, <1>4, <2>1
<1>5. CASE Ending BY <1>4, <1>5 DEF Ending, Same, OnTheWay, Tests
<1>6. CASE Trapped BY <1>4, <1>6 DEF Trapped, OnTheWay, Tests
<1>7. CASE Passing
  <2>1. frames' = frames BY <1>7 DEF Passing, Same
  <2>2. CASE Goes("checked") \/ Goes("leave")
    BY <1>4, <2>1, <2>2 DEF OnTheWay, Tests
  <2>3. CASE ~shouldReturn BY <1>3, <2>1, <2>3
  <2>4. CASE Top.phase = "next" /\ Goes("skipped") /\ shouldReturn
    <3>1. InTrap BY <1>2, <2>4 DEF Requests, OnTheWay
    <3>2. PICK i \in 1..Len(stack) : stack[i].phase \in {"err", "trap"}
      BY <1>2, <3>1 DEF InTrap
    <3>3. i \in 1..Len(stack) - 1 BY <1>2, <2>4, <3>2
    <3>4. InTrap' BY <2>4, <3>2, <3>3, StillTrapped
    <3>5. /\ Len(stack') = Len(stack) /\ stack'[Len(stack)].phase = "skipped"
          /\ \A k \in 1..Len(stack) - 1 : stack'[k] = stack[k]
      BY <2>4, GoesFacts DEF Lower
    <3>6. ASSUME NEW k \in 1..Len(stack') PROVE stack'[k].phase \notin Tests
      <4>1. CASE k = Len(stack) BY <3>5, <4>1 DEF Tests
      <4>2. CASE k # Len(stack)
        <5>1. k \in 1..Len(stack) - 1 /\ k \in 1..Len(stack)
          <6>1. k \in 1..Len(stack) /\ Len(stack) \in Nat BY <1>2, <3>5
          <6> QED BY <4>2, <6>1
        <5> QED BY <2>4, <3>5, <5>1 DEF Requests
      <4> QED BY <4>1, <4>2
    <3> QED BY <1>1, <2>1, <3>4, <3>6 DEF Requests
  <2> QED BY <1>7, <2>2, <2>3, <2>4 DEF Passing
<1>8. CASE Returning
  <2>1. \A i \in 1..Len(stack) : stack[i].phase \notin Shadow
    BY <1>8, SimpleStarts DEF Returning, SimpleKinds
  <2>2. \A i \in 1..Len(stack) - 1 : stack[i].phase \notin Tests
    BY <1>2, <2>1 DEF Shadow
  <2>3. \A i \in 1..Len(frames') - 1 : ~frames'[i].requested
    <3> DEFINE e == [requested |-> TRUE, code |-> ThePart.cmd.n]
               S == R \cup {e}
    <3>1. frames' = IF frames = <<>> THEN frames ELSE [frames EXCEPT ![Len(frames)] = e]
      BY <1>8 DEF Returning
    <3> HIDE DEF e, R
    <3>2. frames \in Seq(S) /\ e \in S BY <1>1
    <3> HIDE DEF S
    <3>3. CASE frames = <<>> BY <1>1, <3>1, <3>3
    <3>4. CASE frames # <<>>
      <4>1. /\ Len(frames') = Len(frames)
            /\ \A i \in 1..Len(frames) - 1 : frames'[i] = frames[i]
        BY <3>1, <3>2, <3>4, SetLastFacts
      <4> QED BY <1>1, <4>1
    <3> QED BY <3>3, <3>4
  <2>4. Goes("done") BY <1>8 DEF Returning
  <2> QED BY <2>2, <2>3, <2>4, AskedGoes DEF OnTheWay, Tests
<1>9. CASE Nesting \/ Chosen \/ Again
  <2>1. frames' = frames BY <1>9 DEF Nesting, Chosen, Again, Same
  <2>2. ~shouldReturn
    <3>1. CASE Nesting BY <3>1, SimpleStarts DEF Nesting
    <3>2. CASE Chosen
      <4>1. Len(stack) \in 1..Len(stack) /\ Top.phase \in Tests
        BY <1>2, <3>2 DEF Chosen
      <4> QED BY <1>2, <4>1 DEF Requests
    <3>3. CASE Again BY <3>3 DEF Again
    <3> QED BY <1>9, <3>1, <3>2, <3>3
  <2> QED BY <1>3, <2>1, <2>2
<1>10. CASE Invoking
  <2> DEFINE e == [requested |-> FALSE, code |-> 0]
  <2>1. frames' = Append(frames, e) /\ ~shouldReturn
    BY <1>10, SimpleStarts DEF Invoking, SimpleKinds
  <2>2. e \in R /\ ~e.requested OBVIOUS
  <2> HIDE DEF e, R
  <2>3. /\ Len(frames') = Len(frames) + 1 /\ frames'[Len(frames) + 1] = e
        /\ \A i \in 1..Len(frames) : frames'[i] = frames[i]
    BY <1>1, <2>1, <2>2, AppendFacts
  <2>4. ASSUME NEW i \in 1..Len(frames') - 1 PROVE ~frames'[i].requested
    <3>1. i \in 1..Len(frames) /\ frames'[i] = frames[i] BY <1>1, <2>3
    <3>2. CASE i = Len(frames)
      <4>1. frames # <<>> /\ Last(frames) = frames[i]
        BY <1>1, <3>1, <3>2 DEF Last
      <4> QED BY <2>1, <3>1, <4>1 DEF shouldReturn
    <3>3. CASE i # Len(frames)
      <4>1. i \in 1..Len(frames) - 1 BY <1>1, <3>1, <3>3
      <4> QED BY <1>1, <3>1, <4>1
    <3> QED BY <3>2, <3>3
  <2>5. ~shouldReturn'
    <3>1. Last(frames') = e BY <2>3 DEF Last
    <3> QED BY <2>2, <3>1 DEF shouldReturn
  <2> QED BY <2>4, <2>5, NobodyAsks
<1>11. CASE Answered
  <2>1. Top.phase = "call" /\ Turns("done") /\ frames' = Front(frames)
    BY <1>11 DEF Answered, Turns
  <2>2. frames # <<>> BY <1>1, <2>1, CountTurns DEF Balanced
  <2> HIDE DEF R
  <2>3. /\ Len(frames) \in Nat \ {0} /\ frames' \in Seq(R) /\ Len(frames') = Len(frames) - 1
        /\ \A i \in 1..Len(frames) - 1 : frames'[i] = frames[i]
    BY <1>1, <2>1, <2>2, LastFrontFacts
  <2>4. \A i \in 1..Len(frames') : ~frames'[i].requested BY <1>1, <2>3
  <2>5. ~shouldReturn'
    <3>1. ASSUME frames' # <<>> PROVE ~Last(frames').requested
      <4>1. Len(frames') \in Nat \ {0} /\ Last(frames') = frames'[Len(frames')]
        BY <2>3, <3>1, LastFrontFacts
      <4>2. PICK k \in 1..Len(frames') : k = Len(frames') BY <4>1
      <4> QED BY <2>4, <4>1, <4>2
    <3> QED BY <3>1 DEF shouldReturn
  <2>6. \A i \in 1..Len(frames') - 1 : ~frames'[i].requested
    BY <2>3, <2>4
  <2> QED BY <2>5, <2>6, NobodyAsks
<1>12. CASE Trapping BY <1>12, AskedTraps DEF Trapping, Tests
<1>13. CASE Farewell BY <1>13, AskedTraps DEF Farewell, Same, Tests
<1>14. CASE Popping
  <2>1. Ends /\ frames' = frames BY <1>14 DEF Popping, Same
  <2>2. CASE ~shouldReturn BY <1>3, <2>1, <2>2
  <2>3. CASE shouldReturn
    <3>1. /\ Len(stack') = Len(stack) - 1 /\ DOMAIN stack' = 1..Len(stack) - 1
          /\ \A i \in 1..Len(stack) - 1 : stack'[i] = stack[i]
          /\ stack' # <<>> => Len(stack) > 1 /\ Last(stack') = stack[Len(stack) - 1]
      BY <2>1, EndsFacts DEF Lower
    <3>2. \A i \in 1..Len(stack') : stack'[i].phase \notin Tests
      BY <1>2, <2>3, <3>1 DEF Requests
    <3>3. ASSUME stack' # <<>> PROVE Top'.phase \in OnTheWay \/ InTrap'
      <4>1. PICK k \in 1..Len(stack) - 1 : k = Len(stack) - 1
        <5>1. Len(stack) \in Nat /\ Len(stack) > 1 BY <1>2, <3>1, <3>3
        <5> QED BY <5>1
      <4>2. Top' = stack[k] /\ stack'[k] = stack[k] /\ k \in DOMAIN stack'
        BY <3>1, <3>3, <4>1 DEF Top
      <4>3. stack[k].phase \in Waits /\ stack[k].phase \notin Tests
        BY <1>2, <2>3, <4>1 DEF Shaped, Requests
      <4> QED BY <4>2, <4>3 DEF Waits, Shadow, OnTheWay, InTrap
    <3> QED BY <1>1, <2>1, <3>2, <3>3 DEF Requests
  <2> QED BY <2>2, <2>3
<1> QED
  BY <1>5, <1>6, <1>7, <1>8, <1>9, <1>10, <1>11, <1>12, <1>13, <1>14 DEF Deed

(***************************************************************************)
(* The traps: which there are, and which are owed.                         *)
(***************************************************************************)
\* A trap that is owed is in force, or saved by a call that puts it back; the
\* outermost call saved none.
OwedInv ==
    /\ owed \subseteq {exitTrap} \cup {stack[i].saved : i \in 1..Len(stack)}
    /\ IF stack = <<>> THEN exitTrap = None ELSE stack[1].saved = None

LEMMA DeedMoves ==
    ASSUME Deed
    PROVE  (\E p : Turns(p)) \/ (Ends /\ exitTrap' = Top.saved)
BY DEF Deed, Ending, Returning, Nesting, Invoking, Chosen, Again, Answered, Trapping, Trapped,
   Passing, Farewell, Popping, Turns

LEMMA SavedTurns ==
    ASSUME TInv, NEW p, Turns(p)
    PROVE  /\ Len(stack) \in Nat \ {0} /\ Len(stack') \in {Len(stack), Len(stack) + 1}
           /\ \A i \in 1..Len(stack) : stack'[i].saved = stack[i].saved
           /\ Len(stack') # Len(stack) => stack'[Len(stack')].saved \in {exitTrap, None}
<1>1. /\ Len(stack) \in Nat \ {0} /\ Top = stack[Len(stack)]
      /\ Len(stack') \in {Len(stack), Len(stack) + 1}
      /\ \A i \in 1..Len(stack) - 1 : stack'[i] = stack[i]
      /\ stack'[Len(stack)].saved = Top.saved
      /\ Len(stack') # Len(stack) => stack'[Len(stack')].saved \in {exitTrap, None}
  BY GoesFacts, CallsFacts DEF Turns, Lower
<1>2. ASSUME NEW i \in 1..Len(stack) PROVE stack'[i].saved = stack[i].saved
  <2>1. CASE i = Len(stack) BY <1>1, <2>1
  <2>2. CASE i # Len(stack) BY <1>1, <2>2
  <2> QED BY <2>1, <2>2
<1> QED BY <1>1, <1>2

\* What a step does to the traps.
TrapStep ==
    /\ errTrap' \in {errTrap, None} \cup TrapLines
    /\ exitTrap' \in {exitTrap, None, Top.saved} \cup TrapLines
    /\ owed' \subseteq (owed \ {exitTrap}) \cup {exitTrap'}

LEMMA ShellTraps ==
    ASSUME ProgramAssumption, TInv, TrapInv, Shell
    PROVE  TrapStep
<1>1. CASE TrapExit
  <2>1. stack # <<>> /\ HasPart /\ ThePart.cmd.k = "trap_exit"
    BY <1>1, AtPartFacts DEF TrapExit
  <2>2. ThePart.cmd.line \in TrapLines \cup {None} BY <2>1, TestLinesOf
  <2>3. exitTrap' = ThePart.cmd.line /\ errTrap' = errTrap
    BY <1>1 DEF TrapExit
  <2>4. owed' = (owed \ {exitTrap}) \cup
                  (IF ThePart.cmd.line = None THEN {} ELSE {ThePart.cmd.line})
    BY <1>1 DEF TrapExit
  <2> QED BY <2>2, <2>3, <2>4 DEF TrapStep
<1>2. CASE TrapErr
  <2>1. stack # <<>> /\ HasPart /\ ThePart.cmd.k = "trap_err"
    BY <1>2, AtPartFacts DEF TrapErr
  <2>2. ThePart.cmd.line \in TrapLines \cup {None} BY <2>1, TestLinesOf
  <2>3. errTrap' = ThePart.cmd.line /\ exitTrap' = exitTrap /\ owed' = owed
    BY <1>2 DEF TrapErr
  <2> QED BY <2>2, <2>3 DEF TrapStep
<1>3. CASE RunExitTrap BY <1>3 DEF RunExitTrap, TrapStep
<1>4. CASE Pop
  <2>1. exitTrap = None
    BY <1>4 DEF Pop, Waiting, ExitTrapDue, TrapInv, InForce
  <2>2. None \notin owed BY DEF ProgramAssumption, TInv, RestOK
  <2>3. owed' = owed /\ exitTrap' = Top.saved /\ errTrap' = errTrap
    BY <1>4 DEF Pop, Restored
  <2> QED BY <2>1, <2>2, <2>3 DEF TrapStep
<1>5. CASE UNCHANGED <<exitTrap, errTrap, owed>> BY <1>5 DEF TrapStep
<1>6. \/ TrapExit \/ TrapErr \/ RunExitTrap \/ Pop \/ UNCHANGED <<exitTrap, errTrap, owed>>
  BY DEF Shell, globals, SkipPart, EmptyPart, RunCommand, ExtendedTest, ExitBuiltin,
     ReturnBuiltin, SetErrexit, DefineFunction, StartSubshell,
     StartGroup, StartBash, LineDone, BranchDone, StartIf, IfCondDone, StartCase,
     StartWhile, WhileCondDone, WhileBodyDone, StartFor, ForBodyDone, StartSource,
     SourceLineDone, CallFunction, CallDone, RunErrTrap, ErrTrapDone, NoErrTrap,
     Errexit, NextPart, ReturnFromLine, EndOfLine
<1> QED BY <1>1, <1>2, <1>3, <1>4, <1>5, <1>6

LEMMA TrapsStayKnown ==
    ASSUME TInv, TrapsKnown, TrapStep, prog' = prog, Deed
    PROVE  TrapsKnown'
<1>1. TrapLines' = TrapLines BY DEF TrapLines, AllCmds
<1>2. stack # <<>> /\ Len(stack) \in Nat \ {0} /\ Top = stack[Len(stack)]
  <2>1. stack # <<>>
    BY DEF Deed, Ending, Returning, Nesting, Invoking, Chosen, Again, Answered, Trapping,
       Trapped, Passing, Farewell, Popping, Goes, Calls, Ends
  <2> QED BY <2>1, LastFrontFacts DEF TInv, Top
<1>3. \A i \in 1..Len(stack) : stack[i].saved \in TrapLines \cup {None}
  BY DEF TrapsKnown
<1>4. /\ exitTrap \in TrapLines \cup {None}
      /\ exitTrap' \in TrapLines \cup {None} /\ errTrap' \in TrapLines \cup {None}
  BY <1>2, <1>3 DEF TrapsKnown, TrapStep
<1>5. ASSUME NEW i \in 1..Len(stack') PROVE stack'[i].saved \in TrapLines \cup {None}
  <2>1. CASE \E p : Turns(p)
    <3>1. /\ Len(stack') \in {Len(stack), Len(stack) + 1}
          /\ \A k \in 1..Len(stack) : stack'[k].saved = stack[k].saved
          /\ Len(stack') # Len(stack) => stack'[Len(stack')].saved \in {exitTrap, None}
      BY <2>1, SavedTurns
    <3>2. CASE i \in 1..Len(stack) BY <1>3, <3>1, <3>2
    <3>3. CASE i \notin 1..Len(stack)
      <4>1. i = Len(stack') /\ Len(stack') # Len(stack)
        BY <1>2, <3>1, <3>3
      <4> QED BY <1>4, <3>1, <4>1
    <3> QED BY <3>2, <3>3
  <2>2. CASE Ends BY <1>3, <2>2, EndsFacts DEF Lower
  <2> QED BY <2>1, <2>2, DeedMoves
<1> QED BY <1>1, <1>4, <1>5 DEF TrapsKnown

LEMMA OwedStays ==
    ASSUME TInv, OwedInv, TrapStep, Deed
    PROVE  OwedInv'
<1>1. owed' \subseteq {stack[i].saved : i \in 1..Len(stack)} \cup {exitTrap'}
  BY DEF OwedInv, TrapStep
<1>2. CASE \E p : Turns(p)
  <2>1. /\ Len(stack) \in Nat \ {0} /\ Len(stack') \in {Len(stack), Len(stack) + 1}
        /\ \A k \in 1..Len(stack) : stack'[k].saved = stack[k].saved
    BY <1>2, SavedTurns
  <2>2. \A k \in 1..Len(stack) : k \in 1..Len(stack') BY <2>1
  <2>3. stack # <<>> /\ stack' # <<>> /\ 1 \in 1..Len(stack) BY <2>1
  <2>4. {stack[i].saved : i \in 1..Len(stack)} \subseteq {stack'[i].saved : i \in 1..Len(stack')}
    BY <2>1, <2>2
  <2>5. stack'[1].saved = None BY <2>1, <2>3 DEF OwedInv
  <2> QED BY <1>1, <2>3, <2>4, <2>5 DEF OwedInv
<1>3. CASE Ends /\ exitTrap' = Top.saved
  <2>1. /\ Len(stack) \in Nat \ {0} /\ Top = stack[Len(stack)] /\ Len(stack') = Len(stack) - 1
        /\ \A i \in 1..Len(stack) - 1 : stack'[i] = stack[i]
        /\ stack # <<>>
    BY <1>3, EndsFacts DEF Lower, Ends
  <2>2. {stack[i].saved : i \in 1..Len(stack)} \subseteq
           {stack'[i].saved : i \in 1..Len(stack')} \cup {Top.saved}
    <3> SUFFICES ASSUME NEW i \in 1..Len(stack), stack[i].saved # Top.saved
                 PROVE  i \in 1..Len(stack') /\ stack'[i].saved = stack[i].saved
      OBVIOUS
    <3>1. i # Len(stack) BY <2>1
    <3> QED BY <2>1, <3>1
  <2>3. IF stack' = <<>> THEN exitTrap' = None ELSE stack'[1].saved = None
    <3>1. CASE stack' = <<>>
      <4>1. Len(stack') = 0 /\ Len(stack) = 1 BY <2>1, <3>1
      <4>2. exitTrap' = stack[1].saved /\ stack[1].saved = None
        BY <1>3, <2>1, <4>1 DEF OwedInv
      <4> QED BY <3>1, <4>2
    <3>2. CASE stack' # <<>>
      <4>1. 1 \in 1..Len(stack) - 1 BY <1>3, <2>1, <3>2, EndsFacts
      <4> QED BY <2>1, <3>2, <4>1 DEF OwedInv
    <3> QED BY <3>1, <3>2
  <2> QED BY <1>1, <1>3, <2>2, <2>3 DEF OwedInv
<1> QED BY <1>2, <1>3, DeedMoves

(***************************************************************************)
(* The invariant with its counts and traps.                                *)
(***************************************************************************)
CInv == IInv /\ Balanced /\ TrapsKnown /\ RInv /\ OwedInv

LEMMA InitCInv == ASSUME ProgramAssumption, Init PROVE CInv
<1> DEFINE f == NewFrame(Main, None)
<1>1. f.phase = "next" /\ f.saved = None BY DEF NewFrame
<1>2. stack = <<f>> BY DEF Init
<1> HIDE DEF f
<1>3. Len(stack) = 1 /\ stack[1] = f /\ DOMAIN stack = {1} /\ stack # <<>>
  BY <1>2
<1>4. IInv BY InitInv
<1>5. Balanced
  <2>1. \A q : q # "next" => {i \in DOMAIN stack : stack[i].phase = q} = {}
    BY <1>1, <1>3
  <2>2. InPhase("call") = 0 /\ InPhase("err") = 0
    BY <2>1, FS_EmptySet DEF InPhase
  <2>3. Len(frames) = 0 /\ ~inErr BY DEF Init
  <2> QED BY <2>2, <2>3 DEF Balanced
<1>6. TrapsKnown /\ OwedInv BY <1>1, <1>3 DEF Init, TrapsKnown, OwedInv
<1>7. Shaped BY <1>1, <1>3 DEF Shaped, Quiet
<1>8. Requests
  <2>1. frames = <<>> BY DEF Init
  <2> QED BY <2>1 DEF Requests, shouldReturn
<1> QED BY <1>4, <1>5, <1>6, <1>7, <1>8 DEF CInv, RInv

LEMMA StepCInv == ASSUME ProgramAssumption, CInv, [Next]_vars PROVE CInv'
<1>1. IInv' BY StepInv DEF CInv
<1>2. CASE Shell
  <2>1. TInv /\ TrapInv /\ Deed BY <1>2, ShellDeeds DEF CInv, IInv
  <2>2. TrapStep BY <1>2, <2>1, ShellTraps
  <2>3. prog' = prog
    BY <1>2 DEF Shell, SkipPart, EmptyPart, RunCommand, ExtendedTest, ExitBuiltin,
       ReturnBuiltin, SetErrexit, TrapExit, TrapErr, DefineFunction, StartSubshell,
       StartGroup, StartBash, LineDone, BranchDone, StartIf, IfCondDone, StartCase,
       StartWhile, WhileCondDone, WhileBodyDone, StartFor, ForBodyDone, StartSource,
       SourceLineDone, CallFunction, CallDone, RunErrTrap, ErrTrapDone, NoErrTrap,
       Errexit, NextPart, ReturnFromLine, EndOfLine, RunExitTrap, Pop
  <2>4. Balanced' BY <2>1, DeedBalanced DEF CInv
  <2>5. TrapsKnown' /\ OwedInv'
    BY <2>1, <2>2, <2>3, TrapsStayKnown, OwedStays DEF CInv
  <2>6. SimpleConditions' <=> SimpleConditions
    BY <2>3 DEF SimpleConditions, TestLines, TrapLines, AllCmds
  <2>7. ASSUME SimpleConditions PROVE Shaped' /\ Requests'
    BY <2>1, <2>3, <2>7, DeedShaped, DeedRequests DEF CInv, RInv
  <2> QED BY <1>1, <2>4, <2>5, <2>6, <2>7 DEF CInv, RInv
<1>3. CASE UNCHANGED vars
  <2>1. UNCHANGED <<prog, stack, ret, lastExit, exitTrap, errTrap, inErr, setE, funs, frames, owed>>
    BY <1>3 DEF vars
  <2>2. Balanced' BY <2>1 DEF CInv, Balanced, InPhase
  <2>3. TrapsKnown' /\ OwedInv'
    BY <2>1 DEF CInv, TrapsKnown, OwedInv, TrapLines, AllCmds
  <2>4. Shaped' <=> Shaped
    BY <2>1 DEF Shaped, SimpleLines, TestLines, TrapLines, AllCmds
  <2>5. Requests' <=> Requests
    BY <2>1 DEF Requests, shouldReturn, InTrap, Top
  <2>6. SimpleConditions' <=> SimpleConditions
    BY <2>1 DEF SimpleConditions, TestLines, TrapLines, AllCmds
  <2> QED BY <1>1, <2>2, <2>3, <2>4, <2>5, <2>6 DEF CInv, RInv
<1> QED BY <1>2, <1>3 DEF Next, Terminated

\* For every program: there is a function frame for every call in progress, the
\* ERR trap's guard is up while its line runs and only then; and where
\* conditions, sourced lines and traps are simple, no part of a function starts
\* after its return (executeShellLine, executeSimpleCommand).
THEOREM NestedCallsUnwind == Spec => []CallsUnwind
<1>1. Init => CInv BY InitCInv, ProgramAssumption
<1>2. CInv /\ [Next]_vars => CInv' BY StepCInv, ProgramAssumption
<1>3. CInv => CallsUnwind
  <2> SUFFICES ASSUME CInv PROVE ReturnEndsFunction
    BY DEF CInv, CallsUnwind
  <2> SUFFICES ASSUME SimpleConditions, StartsPart, shouldReturn PROVE InTrap
    BY DEF ReturnEndsFunction
  <2>1. stack # <<>> /\ Top.phase = "next" BY DEF StartsPart, Waiting
  <2> QED BY <2>1 DEF CInv, RInv, Requests, OnTheWay
<1> QED BY <1>1, <1>2, <1>3, PTL DEF Spec

\* For every program: when the shell is done, every EXIT trap that was set and
\* not replaced has run, however the lines were left (ExitTrapScope).
THEOREM ExitTrapsRun == Spec => []EveryExitTrapRuns
<1>1. Init => CInv BY InitCInv, ProgramAssumption
<1>2. CInv /\ [Next]_vars => CInv' BY StepCInv, ProgramAssumption
<1>3. CInv => EveryExitTrapRuns
  <2> SUFFICES ASSUME CInv, Over PROVE owed = {}
    BY DEF EveryExitTrapRuns
  <2>1. stack = <<>> /\ Len(stack) = 0 /\ owed \subseteq Lines /\ None \notin Lines
    BY ProgramAssumption DEF Over, CInv, IInv, TInv, RestOK, ProgramAssumption
  <2> QED BY <2>1 DEF CInv, OwedInv
<1> QED BY <1>1, <1>2, <1>3, PTL DEF Spec
=============================================================================
