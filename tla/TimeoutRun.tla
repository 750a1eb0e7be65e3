----------------------------- MODULE TimeoutRun -----------------------------
(***************************************************************************)
(* commands/timeout.cpp: start a command, wait for it at most a duration,  *)
(* terminate it when it is still running.  The command ends whenever it    *)
(* likes, also between the end of the wait and TerminateProcess.  Time is  *)
(* counted in milliseconds of the model; the duration is cast to a DWORD,  *)
(* of which one value means for ever (INFINITE).                           *)
(***************************************************************************)
EXTENDS Integers

CONSTANTS
  Durations,   \* the durations asked for; 0 asks for no limit
  DwordMod,    \* 2^32 in the code
  MaxClock,    \* bound on the time the instance lets pass
  ChildCodes   \* the exit codes of the command

ASSUME TimeoutAssumption ==
  /\ DwordMod \in Nat \ {0} /\ MaxClock \in Nat
  /\ Durations \subseteq Nat /\ ChildCodes \subseteq Nat

VARIABLES
  wait,    \* timeout itself: [duration, pc, status]
  child,   \* the command: [state |-> "none" | "running" | "ended", code]
  clock    \* the time since the command was started

timeoutVars == <<wait, child, clock>>

INFINITE == DwordMod - 1

TimeoutInit ==
  /\ wait \in {[duration |-> d, pc |-> "start", status |-> 0] : d \in Durations}
  /\ child = [state |-> "none", code |-> 0]
  /\ clock = 0

Mut_timeout_ms == wait.duration % DwordMod

Mut_clamped == IF wait.duration = 0 \/ wait.duration >= DwordMod THEN INFINITE ELSE wait.duration

timeout_ms == IF wait.duration = 0 THEN INFINITE ELSE wait.duration % DwordMod

Return(s) == wait' = [wait EXCEPT !.pc = "done", !.status = s]

\* CreateProcess fails: not found, or not to be executed.
LaunchFails ==
  /\ wait.pc = "start"
  /\ \E s \in {126, 127} : Return(s)
  /\ UNCHANGED <<child, clock>>

Launch ==
  /\ wait.pc = "start"
  /\ wait' = [wait EXCEPT !.pc = "waiting"]
  /\ child' = [child EXCEPT !.state = "running"]
  /\ UNCHANGED clock

ChildEnds ==
  /\ child.state = "running"
  /\ \E c \in ChildCodes : child' = [state |-> "ended", code |-> c]
  /\ UNCHANGED <<wait, clock>>

Tick ==
  /\ wait.pc = "waiting" /\ clock < MaxClock
  /\ clock' = clock + 1
  /\ UNCHANGED <<wait, child>>

\* WaitForSingleObject returns because the command has ended.
ChildWaited ==
  /\ wait.pc = "waiting" /\ child.state = "ended"
  /\ Return(child.code)
  /\ UNCHANGED <<child, clock>>

\* WaitForSingleObject returns WAIT_TIMEOUT.
WaitExpires ==
  /\ wait.pc = "waiting" /\ child.state = "running"
  /\ timeout_ms # INFINITE /\ clock >= timeout_ms
  /\ wait' = [wait EXCEPT !.pc = "expired"]
  /\ UNCHANGED <<child, clock>>

\* TerminateProcess, which does nothing to a command that has ended since.
Terminate ==
  /\ wait.pc = "expired"
  /\ Return(124)
  /\ child' = IF child.state = "running" THEN [state |-> "ended", code |-> 1] ELSE child
  /\ UNCHANGED clock

TimeoutNext ==
  \/ LaunchFails \/ Launch \/ ChildEnds \/ Tick
  \/ ChildWaited \/ WaitExpires \/ Terminate

\* Time passes and the system ends a wait; the command may run for ever.
TimeoutFairness == WF_timeoutVars(Tick) /\ WF_timeoutVars(WaitExpires)
                   /\ WF_timeoutVars(Terminate) /\ WF_timeoutVars(ChildWaited)

-----------------------------------------------------------------------------
\* Status 124 is given for a command that was still running when its duration
\* was over, any other one is the command's own, and nothing that was started
\* is left running.  A duration that does not fit a DWORD is excepted: it is
\* over too early (timeout.cpp: run).
StatusTellsOutcome ==
  wait.pc = "done" /\ child.state # "none" =>
    /\ child.state = "ended"
    /\ \/ wait.status = child.code
       \/ /\ wait.status = 124
          /\ wait.duration # 0
          /\ wait.duration < DwordMod => clock >= wait.duration

\* With a limit, timeout returns although the command may never end: unless the
\* limit is 0, or is cast to the value that means for ever (timeout.cpp: run).
Limited == wait.duration # 0 /\ wait.duration % DwordMod # INFINITE

TimeoutReturns == wait.pc = "waiting" /\ Limited ~> wait.pc = "done"
=============================================================================
