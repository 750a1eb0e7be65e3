---------------------------- MODULE OutputCapture ----------------------------
(***************************************************************************)
(* ffi/ffi.cpp: winux_execute runs a command in the calling thread with    *)
(* its output captured.  The write ends of two pipes are put into GLOBAL   *)
(* variables that every print looks at (utils/console.h); the pipes are    *)
(* read only after the command has ended.  So a command that prints more   *)
(* than a pipe holds waits for ever, and calls of two threads at one time  *)
(* print into each other's pipes.                                          *)
(*                                                                         *)
(* A pipe is named by its stream and the call that made it.  What is       *)
(* printed is the call it comes from, once per piece.                      *)
(***************************************************************************)
EXTENDS Integers, Sequences, FiniteSets

CONSTANTS
  Callers,    \* threads
  MaxCalls,   \* bound on the calls the instance makes
  PipeSize,   \* how many pieces a pipe holds
  Outputs     \* what a command can print: sequences over Streams

Streams == {"stdout", "stderr"}

ASSUME CaptureAssumption ==
  /\ MaxCalls \in Nat /\ PipeSize \in Nat
  /\ Outputs \subseteq Seq(Streams)

VARIABLES
  calls,     \* the calls so far: [by, pc, left, result, wrote, alone]
  capture,   \* g_capture_*: [active, stdout, stderr]; 0 is a null handle
  pipes,     \* [stream, call -> the pieces in the pipe]
  console    \* what was printed outside any capture: a set of calls

captureVars == <<calls, capture, pipes, console>>

NoCapture == [active |-> FALSE, stdout |-> 0, stderr |-> 0]

CaptureInit ==
  /\ calls = <<>>
  /\ capture = NoCapture
  /\ pipes = [s \in Streams |-> <<>>]
  /\ console = {}

InCall(c) == calls[c].pc # "returned"

Busy == {c \in DOMAIN calls : InCall(c)}

Mut_StartCall(t) ==
  /\ Len(calls) < MaxCalls
  /\ \A c \in Busy : calls[c].by # t
  /\ \E out \in Outputs :
       calls' = Append([c \in DOMAIN calls |-> [calls[c] EXCEPT !.alone = @ /\ ~InCall(c)]],
                       [by |-> t, pc |-> "command", left |-> out, wrote |-> out,
                        result |-> [s \in Streams |-> <<>>], alone |-> Busy = {}])
  /\ pipes' = [s \in Streams |-> Append(pipes[s], <<>>)]
  /\ capture' = [capture EXCEPT !.active = TRUE, !.stdout = Len(calls) + 1]
  /\ UNCHANGED console

\* OutputCapture's constructor makes the pipes and publishes their write ends.
StartCall(t) ==
  /\ Len(calls) < MaxCalls
  /\ \A c \in Busy : calls[c].by # t
  /\ \E out \in Outputs :
       calls' = Append([c \in DOMAIN calls |-> [calls[c] EXCEPT !.alone = @ /\ ~InCall(c)]],
                       [by |-> t, pc |-> "command", left |-> out, wrote |-> out,
                        result |-> [s \in Streams |-> <<>>], alone |-> Busy = {}])
  /\ pipes' = [s \in Streams |-> Append(pipes[s], <<>>)]
  /\ LET c == Len(calls) + 1 IN capture' = [active |-> TRUE, stdout |-> c, stderr |-> c]
  /\ UNCHANGED console

\* Where a print to stream s goes: getStdOut and getStdErr.
Target(s) == IF capture.active THEN capture[s] ELSE 0

\* The command prints a piece: into the pipe that is published, when it has
\* room; to the console without a capture; nowhere, when the write end of the
\* published pipe has been closed.
PrintPiece(c) ==
  /\ calls[c].pc = "command" /\ calls[c].left # <<>>
  /\ calls' = [calls EXCEPT ![c].left = Tail(@)]
  /\ LET s == Head(calls[c].left)
         p == Target(s)
     IN
     \/ /\ p = 0
        /\ console' = console \cup {c}
        /\ UNCHANGED pipes
     \/ /\ p # 0 /\ calls[p].pc = "command" /\ Len(pipes[s][p]) < PipeSize
        /\ pipes' = [pipes EXCEPT ![s][p] = Append(@, c)]
        /\ UNCHANGED console
     \/ /\ p # 0 /\ calls[p].pc # "command"
        /\ UNCHANGED <<pipes, console>>
  /\ UNCHANGED capture

\* The command ends; finish() closes the write ends and reads both pipes.
Finish(c) ==
  /\ calls[c].pc = "command" /\ calls[c].left = <<>>
  /\ calls' = [calls EXCEPT ![c].pc = "finished",
                            ![c].result = [s \in Streams |-> pipes[s][c]]]
  /\ pipes' = [s \in Streams |-> [pipes[s] EXCEPT ![c] = <<>>]]
  /\ UNCHANGED <<capture, console>>

\* The destructor ends the capture, whoever's it is by now.
ReturnCall(c) ==
  /\ calls[c].pc = "finished"
  /\ calls' = [calls EXCEPT ![c].pc = "returned"]
  /\ capture' = NoCapture
  /\ UNCHANGED <<pipes, console>>

CaptureStep(c) == PrintPiece(c) \/ Finish(c) \/ ReturnCall(c)

CaptureNext ==
  \/ \E t \in Callers : StartCall(t)
  \/ \E c \in DOMAIN calls : CaptureStep(c)

\* A call that can go on does; calls are made whenever somebody likes.
CaptureFairness == \A c \in 1..MaxCalls : WF_captureVars(c \in DOMAIN calls /\ CaptureStep(c))

-----------------------------------------------------------------------------
PiecesOn(s, out) == {i \in DOMAIN out : out[i] = s}

\* A call that no other one overlapped returns what its command printed, all of
\* it and nothing else, and nothing of it reached the console, also after calls
\* that did overlap; and when nothing is being executed, nothing is captured
\* (ffi.cpp: winux_execute, console.h: getStdOut).
CapturedIsOwn ==
  /\ \A c \in DOMAIN calls :
       calls[c].alone /\ calls[c].pc # "command" =>
         /\ c \notin console
         /\ \A s \in Streams :
              calls[c].result[s] = [i \in 1..Cardinality(PiecesOn(s, calls[c].wrote)) |-> c]
  /\ Busy = {} => ~capture.active

FitsPipes(out) == \A s \in Streams : Cardinality(PiecesOn(s, out)) <= PipeSize

\* A call whose command prints no more than the pipes hold returns, unless
\* another call starts meanwhile; more than that is never read
\* (ffi.cpp: OutputCapture::finish).
Pending == \E c \in DOMAIN calls : calls[c].alone /\ InCall(c) /\ FitsPipes(calls[c].wrote)

ExecuteReturns == Pending ~> ~Pending
=============================================================================
