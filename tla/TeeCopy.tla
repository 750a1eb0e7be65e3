------------------------------ MODULE TeeCopy ------------------------------
(***************************************************************************)
(* commands/tee.cpp: copy standard input to standard output and to several *)
(* files.  A file may not open, or may stop to take what is written.  A    *)
(* stream keeps lines in a buffer; once a write of the buffer has failed,  *)
(* the stream stays failed.  A file named twice has two streams, each with *)
(* a position of its own.  Nobody looks whether standard output took its   *)
(* line.                                                                   *)
(***************************************************************************)
EXTENDS Integers, Sequences

CONSTANTS
  TeeFiles,   \* the files that can be named
  Dash,       \* "-", which names standard output
  TeeArgs,    \* the operand lists tried
  MaxLines    \* bound on the lines of the input

ASSUME TeeAssumption ==
  /\ MaxLines \in Nat /\ Dash \notin TeeFiles
  /\ TeeArgs \subseteq Seq(TeeFiles \cup {Dash})

\* Lines are numbered; 0 stands for what a file held before.
VARIABLES
  tee,      \* [pc, args, append, exit (--output-error=exit), read, status]
  streams,  \* the open streams: [file, at (lines written), buffer, failed]
  printed,  \* the lines on standard output
  disk      \* [TeeFiles -> the lines in the file]

teeVars == <<tee, streams, printed, disk>>

Lines(n) == [i \in 1..n |-> i]

TeeInit ==
  /\ tee \in [pc : {"open"}, args : TeeArgs, append : BOOLEAN, exit : BOOLEAN,
              next : {1}, read : {0}, status : {0}]
  /\ streams = <<>>
  /\ printed = <<>>
  /\ disk = [f \in TeeFiles |-> <<0>>]

\* Lines b written to a file that holds d: after what it holds with -a, else
\* over it from the stream's position on.
Written(d, at, b) ==
  LET end == at + Len(b) IN
  IF tee.append THEN d \o b
  ELSE [k \in 1..(IF end > Len(d) THEN end ELSE Len(d)) |->
          IF k \in at + 1..end THEN b[k - at] ELSE d[k]]

\* An early return leaves the buffers unwritten: the vector of the streams frees
\* its storage and destroys no element.
Leave(s) == tee' = [tee EXCEPT !.pc = "done", !.status = s]

\* The operands are opened in order; "-" is skipped.
OpenNext ==
  /\ tee.pc = "open" /\ tee.next <= Len(tee.args)
  /\ tee' = [tee EXCEPT !.next = @ + 1]
  /\ LET f == tee.args[tee.next] IN
     \/ f = Dash /\ UNCHANGED <<streams, disk>>
     \/ /\ f # Dash
        /\ streams' = Append(streams, [file |-> f, at |-> 0, buffer |-> <<>>, failed |-> FALSE])
        /\ disk' = IF tee.append THEN disk ELSE [disk EXCEPT ![f] = <<>>]
  /\ UNCHANGED printed

\* One that cannot be opened ends tee: those before it have been truncated.
OpenFails ==
  /\ tee.pc = "open" /\ tee.next <= Len(tee.args) /\ tee.args[tee.next] # Dash
  /\ Leave(1)
  /\ UNCHANGED <<streams, printed, disk>>

OpenDone ==
  /\ tee.pc = "open" /\ tee.next > Len(tee.args)
  /\ tee' = [tee EXCEPT !.pc = "read", !.next = 1]
  /\ UNCHANGED <<streams, printed, disk>>

\* The next line goes to standard output, or is lost there; then to each file.
ReadLine ==
  /\ tee.pc = "read" /\ tee.read < MaxLines
  /\ tee' = [tee EXCEPT !.pc = "write", !.next = 1, !.read = @ + 1]
  /\ printed' = Append(printed, tee.read + 1) \/ UNCHANGED printed
  /\ UNCHANGED <<streams, disk>>

\* Stream i writes the lines b, its buffer and what comes with it.
Flush(i, b) ==
  LET s == streams[i] IN
  /\ disk' = [disk EXCEPT ![s.file] = Written(@, s.at, b)]
  /\ streams' = [streams EXCEPT ![i].at = @ + Len(b), ![i].buffer = <<>>]

\* The line is buffered; or the buffer is written, with success or without.
\* A failed stream takes nothing.  After a failure tee goes on with the next
\* file, or stops when it was asked to.
WriteLine ==
  LET i == tee.next
      s == streams[i]
  IN
  /\ tee.pc = "write" /\ i <= Len(streams)
  /\ \/ /\ ~s.failed
        /\ streams' = [streams EXCEPT ![i].buffer = Append(@, tee.read)]
        /\ tee' = [tee EXCEPT !.next = @ + 1]
        /\ UNCHANGED disk
     \/ /\ ~s.failed
        /\ Flush(i, Append(s.buffer, tee.read))
        /\ tee' = [tee EXCEPT !.next = @ + 1]
     \/ /\ streams' = [streams EXCEPT ![i].failed = TRUE]
        /\ IF tee.exit THEN Leave(1) ELSE tee' = [tee EXCEPT !.next = @ + 1]
        /\ UNCHANGED disk
  /\ UNCHANGED printed

LineDone ==
  /\ tee.pc = "write" /\ tee.next > Len(streams)
  /\ tee' = [tee EXCEPT !.pc = "read"]
  /\ UNCHANGED <<streams, printed, disk>>

EndOfInput ==
  /\ tee.pc = "read"
  /\ tee' = [tee EXCEPT !.pc = "close", !.next = 1]
  /\ UNCHANGED <<streams, printed, disk>>

Mut_CloseNext ==
  LET i == tee.next IN
  /\ tee.pc = "close" /\ i <= Len(streams)
  /\ \/ /\ IF streams[i].failed THEN UNCHANGED <<streams, disk>>
                                ELSE Flush(i, streams[i].buffer)
        /\ tee' = [tee EXCEPT !.next = @ + 1]
     \/ Leave(1) /\ UNCHANGED <<streams, disk>>
  /\ UNCHANGED printed

\* close writes what is buffered.  A stream that failed, now or at any line
\* before, ends tee with 1.
CloseNext ==
  LET i == tee.next
      s == streams[i]
  IN
  /\ tee.pc = "close" /\ i <= Len(streams)
  /\ \/ /\ ~s.failed
        /\ Flush(i, s.buffer)
        /\ tee' = [tee EXCEPT !.next = @ + 1]
     \/ /\ streams' = [streams EXCEPT ![i].failed = TRUE]
        /\ Leave(1)
        /\ UNCHANGED disk
  /\ UNCHANGED printed

CloseDone ==
  /\ tee.pc = "close" /\ tee.next > Len(streams)
  /\ Leave(0)
  /\ UNCHANGED <<streams, printed, disk>>

TeeNext ==
  \/ OpenNext \/ OpenFails \/ OpenDone \/ ReadLine \/ WriteLine
  \/ LineDone \/ EndOfInput \/ CloseNext \/ CloseDone

-----------------------------------------------------------------------------
\* Status 0 means that every file named got every line of the input in order,
\* instead of what it held, also when it was named twice; with -a after what it
\* held, which is kept: an error that was only warned about is not forgotten
\* (tee.cpp: the stream stays failed until its close).  It says nothing of
\* standard output, nor in which order the lines of two streams of one file
\* arrive with -a.
TeeZeroMeansCopied ==
  tee.pc = "done" /\ tee.status = 0 =>
    \A i \in DOMAIN tee.args : tee.args[i] # Dash =>
      LET f == tee.args[i]
          once == \A j \in DOMAIN tee.args : tee.args[j] = f => j = i
      IN
      /\ ~tee.append => disk[f] = Lines(tee.read)
      /\ tee.append => disk[f] # <<>> /\ Head(disk[f]) = 0
      /\ tee.append /\ once => disk[f] = <<0>> \o Lines(tee.read)
=============================================================================
