----------------------------- MODULE TailFollow -----------------------------
(***************************************************************************)
(* tail -f (src/commands/tail.cpp): the last lines of every file, then     *)
(* what other processes append to them, by polling.                        *)
(*                                                                         *)
(* With one file to follow follow_single_file polls it, by name or by      *)
(* descriptor; with several a loop of its own in the command body does, in *)
(* turns.  `files' is the directory; the processes that write, truncate,   *)
(* replace and remove files act between any two calls tail makes.          *)
(*                                                                         *)
(* A file is a sequence of chunks, what one write appends; every write     *)
(* makes a chunk of its own, numbered in the order of the writes.  The     *)
(* program keeps no record of its output: `timesOut' is history.           *)
(***************************************************************************)
EXTENDS Integers, Sequences, FiniteSets, SequencesExt

CONSTANTS Paths,      \* names of files
          Operands,   \* the command lines considered: sequences of names
          Options,    \* the settings considered
          MaxWrites,  \* bound: chunks written, before tail starts and after
          MaxFiles,   \* bound: files that ever exist
          MaxChurn    \* bound: truncations, replacements and removals, for
                      \* so many operands

Settings == [byName : BOOLEAN, retry : BOOLEAN, watch : BOOLEAN,
             lines : Nat, maxUnchanged : {-1} \cup Nat]

ASSUME TailAssumption ==
    /\ Operands \subseteq Seq(Paths) \ {<<>>}
    /\ \A o \in Operands : IsInjective(o)
    /\ Options \subseteq Settings
    /\ MaxWrites \in Nat /\ MaxFiles \in Nat
    /\ MaxChurn \in Seq(Nat)
    /\ \A o \in Operands : Len(o) <= Len(MaxChurn)

VARIABLES opts,      \* config
          operands,  \* files
          pc,        \* where the program is
          fileNo,    \* the operand or followed file at hand
          follow,    \* follow_files
          st,        \* what is known of each followed file
          inRead,    \* a read in progress: its file, position and end
          error,     \* any_error
          files,     \* the directory: the file each name leads to
          data,      \* the contents of every file there ever was
          cut,       \* history: those that were truncated
          writes,    \* chunks written so far
          churn,     \* truncations, replacements and removals so far
          pidAlive,  \* a process named with --pid runs
          timesOut   \* history: how often each chunk was printed

tail  == <<opts, operands, pc, fileNo, follow, st, inRead, error, timesOut>>
world == <<files, data, cut, writes, churn, pidAlive>>
tailVars == <<opts, operands, pc, fileNo, follow, st, inRead, error, timesOut,
              files, data, cut, writes, churn, pidAlive>>

Chunks == 1..MaxWrites
Ids    == 1..MaxFiles
None   == 0            \* no file: a name that leads nowhere, a stream not open

Twice == 2             \* bound: further prints of a chunk are not counted

Printed(chunks) ==
    timesOut' = [c \in Chunks |->
                  IF c \notin chunks \/ timesOut[c] = Twice THEN timesOut[c]
                  ELSE timesOut[c] + 1]

NoState == [valid |-> FALSE, id |-> None, fs |-> None, pos |-> 0, unchanged |-> 0]
NoRead  == [id |-> None, at |-> 0, end |-> 0]

Size(id) == Len(data[id])

\* get_file_state, file_states_equal: what a name leads to, None if nowhere.
get_file_state(p) == files[p]

Path  == follow[fileNo]
Mine  == st[Path]
There == get_file_state(Path)
Multi == Len(follow) > 1

\* The state of the file at hand, changed.
Set(s) == st' = [st EXCEPT ![Path] = s]

GoOn(label) == pc' = label

\* With several files the next one's turn, after the last the next iteration.
Onward ==
    IF fileNo < Len(follow)
    THEN fileNo' = fileNo + 1 /\ GoOn("poll")
    ELSE fileNo' = 1 /\ GoOn("check")

any_pid_alive == opts.watch => pidAlive

TailInit ==
    /\ opts \in Options
    /\ operands \in Operands
    /\ pc = "show" /\ fileNo = 1
    /\ follow = <<>>
    /\ st = [p \in Paths |-> NoState]
    /\ inRead = NoRead
    /\ error = FALSE
    /\ files = [p \in Paths |-> None]
    /\ data = <<>>
    /\ cut = {}
    /\ writes = 0
    /\ churn = 0
    /\ pidAlive = TRUE
    /\ timesOut = [c \in Chunks |-> 0]

(***************************************************************************)
(* The last lines of each operand.  The file is read to its end and closed *)
(* in one step: what is appended meanwhile counts as before or after it.   *)
(***************************************************************************)
output_tail(id) ==
    {data[id][k] : k \in {k \in 1..Size(id) : k > Size(id) - opts.lines}}

ShownOne ==
    /\ follow' = Append(follow, operands[fileNo])
    /\ IF fileNo < Len(operands)
       THEN fileNo' = fileNo + 1 /\ GoOn("show")
       ELSE fileNo' = 1 /\ GoOn("start")
    /\ UNCHANGED <<opts, operands, st, inRead, world>>

ShowFile ==
    /\ pc = "show"
    /\ get_file_state(operands[fileNo]) # None
    /\ Printed(output_tail(files[operands[fileNo]]))
    /\ ShownOne
    /\ UNCHANGED error

ShowMissing ==
    /\ pc = "show"
    /\ get_file_state(operands[fileNo]) = None
    /\ error' = (error \/ ~opts.retry)
    /\ ShownOne
    /\ UNCHANGED timesOut

(***************************************************************************)
(* Before the loop: where in each file following begins.                   *)
(***************************************************************************)
Following(id) ==
    [valid |-> TRUE, id |-> id, fs |-> id, pos |-> Size(id), unchanged |-> 0]

StartByName ==
    /\ pc = "start" /\ ~Multi /\ opts.byName
    /\ Set(IF There = None THEN NoState
           ELSE [NoState EXCEPT !.id = There, !.pos = Size(There)])
    /\ GoOn("check")
    /\ UNCHANGED <<opts, operands, fileNo, follow, inRead, error, timesOut, world>>

StartByDescriptor ==
    /\ pc = "start" /\ ~Multi /\ ~opts.byName
    /\ There # None
    /\ Set([NoState EXCEPT !.fs = There, !.pos = Size(There)])
    /\ GoOn("check")
    /\ UNCHANGED <<opts, operands, fileNo, follow, inRead, error, timesOut, world>>

StartMissing ==
    /\ pc = "start" /\ ~Multi /\ ~opts.byName
    /\ There = None
    /\ error' = (error \/ ~opts.retry)
    /\ GoOn(IF opts.retry THEN "check" ELSE "done")
    /\ UNCHANGED <<opts, operands, fileNo, follow, st, inRead, timesOut, world>>

\* The read position, after a look at the size of the file: 0 once it shrank.
Mut_Checked(id) == Mine.pos

Checked(id) == IF Size(id) < Mine.pos THEN 0 ELSE Mine.pos

\* Initial open: the next file, or the loop.
Started ==
    IF fileNo < Len(follow)
    THEN fileNo' = fileNo + 1 /\ GoOn("start")
    ELSE fileNo' = 1 /\ GoOn("check")

StartFile ==
    /\ pc = "start" /\ Multi
    /\ There # None
    /\ Set(Following(There))
    /\ Started
    /\ UNCHANGED <<opts, operands, follow, inRead, error, timesOut, world>>

StartWithout ==
    /\ pc = "start" /\ Multi
    /\ There = None /\ ~opts.retry
    /\ error' = TRUE
    /\ Started
    /\ UNCHANGED <<opts, operands, follow, st, inRead, timesOut, world>>

StartLater ==
    /\ pc = "start" /\ Multi
    /\ There = None /\ opts.retry
    /\ GoOn("wait")
    /\ UNCHANGED <<opts, operands, fileNo, follow, st, inRead, error, timesOut, world>>

Mut_Wait ==
    /\ pc = "wait"
    /\ GoOn("start")
    /\ UNCHANGED <<opts, operands, fileNo, follow, st, inRead, error, timesOut, world>>

\* Nobody is left to wait with: the file stays without a stream.
Wait ==
    /\ pc = "wait"
    /\ IF any_pid_alive THEN GoOn("start") /\ UNCHANGED fileNo ELSE Started
    /\ UNCHANGED <<opts, operands, follow, st, inRead, error, timesOut, world>>

Check ==
    /\ pc = "check"
    /\ GoOn(IF any_pid_alive THEN "poll" ELSE "done")
    /\ UNCHANGED <<opts, operands, fileNo, follow, st, inRead, error, timesOut, world>>

(***************************************************************************)
(* follow_single_file by name: one stat per iteration, and a reopening by  *)
(* name when the file is another one or its size is not the read position. *)
(***************************************************************************)
ByName == ~Multi /\ opts.byName
Local  == <<opts, operands, fileNo, follow, inRead, error, timesOut, world>>

\* read_pos = 0; current_state = the file found; unchanged_iterations = 0.
Mut_Afresh == [Mine EXCEPT !.id = There, !.unchanged = 0]

Afresh == [Mine EXCEPT !.id = There, !.pos = 0, !.unchanged = 0]

StatGone ==
    /\ pc = "poll" /\ ByName
    /\ There = None
    /\ GoOn(IF opts.retry THEN "check" ELSE "done")
    /\ UNCHANGED <<st, Local>>

StatOther ==
    /\ pc = "poll" /\ ByName
    /\ There \notin {None, Mine.id}
    /\ Set(Afresh)
    /\ GoOn("open")
    /\ UNCHANGED Local

StatResized ==
    /\ pc = "poll" /\ ByName
    /\ There # None /\ There = Mine.id
    /\ Size(There) # Mine.pos
    /\ Set([Mine EXCEPT !.unchanged = 0])
    /\ GoOn("open")
    /\ UNCHANGED Local

\* Without --max-unchanged-stats the counter is not looked at, nor kept here.
Counts == opts.maxUnchanged >= 0
LastOne == Counts /\ Mine.unchanged + 1 >= opts.maxUnchanged
Counted == [Mine EXCEPT !.unchanged = IF Counts THEN @ + 1 ELSE @]

StatUnchanged ==
    /\ pc = "poll" /\ ByName
    /\ There # None /\ There = Mine.id
    /\ Size(There) = Mine.pos
    /\ Set(Counted)
    /\ GoOn(IF LastOne THEN "restat" ELSE "check")
    /\ UNCHANGED Local

Restat ==
    /\ pc = "restat"
    /\ IF There # Mine.id
       THEN Set(Afresh) /\ GoOn("open")
       ELSE Set([Mine EXCEPT !.unchanged = 0]) /\ GoOn("check")
    /\ UNCHANGED Local

Reading(id, at, end) == inRead' = [id |-> id, at |-> at, end |-> end]

\* read_file_data_win32: whatever the name leads to by now.
OpenByName ==
    /\ pc = "open"
    /\ There # None
    /\ IF Size(There) > Mine.pos
       THEN Reading(There, Mine.pos, Size(There)) /\ GoOn("read") /\ UNCHANGED st
       ELSE /\ Set([Mine EXCEPT !.pos = Checked(There)])
            /\ GoOn("check")
            /\ UNCHANGED inRead
    /\ UNCHANGED <<opts, operands, fileNo, follow, error, timesOut, world>>

CannotOpen ==
    /\ pc = "open"
    /\ There = None
    /\ GoOn("check")
    /\ UNCHANGED <<st, Local>>

(***************************************************************************)
(* follow_single_file by descriptor: the stream stays open.  One step asks *)
(* for the end to see whether the file shrank, another for the end to read *)
(* to.  tellg of an open stream does not fail, so the stream, once open,   *)
(* is never closed.                                                        *)
(***************************************************************************)
ByDescriptor == ~Multi /\ ~opts.byName

Reacquire ==
    /\ pc = "poll" /\ ByDescriptor
    /\ Mine.fs = None /\ There # None
    /\ Set([Mine EXCEPT !.fs = There, !.pos = 0])
    /\ UNCHANGED <<pc, Local>>

StillMissing ==
    /\ pc = "poll" /\ ByDescriptor
    /\ Mine.fs = None /\ There = None
    /\ GoOn(IF opts.retry THEN "check" ELSE "done")
    /\ UNCHANGED <<st, Local>>

Shrunk ==
    /\ pc = "poll" /\ ByDescriptor
    /\ Mine.fs # None
    /\ Set([Mine EXCEPT !.pos = Checked(Mine.fs)])
    /\ GoOn("measure")
    /\ UNCHANGED Local

(***************************************************************************)
(* Several files, one after the other in each iteration.                   *)
(***************************************************************************)
Reappears ==
    /\ pc = "poll" /\ Multi
    /\ ~Mine.valid /\ opts.retry /\ There # None
    /\ Set(Following(There))
    /\ Onward
    /\ UNCHANGED <<opts, operands, follow, inRead, error, timesOut, world>>

PassOver ==
    /\ pc = "poll" /\ Multi
    /\ ~Mine.valid
    /\ opts.retry => There = None
    /\ Onward
    /\ UNCHANGED <<opts, operands, follow, st, inRead, error, timesOut, world>>

\* By name: is the file to be opened again?
need_reopen ==
    \/ There # Mine.id
    \/ Size(There) = Mine.pos /\ LastOne

StatEach ==
    /\ pc = "poll" /\ Multi
    /\ Mine.valid
    /\ IF ~opts.byName THEN UNCHANGED st /\ GoOn("measure")
       ELSE IF need_reopen
       THEN Set([Mine EXCEPT !.fs = None]) /\ GoOn("reopen")
       ELSE /\ Set(IF Size(There) = Mine.pos THEN Counted
                   ELSE [Mine EXCEPT !.unchanged = 0])
            /\ GoOn("measure")
    /\ UNCHANGED Local

Reopen ==
    /\ pc = "reopen"
    /\ There # None
    /\ Set([Following(There) EXCEPT !.pos = 0])
    /\ GoOn("measure")
    /\ UNCHANGED Local

Mut_ReopenFails ==
    /\ pc = "reopen"
    /\ There = None
    /\ GoOn("measure")
    /\ UNCHANGED <<st, Local>>

ReopenFails ==
    /\ pc = "reopen"
    /\ There = None
    /\ Set([Mine EXCEPT !.valid = FALSE])
    /\ Onward
    /\ UNCHANGED <<opts, operands, follow, inRead, error, timesOut, world>>

(***************************************************************************)
(* Reading a stream from the read position to its end.                     *)
(***************************************************************************)
Measure ==
    /\ pc = "measure"
    /\ IF Size(Mine.fs) > Mine.pos
       THEN /\ Reading(Mine.fs, Mine.pos, Size(Mine.fs))
            /\ GoOn("read")
            /\ UNCHANGED <<st, fileNo>>
       ELSE /\ Set([Mine EXCEPT !.pos = Checked(Mine.fs)])
            /\ Onward
            /\ UNCHANGED inRead
    /\ UNCHANGED <<opts, operands, follow, error, timesOut, world>>

Read ==
    /\ pc = "read"
    /\ inRead.at < Size(inRead.id)
    /\ Printed({data[inRead.id][inRead.at + 1]})
    /\ inRead' = [inRead EXCEPT !.at = @ + 1]
    /\ UNCHANGED <<opts, operands, pc, fileNo, follow, st, error, world>>

\* read_file_data_win32 adds what it read; a stream at its end has no
\* position any more, and the end asked for before takes its place.
Mut_EndPos == inRead.end

EndPos == IF ByName THEN inRead.at ELSE inRead.end

EndOfFile ==
    /\ pc = "read"
    /\ inRead.at >= Size(inRead.id)
    /\ Set([Mine EXCEPT !.pos = EndPos])
    /\ inRead' = NoRead
    /\ Onward
    /\ UNCHANGED <<opts, operands, follow, error, timesOut, world>>

(***************************************************************************)
(* Everybody else.  A stream (std::ifstream) is opened without sharing     *)
(* deletion: while it is open its file is not renamed, replaced or         *)
(* removed.  Who has a file open goes on writing it after it was renamed.  *)
(***************************************************************************)
Held(id) == \E p \in Paths : st[p].fs = id

Write ==
    /\ writes < MaxWrites
    /\ \E id \in DOMAIN data : data' = [data EXCEPT ![id] = Append(@, writes + 1)]
    /\ writes' = writes + 1
    /\ UNCHANGED <<tail, files, cut, churn, pidAlive>>

CutShort ==
    /\ churn < MaxChurn[Len(operands)]
    /\ \E id \in DOMAIN data :
         /\ data[id] # <<>>
         /\ data' = [data EXCEPT ![id] = <<>>]
         /\ cut' = cut \cup {id}
    /\ churn' = churn + 1
    /\ UNCHANGED <<tail, files, writes, pidAlive>>

NewFile(p) ==
    /\ Len(data) < MaxFiles
    /\ files' = [files EXCEPT ![p] = Len(data) + 1]
    /\ data' = Append(data, <<>>)
    /\ UNCHANGED <<tail, cut, writes, pidAlive>>

Create ==
    \E p \in Range(operands) :
      /\ files[p] = None
      /\ NewFile(p)
      /\ UNCHANGED churn

Replace ==
    /\ churn < MaxChurn[Len(operands)]
    /\ \E p \in Range(operands) :
         /\ files[p] # None /\ ~Held(files[p])
         /\ NewFile(p)
    /\ churn' = churn + 1

Unlink ==
    /\ churn < MaxChurn[Len(operands)]
    /\ \E p \in Range(operands) :
         /\ files[p] # None /\ ~Held(files[p])
         /\ files' = [files EXCEPT ![p] = None]
    /\ churn' = churn + 1
    /\ UNCHANGED <<tail, data, cut, writes, pidAlive>>

Die ==
    /\ opts.watch /\ pidAlive
    /\ pidAlive' = FALSE
    /\ UNCHANGED <<tail, files, data, cut, writes, churn>>

Poller ==
    \/ ShowFile \/ ShowMissing
    \/ StartByName \/ StartByDescriptor \/ StartMissing
    \/ StartFile \/ StartWithout \/ StartLater \/ Wait
    \/ Check
    \/ StatGone \/ StatOther \/ StatResized \/ StatUnchanged \/ Restat
    \/ OpenByName \/ CannotOpen
    \/ Reacquire \/ StillMissing \/ Shrunk
    \/ Reappears \/ PassOver \/ StatEach \/ Reopen \/ ReopenFails
    \/ Measure \/ Read \/ EndOfFile

World == Write \/ CutShort \/ Create \/ Replace \/ Unlink \/ Die

TailNext == Poller \/ World

\* tail is one thread, and the system schedules it; nobody has to write.
TailSpec == TailInit /\ [][TailNext]_tailVars /\ WF_tailVars(Poller)

(***************************************************************************)
(* What must hold.                                                         *)
(***************************************************************************)

\* Read positions, reads in progress and the files they are about exist.
TailTypeOK ==
    /\ opts \in Options /\ operands \in Operands
    /\ pc \in {"show", "start", "wait", "check", "poll", "open", "restat",
               "measure", "reopen", "read", "done"}
    /\ fileNo \in 1..Len(operands)
    /\ IsPrefix(follow, operands)
    /\ pc # "show" => follow = operands
    /\ st \in [Paths -> [valid : BOOLEAN, id : 0..Len(data), fs : 0..Len(data),
                         pos : Nat, unchanged : Nat]]
    /\ inRead \in [id : 0..Len(data), at : Nat, end : Nat]
    /\ pc = "read" <=> inRead # NoRead
    /\ pc = "measure" => Mine.fs # None
    /\ error \in BOOLEAN
    /\ files \in [Paths -> 0..Len(data)]
    /\ data \in Seq(Seq(Chunks)) /\ Len(data) <= MaxFiles
    /\ cut \subseteq DOMAIN data
    /\ writes \in 0..MaxWrites /\ churn \in 0..MaxChurn[Len(operands)]
    /\ pidAlive \in BOOLEAN
    /\ timesOut \in [Chunks -> 0..Twice]

Begun == pc \notin {"show", "start", "wait"}

\* A file followed by name that only grows is printed once and in order:
\* nothing is printed again, nor after what was written later, although its
\* size is asked for by one call, read by others, and writes come in between
\* (read_file_data_win32 counts what it read, not what it meant to read).
OnceInOrder ==
    [][\A c \in Chunks :
         /\ opts.byName /\ Len(operands) = 1 /\ churn' = 0
         /\ timesOut'[c] # timesOut[c]
         => \A d \in c..MaxWrites : timesOut[d] = 0]_tailVars

\* What a followed name leads to beyond what was read is printed sooner or
\* later, unless tail ends or the file is truncated or goes away: through
\* appends, replacements and removals between any two calls, a missing file
\* that comes back, and any number of files taking turns.
Follows(p) ==
    /\ Begun /\ pc # "done"
    /\ Multi => st[p].valid
    /\ files[p] # None /\ files[p] \notin cut

Unread(p, c) ==
    \E k \in 1..Size(files[p]) :
      /\ data[files[p]][k] = c
      /\ k > st[p].pos \/ (ByName /\ st[p].id # files[p])

Delivers ==
    \A p \in Paths, c \in Chunks :
      Follows(p) /\ Unread(p, c)
        ~> \/ timesOut[c] > 0
           \/ ~Follows(p)
           \/ c \notin Range(data[files[p]])

\* A file that was truncated is noticed while it is shorter than what was
\* read of it: the read position does not stay beyond its end.
Beyond(p) ==
    /\ Begun /\ pc # "done"
    /\ Multi => st[p].valid
    /\ files[p] # None
    /\ st[p].pos > Size(files[p])

TruncationNoticed == \A p \in Paths : Beyond(p) ~> ~Beyond(p)

\* With --pid tail ends once no such process is left, whatever it was doing:
\* waiting for a missing file, reading, or polling many.
EndsWithProcess == opts.watch /\ ~pidAlive ~> pc = "done"

\* "output appended data as the file grows" (-f): appended data are output,
\* and not once more.
PrintedOnce == churn = 0 => \A c \in Chunks : timesOut[c] < Twice
=============================================================================
