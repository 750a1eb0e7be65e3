------------------------------ MODULE ShellIO ------------------------------
(***************************************************************************)
(* Where a command's output goes and where its input comes from, in        *)
(* src/Main/main.cpp: pipelines through two temporary files, redirections  *)
(* and $( ... ).  Two mechanisms are switched together: file descriptors   *)
(* 0 and 1, which every redirection saves and puts back, and the capture   *)
(* handles of src/utils/console.h, one global that every redirection and   *)
(* every $( ... ) sets when it starts and switches off when it ends.       *)
(*                                                                         *)
(* A program is a set of lines; a part of a line may start with a          *)
(* $( line ) and then has one command, or several connected by pipes.      *)
(* What a command prints is a sequence of values.  In a frame, `entry',    *)
(* `said' and `piped' are history: the program keeps none of them.         *)
(***************************************************************************)
EXTENDS Integers, Sequences, SequencesExt, FiniteSets

CONSTANTS Lines, Main,
          Programs,    \* functions from Lines to sequences of parts
          Values,      \* what `say' prints
          Files,       \* files that redirections name
          Contents,    \* what is in those that exist
          Unopenable,  \* those that cannot be written
          TempA, TempB,   \* winuxcmd_pipe_..._a.tmp and _b.tmp
          CaptureFiles,   \* winuxcmd_cap_...: one per depth, never shared
          Console, None

Temps == {TempA, TempB} \cup Range(CaptureFiles)
Places == Files \cup Temps \cup {Console}

Cmd ==
    [k : {"say"}, v : Values] \cup [k : {"cat", "echo"}]
        \cup [k : {"call"}, line : Lines]

Segment ==
    [cmd : Cmd, in : Files \cup {None}, out : Files \cup {None},
     append : BOOLEAN, err : Files \cup {None}]

Part == [subst : Lines \cup {None}, segs : Seq(Segment)]

ASSUME IOAssumption ==
    /\ Main \in Lines
    /\ Programs \subseteq [Lines -> Seq(Part)]
    /\ \A p \in Programs, l \in Lines : \A i \in DOMAIN p[l] : p[l][i].segs # <<>>
    /\ CaptureFiles \in Seq(Range(CaptureFiles)) /\ IsInjective(CaptureFiles)
    /\ Console \notin Files \cup Temps
    /\ None \notin Lines \cup Places
    /\ Contents \in [DOMAIN Contents -> Seq(Values)]
    /\ DOMAIN Contents \subseteq Files
    /\ Files \cap Temps = {}
    /\ TempA # TempB /\ {TempA, TempB} \cap Range(CaptureFiles) = {}

VARIABLES prog,
          calls,    \* the C++ stack of executeShellLine
          stdin,    \* descriptor 0: a file and what is left to read of it
          stdout,   \* descriptor 1, and GetStdHandle
          capture,  \* g_capture_stdout_write, None when not active
          files,    \* the files that exist
          screen,   \* what the console shows
          mixed     \* history: kinds of nesting that happened

vars == <<prog, calls, stdin, stdout, capture, files, screen, mixed>>

(***************************************************************************)
(* One call of executeShellLine: its part and segment, and what runs.      *)
(***************************************************************************)
Top      == Last(calls)
ThePart  == prog[Top.line][Top.part]
TheSeg   == ThePart.segs[Top.seg]
IsPipe   == Len(ThePart.segs) > 1
IsLast   == Top.seg = Len(ThePart.segs)
HasPart  == Top.part <= Len(prog[Top.line])
At(s)    == calls # <<>> /\ Top.stage = s

\* Where a frame's output should go: to its own redirection if there is
\* one, and where its caller's goes otherwise.
\* `fd' is where descriptor 1 leads meanwhile.
Goes(f) ==
    IF f.out # None THEN [to |-> f.out, captured |-> FALSE, fd |-> f.out]
    ELSE f.entry

WithTop(f) == [calls EXCEPT ![Len(calls)] = f]

NoInput == [file |-> None, rest |-> <<>>]

NewFrame(line, entry, captured) ==
    [line |-> line, part |-> 1, seg |-> 1, stage |-> "part",
     captured |-> captured, value |-> <<>>, entry |-> entry,
     out |-> None, err |-> None, in |-> None,
     oldOut |-> None, oldIn |-> NoInput, said |-> <<>>, piped |-> <<>>]

Init ==
    /\ prog \in Programs
    /\ stdin = [file |-> Console, rest |-> <<>>]
    /\ stdout = Console
    /\ capture = None
    /\ files = Contents
    /\ screen = <<>>
    /\ mixed = {}
    /\ calls = << NewFrame(Main, [to |-> Console, captured |-> FALSE, fd |-> Console], FALSE) >>

(***************************************************************************)
(* Files.  CreateFileW with FILE_SHARE_READ: a file being written cannot   *)
(* be opened again, a file being read cannot be written or removed.        *)
(***************************************************************************)
Written == (UNION {{calls[i].out, calls[i].err} : i \in DOMAIN calls}) \ {None}
Read    == {calls[i].in : i \in DOMAIN calls} \ {None}

CanWrite(f) == f \notin Unopenable \cup Written \cup Read
CanRead(f)  == f \in DOMAIN files \ Written

Put(f, text, fs) == [n \in DOMAIN fs \cup {f} |-> IF n = f THEN text ELSE fs[n]]
Without(fs, gone) == [n \in DOMAIN fs \ gone |-> fs[n]]

Opened(f, append, fs) ==
    IF f = None THEN fs
    ELSE Put(f, IF append /\ f \in DOMAIN fs THEN fs[f] ELSE <<>>, fs)

\* getStdOut: where safePrint writes.
Sink == IF capture # None THEN capture ELSE stdout

Write(text) ==
    IF Sink = Console
    THEN screen' = screen \o text /\ UNCHANGED files
    ELSE files' = Put(Sink, files[Sink] \o text, files) /\ UNCHANGED screen

(***************************************************************************)
(* $( line ): expandAll and captureCommandOutput.                          *)
(***************************************************************************)
Substitute ==
    LET f == CaptureFiles[Len(calls)] IN
    /\ At("part")
    /\ HasPart
    /\ ThePart.subst # None
    /\ Len(calls) <= Len(CaptureFiles)
    /\ files' = Opened(f, FALSE, files)
    /\ capture' = f
    /\ mixed' = IF Goes(Top).captured THEN mixed \cup {"capture"} ELSE mixed
    /\ calls' = Append(WithTop([Top EXCEPT !.stage = "subst"]),
                       NewFrame(ThePart.subst,
                                [to |-> f, captured |-> TRUE, fd |-> stdout], TRUE))
    /\ UNCHANGED <<prog, stdin, stdout, screen>>

NoSubstitution ==
    /\ At("part")
    /\ HasPart
    /\ ThePart.subst = None
    /\ calls' = WithTop([Top EXCEPT !.stage = "seg"])
    /\ UNCHANGED <<prog, stdin, stdout, capture, files, screen, mixed>>

Caller      == calls[Len(calls) - 1]
Returned(f) == [Front(calls) EXCEPT ![Len(calls) - 1] = f]

\* The capture is off afterwards, also for an outer $( ... ).
CaptureEnds ==
    LET f == Top.entry.to IN
    /\ At("part")
    /\ ~HasPart
    /\ Top.captured
    /\ capture' = None
    /\ files' = Without(files, {f})
    /\ calls' = Returned([Caller EXCEPT !.value = files[f], !.stage = "seg"])
    /\ UNCHANGED <<prog, stdin, stdout, screen, mixed>>

(***************************************************************************)
(* A segment: executePipeline and runWithRedirects.  A pipe's temporary    *)
(* file takes the place of the segment's own redirection.                  *)
(***************************************************************************)
PipeOut(seg) == IF seg % 2 = 1 THEN TempA ELSE TempB

OutFile == IF IsLast THEN TheSeg.out ELSE PipeOut(Top.seg)
InFile  == IF Top.seg = 1 THEN TheSeg.in ELSE PipeOut(Top.seg - 1)
Mut_Appends == TheSeg.append

Appends == IsLast /\ TheSeg.append

InPipe == \E i \in 1..Len(calls) - 1 :
              Len(prog[calls[i].line][calls[i].part].segs) > 1

Nesting ==
    (IF Goes(Top).captured /\ (OutFile # None \/ TheSeg.err # None)
     THEN {"capture"} ELSE {})
    \cup (IF IsPipe /\ InPipe THEN {"pipe"} ELSE {})

\* The files are opened one after the other; the first that cannot be
\* ends the segment, and what was opened and truncated stays so.
OpensOut == OutFile = None \/ CanWrite(OutFile)
OpensErr == TheSeg.err = None \/ (CanWrite(TheSeg.err) /\ TheSeg.err # OutFile)
OpensIn  ==
    InFile = None \/ (CanRead(InFile) /\ InFile \notin {OutFile, TheSeg.err})

Truncated ==
    IF ~OpensOut THEN files
    ELSE IF ~OpensErr THEN Opened(OutFile, Appends, files)
    ELSE Opened(TheSeg.err, FALSE, Opened(OutFile, Appends, files))

StartSegment ==
    /\ At("seg")
    /\ OpensOut /\ OpensErr /\ OpensIn
    /\ files' = Truncated
    /\ capture' = IF OutFile # None THEN OutFile
                  ELSE IF TheSeg.err # None THEN stdout ELSE capture
    /\ stdout' = IF OutFile # None THEN OutFile ELSE stdout
    /\ stdin' = IF InFile = None THEN stdin
                ELSE [file |-> InFile, rest |-> Truncated[InFile]]
    /\ calls' = WithTop([Top EXCEPT
           !.stage = "run", !.said = <<>>,
           !.out = OutFile, !.err = TheSeg.err, !.in = InFile,
           !.oldOut = IF OutFile = None THEN None ELSE stdout,
           !.oldIn = IF InFile = None THEN NoInput ELSE stdin])
    /\ mixed' = mixed \cup Nesting
    /\ UNCHANGED <<prog, screen>>

\* A capture that was set for the segment is switched off.
SegmentFails ==
    /\ At("seg")
    /\ ~(OpensOut /\ OpensErr /\ OpensIn)
    /\ files' = Truncated
    /\ capture' = IF OpensOut /\ OpensErr /\ (OutFile # None \/ TheSeg.err # None)
                  THEN None ELSE capture
    /\ calls' = WithTop([Top EXCEPT !.stage = "next", !.piped = <<>>])
    /\ mixed' = mixed \cup Nesting
    /\ UNCHANGED <<prog, stdin, stdout, screen>>

Ended(old, kept) ==
    /\ At("end")
    /\ stdin' = old.in
    /\ stdout' = old.out
    /\ capture' = kept
    /\ calls' = WithTop([Top EXCEPT !.stage = "next", !.piped = Top.said,
                                    !.out = None, !.err = None, !.in = None])
    /\ UNCHANGED <<prog, files, screen, mixed>>

OldIn  == IF Top.in # None THEN Top.oldIn ELSE stdin
OldOut == IF Top.out # None THEN Top.oldOut ELSE stdout

\* Mutants: descriptors put back that were not saved; the capture kept.
Mut_EndSegment == Ended([in |-> Top.oldIn, out |-> OldOut],
                        IF Top.out # None \/ Top.err # None THEN None ELSE capture)

Mut_EndSegment_captured == Ended([in |-> OldIn, out |-> OldOut], capture)

EndSegment == Ended([in |-> OldIn, out |-> OldOut],
                    IF Top.out # None \/ Top.err # None THEN None ELSE capture)

NextSegment ==
    /\ At("next")
    /\ ~IsLast
    /\ calls' = WithTop([Top EXCEPT !.stage = "seg", !.seg = Top.seg + 1])
    /\ UNCHANGED <<prog, stdin, stdout, capture, files, screen, mixed>>

\* A temporary file somebody has open is not removed.
Removable == {TempA, TempB} \ (Written \cup Read)

PartEnds ==
    /\ At("next")
    /\ IsLast
    /\ files' = IF IsPipe THEN Without(files, Removable) ELSE files
    /\ calls' = WithTop([Top EXCEPT !.stage = "part", !.part = Top.part + 1,
                                    !.seg = 1])
    /\ UNCHANGED <<prog, stdin, stdout, capture, screen, mixed>>

(***************************************************************************)
(* Commands: one that prints, one that copies its input, echo $( ... ),    *)
(* and a function.                                                         *)
(***************************************************************************)
\* Who should get it: the innermost call with a redirection of its own.
Owners == {i \in DOMAIN calls : calls[i].out # None /\ calls[i].out = Goes(Top).to}

Says(text) ==
    /\ Write(text)
    /\ calls' = [i \in DOMAIN calls |->
                    [calls[i] EXCEPT
                        !.said = IF i \in Owners THEN @ \o text ELSE @,
                        !.stage = IF i = Len(calls) THEN "end" ELSE @]]
    /\ UNCHANGED <<prog, stdout, capture, mixed>>

Say  == At("run") /\ TheSeg.cmd.k = "say"  /\ Says(<<TheSeg.cmd.v>>) /\ UNCHANGED stdin
Echo == At("run") /\ TheSeg.cmd.k = "echo" /\ Says(Top.value) /\ UNCHANGED stdin
Cat  == At("run") /\ TheSeg.cmd.k = "cat"  /\ Says(stdin.rest)
           /\ stdin' = [stdin EXCEPT !.rest = <<>>]

CallFunction ==
    /\ At("run")
    /\ TheSeg.cmd.k = "call"
    /\ calls' = Append(WithTop([Top EXCEPT !.stage = "call"]),
                       NewFrame(TheSeg.cmd.line, Goes(Top), FALSE))
    /\ UNCHANGED <<prog, stdin, stdout, capture, files, screen, mixed>>

FunctionEnds ==
    /\ At("part")
    /\ ~HasPart
    /\ ~Top.captured
    /\ Len(calls) > 1
    /\ calls' = Returned([Caller EXCEPT !.stage = "end"])
    /\ UNCHANGED <<prog, stdin, stdout, capture, files, screen, mixed>>

Over == Len(calls) = 1 /\ At("part") /\ ~HasPart

Done == Over /\ UNCHANGED vars

Next ==
    \/ Substitute \/ NoSubstitution \/ CaptureEnds
    \/ StartSegment \/ SegmentFails \/ EndSegment \/ NextSegment \/ PartEnds
    \/ Say \/ Echo \/ Cat \/ CallFunction \/ FunctionEnds
    \/ Done

Spec == Init /\ [][Next]_vars

(***************************************************************************)
(* Properties.                                                             *)
(***************************************************************************)
Input == [file : Places \cup {None}, rest : Seq(Values)]

Frame ==
    [line : Lines, part : Nat \ {0}, seg : Nat \ {0},
     stage : {"part", "subst", "seg", "run", "call", "end", "next"},
     captured : BOOLEAN, value : Seq(Values),
     entry : [to : Places, captured : BOOLEAN, fd : Places],
     out : Places \cup {None}, err : Places \cup {None}, in : Places \cup {None},
     oldOut : Places \cup {None}, oldIn : Input,
     said : Seq(Values), piped : Seq(Values)]

\* Type invariant.  Descriptors 0 and 1 always lead somewhere, and a part
\* that is at work is one of its line.
TypeOK ==
    /\ prog \in Programs
    /\ calls \in Seq(Frame) /\ calls # <<>>
    /\ stdin \in Input /\ stdin.file # None
    /\ stdout \in Places
    /\ capture \in Places \cup {None}
    /\ DOMAIN files \subseteq Files \cup Temps
    /\ files \in [DOMAIN files -> Seq(Values)]
    /\ screen \in Seq(Values)
    /\ mixed \subseteq {"capture", "pipe"}
    /\ \A i \in DOMAIN calls :
          LET f == calls[i] IN
          f.stage # "part" => /\ f.part \in DOMAIN prog[f.line]
                              /\ f.seg \in DOMAIN prog[f.line][f.part].segs

\* Outside $( ... ), and inside a redirection within one, what is printed
\* goes to the innermost redirection, however they are nested: to where the
\* capture handle points or, where an inner redirection switched it off, to
\* descriptor 1.
SinkFollowsRedirects == ~Goes(Top).captured => Sink = Goes(Top).to

\* A redirection's file holds what was printed under it, after what it held
\* if it is appended to, as long as nothing is redirected directly in a
\* $( ... ): nobody else writes to it.
RedirectHolds ==
    "capture" \notin mixed =>
        \A i \in DOMAIN calls :
            LET f == calls[i]
                parts == prog[f.line][f.part].segs
            IN f.out # None =>
                  /\ IsSuffix(f.said, files[f.out])
                  /\ (f.seg < Len(parts) \/ ~parts[f.seg].append) =>
                        files[f.out] = f.said

\* A command in a pipeline reads what the one before it printed, all of it
\* and nothing else, as long as pipelines are not nested: the temporary
\* files take turns.
PipeCarries ==
    mixed = {} /\ At("run") /\ Top.seg > 1 => stdin.rest = Top.piped

\* When the shell is done no temporary file is left, whatever could not be
\* opened or removed on the way.
NoTempsLeft == Over => DOMAIN files \cap Temps = {}

\* Files hold what was sent to them: those of redirections, those between the
\* stages of a pipeline while it runs, and no temporary one after the end
\* (runWithRedirects, executePipeline).
FilesHold == RedirectHolds /\ PipeCarries /\ NoTempsLeft

\* The code's comment: "Backticks and $(...) are now handled".  What a
\* command in $( ... ) prints goes to the file it is captured in.
SubstitutionCaptures ==
    At("run") /\ Goes(Top).captured => Sink = Goes(Top).to
=============================================================================
