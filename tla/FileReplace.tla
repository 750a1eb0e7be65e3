----------------------------- MODULE FileReplace -----------------------------
(***************************************************************************)
(* The commands that put new contents in the place of a file: sed -i       *)
(* (commands/sed.cpp), mv, cp of one file, install, patch and ln.  Each is *)
(* a straight sequence of calls into the file system, some of which fail,  *)
(* and whose results some commands do not look at.  The command may be     *)
(* stopped between any two calls, and another process may create the       *)
(* target while it does not exist.                                         *)
(*                                                                         *)
(* `src' is the operand that is moved, copied or linked, `dst' the file    *)
(* that is replaced, `bak' its backup and `tmp' the temporary file of sed. *)
(* A file that is being written, or whose writing failed, is "part".       *)
(***************************************************************************)
EXTENDS Naturals

CONSTANTS Jobs,        \* the commands and settings considered
          MaxFaults    \* how many calls may fail

Names    == {"src", "dst", "bak", "tmp"}
Contents == {"none", "old", "new", "part", "older", "theirs"}

Job == [op : {"sed", "mv", "cp", "install", "patch", "ln"},
        backup : BOOLEAN, force : BOOLEAN,
        keep : {"no", "clobber", "update", "ask"},  \* -n, -u, -i
        elsewhere : BOOLEAN,   \* mv: the target is on another volume
        tree : BOOLEAN,        \* mv: the source is a directory
        self : BOOLEAN,        \* cp: the source is the target
        skipSame : BOOLEAN,    \* install -C
        applies : BOOLEAN,     \* patch: all hunks match
        noTargetDir : BOOLEAN] \* ln -T

ASSUME JobsAssumption == Jobs \subseteq Job /\ MaxFaults \in Nat

VARIABLES job,      \* the command and its settings
          had,      \* what the target held at the start
          dir,      \* what each name holds
          pc,       \* the next call, or how the command ended
          seen,     \* what the command saw of the target: dest_exists
          copying,  \* the copy that is under way
          faults,   \* how many calls may still fail
          silent    \* a write failed and nobody looked

vars == <<job, had, dir, pc, seen, copying, faults, silent>>

NoCopy == [from |-> "dst", to |-> "bak", ok |-> "exit 0", bad |-> "exit 1"]
Exits  == {"exit 0", "exit 1", "skipped", "stopped"}
Labels == {"backup", "copying", "delete", "write", "replace", "clean", "remove",
           "look", "ask", "attr", "open", "reopen", "link", "unbackup"} \cup Exits

TypeOK ==
    /\ job \in Jobs
    /\ had \in Contents
    /\ dir \in [Names -> Contents]
    /\ pc \in Labels
    /\ seen \in BOOLEAN
    /\ copying \in [from : Names, to : Names, ok : Labels, bad : Labels]
    /\ faults \in 0..MaxFaults
    /\ silent \in BOOLEAN

Init ==
    /\ job \in Jobs
    /\ had \in {"none", "old", "new"}
    /\ had = "new" => job.op = "install"
    /\ \E b \in {"none", "older"} :
         dir = [src |-> "new", dst |-> had, bak |-> b, tmp |-> "none"]
    /\ pc = "look" /\ seen = FALSE /\ copying = NoCopy
    /\ faults = MaxFaults /\ silent = FALSE

------------------------------------------------------------------------------
(* Calls into the file system.                                              *)

Exists(f) == dir[f] # "none"
Works     == UNCHANGED faults
Fails     == faults > 0 /\ faults' = faults - 1
Goto(l)   == pc' = l

\* DeleteFile, std::filesystem::remove with the result ignored.
RemoveAnyway(f, next) ==
    /\ \/ Works /\ dir' = [dir EXCEPT ![f] = "none"]
       \/ Exists(f) /\ Fails /\ UNCHANGED dir
    /\ Goto(next)
    /\ UNCHANGED <<job, had, seen, copying, silent>>

\* MoveFileEx with MOVEFILE_REPLACE_EXISTING on one volume: all or nothing.
Rename(from, to, ok, bad) ==
    /\ \/ Works /\ Exists(from) /\ Goto(ok)
          /\ dir' = [dir EXCEPT ![to] = dir[from], ![from] = "none"]
       \/ Exists(from) /\ Fails /\ Goto(bad) /\ UNCHANGED dir
       \/ ~Exists(from) /\ Works /\ Goto(bad) /\ UNCHANGED dir
    /\ UNCHANGED <<job, had, seen, copying, silent>>

\* CopyFile with overwriting is not atomic: it empties the target first.
BeginCopy(from, to, ok, bad) ==
    /\ \/ Exists(from) /\ Works /\ Goto("copying")
          /\ dir' = [dir EXCEPT ![to] = "part"]
          /\ copying' = [from |-> from, to |-> to, ok |-> ok, bad |-> bad]
       \/ Exists(from) /\ Fails /\ Goto(bad) /\ UNCHANGED <<dir, copying>>
       \/ ~Exists(from) /\ Works /\ Goto(bad) /\ UNCHANGED <<dir, copying>>
    /\ UNCHANGED <<job, had, seen, silent>>

FinishCopy ==
    /\ pc = "copying"
    /\ \/ Works /\ Goto(copying.ok)
          /\ dir' = [dir EXCEPT ![copying.to] = dir[copying.from]]
       \/ Fails /\ Goto(copying.bad)
          /\ \E left \in {"part", "none"} : dir' = [dir EXCEPT ![copying.to] = left]
    /\ UNCHANGED <<job, had, seen, copying, silent>>

Look(next) ==
    /\ Works /\ Goto(next) /\ seen' = Exists("dst")
    /\ UNCHANGED <<job, had, dir, copying, silent>>

Branch(next) == Works /\ Goto(next) /\ UNCHANGED <<job, had, dir, seen, copying, silent>>

\* A stream or handle that empties the target and is to write to it.
OpenToWrite(f, ok, bad) ==
    /\ \/ Works /\ dir' = [dir EXCEPT ![f] = "part"] /\ Goto(ok)
       \/ Fails /\ UNCHANGED dir /\ Goto(bad)
    /\ UNCHANGED <<job, had, seen, copying, silent>>

WriteAll(f, ok) ==
    /\ Works /\ dir' = [dir EXCEPT ![f] = "new"] /\ Goto(ok)
    /\ UNCHANGED <<job, had, seen, copying, silent>>

\* What is buffered cannot be written when the stream is closed.
WriteSilentlyFails(ok) ==
    /\ Fails /\ silent' = TRUE /\ Goto(ok) /\ UNCHANGED <<job, had, dir, seen, copying>>

WriteFails(bad) ==
    /\ Fails /\ Goto(bad) /\ UNCHANGED <<job, had, dir, seen, copying, silent>>

------------------------------------------------------------------------------
(* sed -i: the output is in memory when replace_file_atomically is called.  *)

SedRead == /\ job.op = "sed" /\ pc = "look"
           /\ Branch(IF ~Exists("dst") THEN "exit 1"
                     ELSE IF job.backup THEN "unbackup" ELSE "open")
SedDropBackup == job.op = "sed" /\ pc = "unbackup" /\ RemoveAnyway("bak", "backup")
SedBackup == /\ job.op = "sed" /\ pc = "backup"
             /\ BeginCopy("dst", "bak", "open", "exit 1")
SedOpen  == job.op = "sed" /\ pc = "open" /\ OpenToWrite("tmp", "write", "exit 1")
SedWrite == /\ job.op = "sed" /\ pc = "write"
            /\ \/ WriteAll("tmp", "remove")
               \/ WriteSilentlyFails("remove")
               \/ WriteFails("clean")
SedRemove  == job.op = "sed" /\ pc = "remove" /\ RemoveAnyway("dst", "replace")
SedReplace == job.op = "sed" /\ pc = "replace" /\ Rename("tmp", "dst", "exit 0", "clean")
SedClean   == job.op = "sed" /\ pc = "clean" /\ RemoveAnyway("tmp", "exit 1")

sed == \/ SedRead \/ SedDropBackup \/ SedBackup \/ SedOpen \/ SedWrite
       \/ SedRemove \/ SedReplace \/ SedClean

------------------------------------------------------------------------------
(* mv: move_single_path.                                                    *)

\* -n and -u go by what was seen; whether the source is newer is not known here.
Spared == \/ job.keep = "clobber" /\ seen
          \/ job.keep = "update" /\ seen

MvLook == job.op = "mv" /\ pc = "look" /\ Look("ask")
MvSkip == job.op = "mv" /\ pc = "ask" /\ Spared /\ Branch("skipped")
MvRefuse == /\ job.op = "mv" /\ pc = "ask" /\ job.keep = "ask" /\ Exists("dst")
            /\ Branch("skipped")
MvGoOn == /\ job.op = "mv" /\ pc = "ask" /\ ~(job.keep = "clobber" /\ seen)
          /\ Branch("backup")
MvBackup == /\ job.op = "mv" /\ pc = "backup"
            /\ IF job.backup /\ Exists("dst") THEN Rename("dst", "bak", "replace", "exit 1")
               ELSE Branch("replace")
MvRename == /\ job.op = "mv" /\ pc = "replace"
            /\ IF job.elsewhere THEN Branch("attr") ELSE Rename("src", "dst", "exit 0", "attr")
Mut_MvCopy == /\ job.op = "mv" /\ pc = "attr"
              /\ IF job.tree THEN Branch("exit 1") ELSE BeginCopy("src", "dst", "delete", "delete")

MvCopy == /\ job.op = "mv" /\ pc = "attr"
          /\ IF job.tree THEN Branch("exit 1") ELSE BeginCopy("src", "dst", "delete", "exit 1")
MvDelete == /\ job.op = "mv" /\ pc = "delete"
            /\ \/ /\ Works /\ dir' = [dir EXCEPT !["src"] = "none"] /\ Goto("exit 0")
                  /\ UNCHANGED <<job, had, seen, copying, silent>>
               \/ WriteFails("exit 1")

mv == \/ MvLook \/ MvSkip \/ MvRefuse \/ MvGoOn \/ MvBackup \/ MvRename \/ MvCopy
      \/ MvDelete

------------------------------------------------------------------------------
(* cp: copy_file.                                                           *)

CpSelf == /\ job.op = "cp" /\ pc = "look" /\ job.self
          /\ IF Exists("dst") /\ job.force /\ job.backup
             THEN BeginCopy("dst", "bak", "skipped", "exit 1") ELSE Branch("exit 1")
CpLook == job.op = "cp" /\ pc = "look" /\ ~job.self /\ Look("ask")
CpSkip == /\ job.op = "cp" /\ pc = "ask" /\ (Spared \/ (job.keep = "ask" /\ seen))
          /\ Branch("skipped")
CpGoOn == /\ job.op = "cp" /\ pc = "ask" /\ ~(job.keep = "clobber" /\ seen)
          /\ Branch("backup")
CpBackup == /\ job.op = "cp" /\ pc = "backup"
            /\ IF job.backup /\ seen
               THEN BeginCopy("dst", "bak", "attr", IF job.force THEN "attr" ELSE "exit 1")
               ELSE Branch("attr")
CpOpenSource == /\ job.op = "cp" /\ pc = "attr"
                /\ \/ Branch(IF job.force /\ seen THEN "delete" ELSE "open")
                   \/ WriteFails("exit 1")
CpDelete == job.op = "cp" /\ pc = "delete" /\ RemoveAnyway("dst", "open")
CpOpen   == /\ job.op = "cp" /\ pc = "open"
            /\ OpenToWrite("dst", "write", IF job.force THEN "remove" ELSE "exit 1")
CpDeleteAgain == job.op = "cp" /\ pc = "remove" /\ RemoveAnyway("dst", "reopen")
CpReopen == job.op = "cp" /\ pc = "reopen" /\ OpenToWrite("dst", "write", "exit 1")
CpWrite  == /\ job.op = "cp" /\ pc = "write"
            /\ \/ WriteAll("dst", "exit 0")
               \/ WriteSilentlyFails("exit 0")
               \/ WriteFails("exit 1")

cp == \/ CpSelf \/ CpLook \/ CpSkip \/ CpGoOn \/ CpBackup \/ CpOpenSource \/ CpDelete
      \/ CpOpen \/ CpDeleteAgain \/ CpReopen \/ CpWrite

------------------------------------------------------------------------------
(* install, patch and ln.                                                   *)

InstallLook == /\ job.op = "install" /\ pc = "look"
               /\ Branch(IF job.skipSame /\ dir["dst"] = dir["src"] THEN "skipped"
                         ELSE "backup")
InstallBackup == /\ job.op = "install" /\ pc = "backup"
                 /\ IF job.backup /\ Exists("dst") THEN Rename("dst", "bak", "write", "write")
                    ELSE Branch("write")
Mut_InstallCopy == /\ job.op = "install" /\ pc = "write"
                   /\ BeginCopy("src", "dst", "exit 0", "exit 2")

InstallCopy == /\ job.op = "install" /\ pc = "write"
               /\ BeginCopy("src", "dst", "exit 0", "exit 1")

PatchRead == /\ job.op = "patch" /\ pc = "look"
             /\ Branch(IF Exists("dst") THEN "open" ELSE "exit 1")
\* -b takes a value and is looked up as a flag, which gives FALSE: backup_file
\* is never called.
PatchOpen == /\ job.op = "patch" /\ pc = "open"
             /\ IF job.applies THEN OpenToWrite("dst", "write", "exit 1")
                ELSE Branch("exit 1")
PatchWrite == /\ job.op = "patch" /\ pc = "write"
              /\ \/ WriteAll("dst", "exit 0")
                 \/ WriteSilentlyFails("exit 0")

LnLook == job.op = "ln" /\ pc = "look" /\ Look("ask")
LnRefuse == /\ job.op = "ln" /\ pc = "ask" /\ seen /\ job.keep = "ask" /\ ~job.force
            /\ Branch("skipped")
LnGoOn == /\ job.op = "ln" /\ pc = "ask"
          /\ Branch(IF ~seen THEN "link"
                    ELSE IF job.backup THEN "unbackup"
                    ELSE IF job.force \/ job.noTargetDir THEN "delete" ELSE "exit 1")
LnDropBackup == job.op = "ln" /\ pc = "unbackup" /\ RemoveAnyway("bak", "backup")
\* MoveFile does not replace: it fails when the old backup is still there.
LnBackup == /\ job.op = "ln" /\ pc = "backup"
            /\ IF Exists("bak") THEN Branch("exit 1") ELSE Rename("dst", "bak", "link", "exit 1")
LnDelete == /\ job.op = "ln" /\ pc = "delete"
            /\ \/ /\ Works /\ dir' = [dir EXCEPT !["dst"] = "none"] /\ Goto("link")
                  /\ UNCHANGED <<job, had, seen, copying, silent>>
               \/ WriteFails("exit 1")
Mut_LnLink == /\ job.op = "ln" /\ pc = "link"
              /\ \/ ~Exists("dst") /\ WriteAll("dst", "exit 0")
                 \/ Exists("dst") /\ Branch("exit 0")

LnLink == /\ job.op = "ln" /\ pc = "link"
          /\ \/ ~Exists("dst") /\ WriteAll("dst", "exit 0")
             \/ Exists("dst") /\ Branch("exit 1")
             \/ WriteFails("exit 1")
install == InstallLook \/ InstallBackup \/ InstallCopy
patchFile == PatchRead \/ PatchOpen \/ PatchWrite
ln == LnLook \/ LnRefuse \/ LnGoOn \/ LnDropBackup \/ LnBackup \/ LnDelete \/ LnLink

------------------------------------------------------------------------------
Stop == /\ pc \notin Exits /\ Goto("stopped")
        /\ UNCHANGED <<job, had, dir, seen, copying, faults, silent>>

\* Another process creates the target.
Appear == /\ ~Exists("dst") /\ pc \notin Exits
          /\ dir' = [dir EXCEPT !["dst"] = "theirs"]
          /\ UNCHANGED <<job, had, pc, seen, copying, faults, silent>>

Ended == pc \in Exits /\ UNCHANGED vars

Next == sed \/ mv \/ cp \/ install \/ patchFile \/ ln \/ FinishCopy \/ Stop \/ Appear \/ Ended

Spec == Init /\ [][Next]_vars

------------------------------------------------------------------------------
Faultless == faults = MaxFaults

\* The commands whose backup has to be there before the target is touched;
\* install does not look at whether it could be made, cp -f goes on without,
\* and patch never makes one.
Guarded == /\ job.backup
           /\ \/ job.op \in {"sed", "mv", "ln"}
              \/ job.op = "cp" /\ ~job.force
              \/ job.op # "patch" /\ Faultless

(***************************************************************************)
(* With a backup asked for, a complete copy of the old contents exists at  *)
(* every moment, as the target or as its backup, wherever the command is   *)
(* stopped and whichever calls fail; and a target that -n has seen stays.  *)
(***************************************************************************)
OldSurvives ==
    had = "old" /\ (Guarded \/ (job.op \in {"mv", "cp"} /\ job.keep = "clobber"))
      => "old" \in {dir["dst"], dir["bak"]}

(* mv: whatever fails, and wherever it is stopped between copying to the    *)
(* other volume and deleting, a complete copy of what is moved exists.      *)
MovedSurvives == job.op = "mv" => "new" \in {dir["src"], dir["dst"]}

(* sed -i without a backup: while no call fails, the old or the new         *)
(* contents are complete under some name wherever it is stopped, although   *)
(* the target is removed before the temporary file takes its name.          *)
OldOrNew ==
    job.op = "sed" /\ had = "old" /\ Faultless
      => \E f \in {"dst", "tmp"} : dir[f] \in {"old", "new"}

(* Exit status 0: the target holds the new contents, what was moved is gone *)
(* from its old place, and the backup holds the old contents; except that   *)
(* sed, cp and patch do not notice a write that fails when the file is      *)
(* closed.                                                                  *)
ZeroMeansReplaced ==
    pc = "exit 0" /\ ~silent
      => /\ dir["dst"] = "new"
         /\ job.op = "mv" => dir["src"] = "none"
         /\ Guarded /\ had = "old" => dir["bak"] = "old"

(* sed ends with its temporary file gone unless two calls fail: the one     *)
(* that made it give up, and the removal.                                   *)
OneFaultLeavesNoTemp ==
    pc \in {"exit 0", "exit 1"} /\ dir["tmp"] # "none" => faults + 2 <= MaxFaults

(* Wherever a command is stopped and whatever fails, what was promised to   *)
(* be kept is complete under some name (sed, mv, cp, install, patch, ln).   *)
NothingLost == OldSurvives /\ MovedSurvives /\ OldOrNew

(* What the exit status says is so, and what was temporary is gone.         *)
EndsAsSaid == ZeroMeansReplaced /\ OneFaultLeavesNoTemp

(* What -n of mv says: "do not overwrite an existing file".                 *)
NoClobber ==
    [][job.op = "mv" /\ job.keep = "clobber" /\ Exists("dst")
         => dir'["dst"] = dir["dst"]]_vars
==============================================================================
