---------------------------- MODULE CommandProofs ----------------------------
(***************************************************************************)
(* Theorems about the commands that work on files: the ones that replace a *)
(* file (FileReplace), and the ones that read lines and print lines        *)
(* (LineFilters), where diff and patch are each other's inverse, sort      *)
(* sorts, the pieces of an input cover it, and lines that are compared,    *)
(* joined or searched are accounted for; and the option parser.  What the  *)
(* functions return is in FilterFacts, for diff, sort and options here.    *)
(***************************************************************************)
EXTENDS FileReplace, LineFilters, FilterFacts, SeqFacts, FiniteSetTheorems, TLAPS

------------------------------------------------------------------------------
(***************************************************************************)
(* What FileReplace promises holds for every set of jobs and every number  *)
(* of failing calls.  A command goes through three stages: the target is   *)
(* as it was; a copy is made; the backup, where it has to be there, is     *)
(* complete and nobody touches it any more.  Stages says so, with what is  *)
(* in the temporary file and in the source on the way.                     *)
(***************************************************************************)
Untouched == {"look", "ask", "unbackup", "backup"}
Replacing == Labels \ (Untouched \cup Exits \cup {"copying"})

\* Which copies there are.
Copies ==
  pc = "copying" =>
    CASE job.op = "sed" ->
           copying = [from |-> "dst", to |-> "bak", ok |-> "open", bad |-> "exit 1"]
      [] job.op = "mv" ->
           copying = [from |-> "src", to |-> "dst", ok |-> "delete", bad |-> "exit 1"]
      [] job.op = "install" ->
           copying = [from |-> "src", to |-> "dst", ok |-> "exit 0", bad |-> "exit 1"]
      [] job.op = "cp" ->
           /\ copying.from = "dst" /\ copying.to = "bak"
           /\ \/ copying.ok = "skipped" /\ copying.bad = "exit 1"
              \/ copying.ok = "attr" /\ copying.bad = IF job.force THEN "attr" ELSE "exit 1"
      [] OTHER -> FALSE

\* The old contents: at the target, then in the backup.
Stages ==
  had = "old" =>
    /\ pc \in Untouched => dir["dst"] = "old"
    /\ pc = "ask" \/ (pc = "backup" /\ job.op = "cp") => seen
    /\ pc = "copying" /\ job.op \in {"sed", "cp"} => dir["dst"] = "old"
    /\ Guarded /\ (pc \in Replacing \/ (pc = "copying" /\ job.op = "install")
                     \/ (pc = "copying" /\ job.op = "mv") \/ pc = "exit 0")
         => dir["bak"] = "old"

\* With -n a target that was there is never reached.
LeftAlone ==
  had = "old" /\ job.op \in {"mv", "cp"} /\ job.keep = "clobber" =>
    /\ dir["dst"] = "old"
    /\ pc \in {"look", "ask", "skipped", "stopped", "exit 1"}
         \/ (pc = "copying" /\ job.op = "cp" /\ copying.ok = "skipped")

\* What is moved.
Moving ==
  /\ job.op = "mv" =>
       /\ pc \in Untouched \cup {"replace", "attr", "copying", "delete"} => dir["src"] = "new"
       /\ pc = "delete" => dir["dst"] = "new"
       /\ pc = "exit 0" => dir["src"] = "none" /\ dir["dst"] = "new"
  /\ job.op # "mv" => dir["src"] = "new"

\* sed's temporary file.
Temporary ==
  /\ job.op # "sed" => dir["tmp"] = "none"
  /\ job.op = "sed" =>
       /\ pc \in Untouched \cup {"copying", "open"} => dir["tmp"] = "none"
       /\ pc \in {"write", "remove", "replace"} => dir["tmp"] # "none"
       /\ pc \in {"remove", "replace"} /\ ~silent => dir["tmp"] = "new"
       /\ pc = "clean" \/ silent => ~Faultless
       /\ had = "old" /\ pc \in {"open", "write", "remove"} => dir["dst"] = "old"

ReplaceInv == /\ TypeOK /\ Copies /\ Stages /\ LeftAlone /\ Moving /\ Temporary
       /\ NothingLost /\ EndsAsSaid

------------------------------------------------------------------------------
\* A call that fails leaves fewer that may.
LEMMA FaultCount ==
  ASSUME TypeOK
  PROVE  /\ Works => (Faultless' <=> Faultless)
         /\ Fails => ~Faultless'
         /\ Fails /\ ~Faultless => faults' + 2 <= MaxFaults
BY JobsAssumption DEF TypeOK, Works, Fails, Faultless

\* Every call keeps the types.
LEMMA CallTypes ==
  ASSUME TypeOK, NEW f \in Names, NEW g \in Names, NEW l \in Labels, NEW m \in Labels
  PROVE  /\ RemoveAnyway(f, l) => TypeOK'
         /\ Rename(f, g, l, m) => TypeOK'
         /\ BeginCopy(f, g, l, m) => TypeOK'
         /\ Look(l) => TypeOK'
         /\ Branch(l) => TypeOK'
         /\ OpenToWrite(f, l, m) => TypeOK'
         /\ WriteAll(f, l) => TypeOK'
         /\ WriteSilentlyFails(l) => TypeOK'
         /\ WriteFails(l) => TypeOK'
<1> USE DEF Goto
<1>1. Works \/ Fails => faults' \in 0..MaxFaults
  BY JobsAssumption DEF TypeOK, Works, Fails
<1>2. "none" \in Contents /\ "part" \in Contents /\ "new" \in Contents /\ "copying" \in Labels
  BY DEF Contents, Labels
<1>3. \A x \in Names, c \in Contents : [dir EXCEPT ![x] = c] \in [Names -> Contents]
  BY DEF TypeOK
<1>4. RemoveAnyway(f, l) => TypeOK' BY <1>1, <1>2, <1>3 DEF TypeOK, RemoveAnyway
<1>5. Rename(f, g, l, m) => TypeOK' BY <1>1, <1>2, <1>3 DEF TypeOK, Rename
<1>6. BeginCopy(f, g, l, m) => TypeOK' BY <1>1, <1>2, <1>3 DEF TypeOK, BeginCopy
<1>7. Look(l) => TypeOK' BY <1>1 DEF TypeOK, Look, Exists
<1>8. Branch(l) => TypeOK' BY <1>1 DEF TypeOK, Branch
<1>9. OpenToWrite(f, l, m) => TypeOK' BY <1>1, <1>2, <1>3 DEF TypeOK, OpenToWrite
<1>10. WriteAll(f, l) => TypeOK' BY <1>1, <1>2, <1>3 DEF TypeOK, WriteAll
<1>11. WriteSilentlyFails(l) => TypeOK' BY <1>1 DEF TypeOK, WriteSilentlyFails
<1>12. WriteFails(l) => TypeOK' BY <1>1 DEF TypeOK, WriteFails
<1> QED BY <1>4, <1>5, <1>6, <1>7, <1>8, <1>9, <1>10, <1>11, <1>12
\* A copy that has begun is the one that was asked for.
LEMMA CopyBegins ==
  ASSUME NEW f, NEW g, NEW l, NEW m, m # "copying", BeginCopy(f, g, l, m)
  PROVE  /\ job' = job
         /\ pc' = "copying" =>
              /\ copying'.from = f /\ copying'.to = g
              /\ copying'.ok = l /\ copying'.bad = m
<1>1. pc' = "copying" => copying' = [from |-> f, to |-> g, ok |-> l, bad |-> m]
  BY DEF BeginCopy, Goto
<1>2. job' = job BY DEF BeginCopy
<1> QED BY <1>1, <1>2

\* sed -i keeps the invariant.
LEMMA SedKeeps ==
  ASSUME ReplaceInv, sed
  PROVE  ReplaceInv'
<1> USE FaultCount, ReplaceInv DEF ReplaceInv, Exists, Goto
<1>1. CASE SedRead
  <2> USE <1>1 DEF SedRead
  <2>1. TypeOK' BY CallTypes DEF Labels, Exits, Names
  <2> USE DEF TypeOK, Names, Branch
  <2>2. Copies' BY DEF Copies
  <2>3. Stages' BY DEF Stages, Copies, Guarded, Untouched, Replacing, Labels, Exits
  <2>4. LeftAlone' BY DEF LeftAlone, Stages, Copies, Untouched
  <2>5. Moving' BY DEF Moving, Copies, Untouched
  <2>6. Temporary' BY DEF Temporary, Stages, Copies, Untouched
  <2> USE DEF Guarded, Stages, LeftAlone, Moving, Temporary, Copies, Untouched, Replacing, Labels, Exits
  <2>7. NothingLost' BY DEF NothingLost, OldSurvives, MovedSurvives, OldOrNew
  <2>8. EndsAsSaid' BY DEF EndsAsSaid, ZeroMeansReplaced, OneFaultLeavesNoTemp
  <2> QED BY ONLY <2>1, <2>2, <2>3, <2>4, <2>5, <2>6, <2>7, <2>8 DEF ReplaceInv
<1>2. CASE SedDropBackup
  <2> USE <1>2 DEF SedDropBackup
  <2>1. TypeOK' BY CallTypes DEF Labels, Exits, Names
  <2> USE DEF TypeOK, Names, RemoveAnyway
  <2>2. Copies' BY DEF Copies
  <2>3. Stages' BY DEF Stages, Copies, Guarded, Untouched, Replacing, Labels, Exits
  <2>4. LeftAlone' BY DEF LeftAlone, Stages, Copies, Untouched
  <2>5. Moving' BY DEF Moving, Copies, Untouched
  <2>6. Temporary' BY DEF Temporary, Stages, Copies, Untouched
  <2> USE DEF Guarded, Stages, LeftAlone, Moving, Temporary, Copies, Untouched, Replacing, Labels, Exits
  <2>7. NothingLost' BY DEF NothingLost, OldSurvives, MovedSurvives, OldOrNew
  <2>8. EndsAsSaid' BY DEF EndsAsSaid, ZeroMeansReplaced, OneFaultLeavesNoTemp
  <2> QED BY ONLY <2>1, <2>2, <2>3, <2>4, <2>5, <2>6, <2>7, <2>8 DEF ReplaceInv
<1>3. CASE SedBackup
  <2> USE <1>3 DEF SedBackup
  <2>1. TypeOK' BY CallTypes DEF Labels, Exits, Names
  <2> USE DEF TypeOK, Names, BeginCopy
  <2>2. Copies' BY DEF Copies
  <2>3. Stages' BY DEF Stages, Copies, Guarded, Untouched, Replacing, Labels, Exits
  <2>4. LeftAlone' BY DEF LeftAlone, Stages, Copies, Untouched
  <2>5. Moving' BY DEF Moving, Copies, Untouched
  <2>6. Temporary' BY DEF Temporary, Stages, Copies, Untouched
  <2> USE DEF Guarded, Stages, LeftAlone, Moving, Temporary, Copies, Untouched, Replacing, Labels, Exits
  <2>7. NothingLost' BY DEF NothingLost, OldSurvives, MovedSurvives, OldOrNew
  <2>8. EndsAsSaid' BY DEF EndsAsSaid, ZeroMeansReplaced, OneFaultLeavesNoTemp
  <2> QED BY ONLY <2>1, <2>2, <2>3, <2>4, <2>5, <2>6, <2>7, <2>8 DEF ReplaceInv
<1>4. CASE SedOpen
  <2> USE <1>4 DEF SedOpen
  <2>1. TypeOK' BY CallTypes DEF Labels, Exits, Names
  <2> USE DEF TypeOK, Names, OpenToWrite
  <2>2. Copies' BY DEF Copies
  <2>3. Stages' BY DEF Stages, Copies, Guarded, Untouched, Replacing, Labels, Exits
  <2>4. LeftAlone' BY DEF LeftAlone, Stages, Copies, Untouched
  <2>5. Moving' BY DEF Moving, Copies, Untouched
  <2>6. Temporary' BY DEF Temporary, Stages, Copies, Untouched
  <2> USE DEF Guarded, Stages, LeftAlone, Moving, Temporary, Copies, Untouched, Replacing, Labels, Exits
  <2>7. NothingLost' BY DEF NothingLost, OldSurvives, MovedSurvives, OldOrNew
  <2>8. EndsAsSaid' BY DEF EndsAsSaid, ZeroMeansReplaced, OneFaultLeavesNoTemp
  <2> QED BY ONLY <2>1, <2>2, <2>3, <2>4, <2>5, <2>6, <2>7, <2>8 DEF ReplaceInv
<1>5. CASE SedWrite
  <2> USE <1>5 DEF SedWrite
  <2>1. TypeOK' BY CallTypes DEF Labels, Exits, Names
  <2> USE DEF TypeOK, Names, WriteAll, WriteSilentlyFails, WriteFails
  <2>2. Copies' BY DEF Copies
  <2>3. Stages' BY DEF Stages, Copies, Guarded, Untouched, Replacing, Labels, Exits
  <2>4. LeftAlone' BY DEF LeftAlone, Stages, Copies, Untouched
  <2>5. Moving' BY DEF Moving, Copies, Untouched
  <2>6. Temporary' BY DEF Temporary, Stages, Copies, Untouched
  <2> USE DEF Guarded, Stages, LeftAlone, Moving, Temporary, Copies, Untouched, Replacing, Labels, Exits
  <2>7. NothingLost' BY DEF NothingLost, OldSurvives, MovedSurvives, OldOrNew
  <2>8. EndsAsSaid' BY DEF EndsAsSaid, ZeroMeansReplaced, OneFaultLeavesNoTemp
  <2> QED BY ONLY <2>1, <2>2, <2>3, <2>4, <2>5, <2>6, <2>7, <2>8 DEF ReplaceInv
<1>6. CASE SedRemove
  <2> USE <1>6 DEF SedRemove
  <2>1. TypeOK' BY CallTypes DEF Labels, Exits, Names
  <2> USE DEF TypeOK, Names, RemoveAnyway
  <2>2. Copies' BY DEF Copies
  <2>3. Stages' BY DEF Stages, Copies, Guarded, Untouched, Replacing, Labels, Exits
  <2>4. LeftAlone' BY DEF LeftAlone, Stages, Copies, Untouched
  <2>5. Moving' BY DEF Moving, Copies, Untouched
  <2>6. Temporary' BY DEF Temporary, Stages, Copies, Untouched
  <2> USE DEF Guarded, Stages, LeftAlone, Moving, Temporary, Copies, Untouched, Replacing, Labels, Exits
  <2>7. NothingLost' BY DEF NothingLost, OldSurvives, MovedSurvives, OldOrNew
  <2>8. EndsAsSaid' BY DEF EndsAsSaid, ZeroMeansReplaced, OneFaultLeavesNoTemp
  <2> QED BY ONLY <2>1, <2>2, <2>3, <2>4, <2>5, <2>6, <2>7, <2>8 DEF ReplaceInv
<1>7. CASE SedReplace
  <2> USE <1>7 DEF SedReplace
  <2>1. TypeOK' BY CallTypes DEF Labels, Exits, Names
  <2> USE DEF TypeOK, Names, Rename
  <2>2. Copies' BY DEF Copies
  <2>3. Stages' BY DEF Stages, Copies, Guarded, Untouched, Replacing, Labels, Exits
  <2>4. LeftAlone' BY DEF LeftAlone, Stages, Copies, Untouched
  <2>5. Moving' BY DEF Moving, Copies, Untouched
  <2>6. Temporary' BY DEF Temporary, Stages, Copies, Untouched
  <2> USE DEF Guarded, Stages, LeftAlone, Moving, Temporary, Copies, Untouched, Replacing, Labels, Exits
  <2>7. NothingLost' BY DEF NothingLost, OldSurvives, MovedSurvives, OldOrNew
  <2>8. EndsAsSaid' BY DEF EndsAsSaid, ZeroMeansReplaced, OneFaultLeavesNoTemp
  <2> QED BY ONLY <2>1, <2>2, <2>3, <2>4, <2>5, <2>6, <2>7, <2>8 DEF ReplaceInv
<1>8. CASE SedClean
  <2> USE <1>8 DEF SedClean
  <2>1. TypeOK' BY CallTypes DEF Labels, Exits, Names
  <2> USE DEF TypeOK, Names, RemoveAnyway
  <2>2. Copies' BY DEF Copies
  <2>3. Stages' BY DEF Stages, Copies, Guarded, Untouched, Replacing, Labels, Exits
  <2>4. LeftAlone' BY DEF LeftAlone, Stages, Copies, Untouched
  <2>5. Moving' BY DEF Moving, Copies, Untouched
  <2>6. Temporary' BY DEF Temporary, Stages, Copies, Untouched
  <2> USE DEF Guarded, Stages, LeftAlone, Moving, Temporary, Copies, Untouched, Replacing, Labels, Exits
  <2>7. NothingLost' BY DEF NothingLost, OldSurvives, MovedSurvives, OldOrNew
  <2>8. EndsAsSaid' BY DEF EndsAsSaid, ZeroMeansReplaced, OneFaultLeavesNoTemp
  <2> QED BY ONLY <2>1, <2>2, <2>3, <2>4, <2>5, <2>6, <2>7, <2>8 DEF ReplaceInv
<1> QED BY <1>1, <1>2, <1>3, <1>4, <1>5, <1>6, <1>7, <1>8 DEF sed

\* mv keeps it.
LEMMA MvKeeps ==
  ASSUME ReplaceInv, mv
  PROVE  ReplaceInv'
<1> USE FaultCount, ReplaceInv DEF ReplaceInv, Exists, Goto
<1>1. CASE MvLook
  <2> USE <1>1 DEF MvLook
  <2>1. TypeOK' BY CallTypes DEF Labels, Exits, Names
  <2> USE DEF TypeOK, Names, Look
  <2>2. Copies' BY DEF Copies
  <2>3. Stages' BY DEF Stages, Copies, Guarded, Untouched, Replacing, Labels, Exits
  <2>4. LeftAlone' BY DEF LeftAlone, Stages, Copies, Untouched
  <2>5. Moving' BY DEF Moving, Copies, Untouched
  <2>6. Temporary' BY DEF Temporary, Stages, Copies, Untouched
  <2> USE DEF Guarded, Stages, LeftAlone, Moving, Temporary, Copies, Untouched, Replacing, Labels, Exits
  <2>7. NothingLost' BY DEF NothingLost, OldSurvives, MovedSurvives, OldOrNew
  <2>8. EndsAsSaid' BY DEF EndsAsSaid, ZeroMeansReplaced, OneFaultLeavesNoTemp
  <2> QED BY ONLY <2>1, <2>2, <2>3, <2>4, <2>5, <2>6, <2>7, <2>8 DEF ReplaceInv
<1>2. CASE MvSkip
  <2> USE <1>2 DEF MvSkip
  <2>1. TypeOK' BY CallTypes DEF Labels, Exits, Names
  <2> USE DEF TypeOK, Names, Branch, Spared
  <2>2. Copies' BY DEF Copies
  <2>3. Stages' BY DEF Stages, Copies, Guarded, Untouched, Replacing, Labels, Exits
  <2>4. LeftAlone' BY DEF LeftAlone, Stages, Copies, Untouched
  <2>5. Moving' BY DEF Moving, Copies, Untouched
  <2>6. Temporary' BY DEF Temporary, Stages, Copies, Untouched
  <2> USE DEF Guarded, Stages, LeftAlone, Moving, Temporary, Copies, Untouched, Replacing, Labels, Exits
  <2>7. NothingLost' BY DEF NothingLost, OldSurvives, MovedSurvives, OldOrNew
  <2>8. EndsAsSaid' BY DEF EndsAsSaid, ZeroMeansReplaced, OneFaultLeavesNoTemp
  <2> QED BY ONLY <2>1, <2>2, <2>3, <2>4, <2>5, <2>6, <2>7, <2>8 DEF ReplaceInv
<1>3. CASE MvRefuse
  <2> USE <1>3 DEF MvRefuse
  <2>1. TypeOK' BY CallTypes DEF Labels, Exits, Names
  <2> USE DEF TypeOK, Names, Branch
  <2>2. Copies' BY DEF Copies
  <2>3. Stages' BY DEF Stages, Copies, Guarded, Untouched, Replacing, Labels, Exits
  <2>4. LeftAlone' BY DEF LeftAlone, Stages, Copies, Untouched
  <2>5. Moving' BY DEF Moving, Copies, Untouched
  <2>6. Temporary' BY DEF Temporary, Stages, Copies, Untouched
  <2> USE DEF Guarded, Stages, LeftAlone, Moving, Temporary, Copies, Untouched, Replacing, Labels, Exits
  <2>7. NothingLost' BY DEF NothingLost, OldSurvives, MovedSurvives, OldOrNew
  <2>8. EndsAsSaid' BY DEF EndsAsSaid, ZeroMeansReplaced, OneFaultLeavesNoTemp
  <2> QED BY ONLY <2>1, <2>2, <2>3, <2>4, <2>5, <2>6, <2>7, <2>8 DEF ReplaceInv
<1>4. CASE MvGoOn
  <2> USE <1>4 DEF MvGoOn
  <2>1. TypeOK' BY CallTypes DEF Labels, Exits, Names
  <2> USE DEF TypeOK, Names, Branch
  <2>2. Copies' BY DEF Copies
  <2>3. Stages' BY DEF Stages, Copies, Guarded, Untouched, Replacing, Labels, Exits
  <2>4. LeftAlone' BY DEF LeftAlone, Stages, Copies, Untouched
  <2>5. Moving' BY DEF Moving, Copies, Untouched
  <2>6. Temporary' BY DEF Temporary, Stages, Copies, Untouched
  <2> USE DEF Guarded, Stages, LeftAlone, Moving, Temporary, Copies, Untouched, Replacing, Labels, Exits
  <2>7. NothingLost' BY DEF NothingLost, OldSurvives, MovedSurvives, OldOrNew
  <2>8. EndsAsSaid' BY DEF EndsAsSaid, ZeroMeansReplaced, OneFaultLeavesNoTemp
  <2> QED BY ONLY <2>1, <2>2, <2>3, <2>4, <2>5, <2>6, <2>7, <2>8 DEF ReplaceInv
<1>5. CASE MvBackup
  <2> USE <1>5 DEF MvBackup
  <2>1. TypeOK' BY CallTypes DEF Labels, Exits, Names
  <2> USE DEF TypeOK, Names, Rename, Branch
  <2>2. Copies' BY DEF Copies
  <2>3. Stages' BY DEF Stages, Copies, Guarded, Untouched, Replacing, Labels, Exits
  <2>4. LeftAlone' BY DEF LeftAlone, Stages, Copies, Untouched
  <2>5. Moving' BY DEF Moving, Copies, Untouched
  <2>6. Temporary' BY DEF Temporary, Stages, Copies, Untouched
  <2> USE DEF Guarded, Stages, LeftAlone, Moving, Temporary, Copies, Untouched, Replacing, Labels, Exits
  <2>7. NothingLost' BY ZenonT(40) DEF NothingLost, OldSurvives, MovedSurvives, OldOrNew
  <2>8. EndsAsSaid' BY DEF EndsAsSaid, ZeroMeansReplaced, OneFaultLeavesNoTemp
  <2> QED BY ONLY <2>1, <2>2, <2>3, <2>4, <2>5, <2>6, <2>7, <2>8 DEF ReplaceInv
<1>6. CASE MvRename
  <2> USE <1>6 DEF MvRename
  <2>1. TypeOK' BY CallTypes DEF Labels, Exits, Names
  <2> USE DEF TypeOK, Names, Rename, Branch
  <2>2. Copies' BY DEF Copies
  <2>3. Stages' BY DEF Stages, Copies, Guarded, Untouched, Replacing, Labels, Exits
  <2>4. LeftAlone' BY DEF LeftAlone, Stages, Copies, Untouched
  <2>5. Moving' BY DEF Moving, Copies, Untouched
  <2>6. Temporary' BY DEF Temporary, Stages, Copies, Untouched
  <2> USE DEF Guarded, Stages, LeftAlone, Moving, Temporary, Copies, Untouched, Replacing, Labels, Exits
  <2>7. NothingLost' BY DEF NothingLost, OldSurvives, MovedSurvives, OldOrNew
  <2>8. EndsAsSaid' BY DEF EndsAsSaid, ZeroMeansReplaced, OneFaultLeavesNoTemp
  <2> QED BY ONLY <2>1, <2>2, <2>3, <2>4, <2>5, <2>6, <2>7, <2>8 DEF ReplaceInv
<1>7. CASE MvCopy
  <2> USE <1>7 DEF MvCopy
  <2>1. TypeOK' BY CallTypes DEF Labels, Exits, Names
  <2> USE DEF TypeOK, Names, BeginCopy, Branch
  <2>2. Copies' BY DEF Copies
  <2>3. Stages' BY DEF Stages, Copies, Guarded, Untouched, Replacing, Labels, Exits
  <2>4. LeftAlone' BY DEF LeftAlone, Stages, Copies, Untouched
  <2>5. Moving' BY DEF Moving, Copies, Untouched
  <2>6. Temporary' BY DEF Temporary, Stages, Copies, Untouched
  <2> USE DEF Guarded, Stages, LeftAlone, Moving, Temporary, Copies, Untouched, Replacing, Labels, Exits
  <2>7. NothingLost' BY DEF NothingLost, OldSurvives, MovedSurvives, OldOrNew
  <2>8. EndsAsSaid' BY DEF EndsAsSaid, ZeroMeansReplaced, OneFaultLeavesNoTemp
  <2> QED BY ONLY <2>1, <2>2, <2>3, <2>4, <2>5, <2>6, <2>7, <2>8 DEF ReplaceInv
<1>8. CASE MvDelete
  <2> USE <1>8 DEF MvDelete
  <2>1. TypeOK'
    <3>1. CASE WriteFails("exit 1") BY <3>1, CallTypes DEF Labels, Exits, Names
    <3>2. CASE ~WriteFails("exit 1")
      BY <3>2, ZenonT(40) DEF TypeOK, Labels, Exits, Names, Contents, Works
    <3> QED BY <3>1, <3>2
  <2> USE DEF TypeOK, Names, WriteFails
  <2>2. Copies' BY DEF Copies
  <2>3. Stages' BY DEF Stages, Copies, Guarded, Untouched, Replacing, Labels, Exits
  <2>4. LeftAlone' BY DEF LeftAlone, Stages, Copies, Untouched
  <2>5. Moving' BY DEF Moving, Copies, Untouched
  <2>6. Temporary' BY DEF Temporary, Stages, Copies, Untouched
  <2> USE DEF Guarded, Stages, LeftAlone, Moving, Temporary, Copies, Untouched, Replacing, Labels, Exits
  <2>7. NothingLost' BY DEF NothingLost, OldSurvives, MovedSurvives, OldOrNew
  <2>8. EndsAsSaid' BY DEF EndsAsSaid, ZeroMeansReplaced, OneFaultLeavesNoTemp
  <2> QED BY ONLY <2>1, <2>2, <2>3, <2>4, <2>5, <2>6, <2>7, <2>8 DEF ReplaceInv
<1> QED BY <1>1, <1>2, <1>3, <1>4, <1>5, <1>6, <1>7, <1>8 DEF mv

\* cp keeps it.
LEMMA CpKeeps ==
  ASSUME ReplaceInv, cp
  PROVE  ReplaceInv'
<1> USE FaultCount, ReplaceInv DEF ReplaceInv, Exists, Goto
<1>1. CASE CpSelf
  <2> USE <1>1 DEF CpSelf
  <2>1. TypeOK' BY CallTypes DEF Labels, Exits, Names
  <2> USE DEF TypeOK, Names, BeginCopy, Branch
  <2>2. Copies'
    <3>1. CASE Exists("dst") /\ job.force /\ job.backup
      <4>1. BeginCopy("dst", "bak", "skipped", "exit 1") BY <3>1
      <4> HIDE DEF CpSelf, BeginCopy
      <4> QED BY <4>1, CopyBegins, job.op = "cp", ZenonT(40) DEF Copies, CpSelf
    <3>2. CASE ~(Exists("dst") /\ job.force /\ job.backup) BY <3>2 DEF Copies
    <3> QED BY <3>1, <3>2
  <2>3. Stages' BY DEF Stages, Copies, Guarded, Untouched, Replacing, Labels, Exits
  <2>4. LeftAlone'
    <3>1. CASE Exists("dst") /\ job.force /\ job.backup
      <4>1. BeginCopy("dst", "bak", "skipped", "exit 1") BY <3>1
      <4>2. /\ pc = "look" /\ had' = had /\ pc' \in {"copying", "exit 1"}
            /\ dir'["dst"] = dir["dst"]
        BY <3>1
      <4> HIDE DEF CpSelf, BeginCopy
      <4>3. job' = job /\ (pc' = "copying" => copying'.ok = "skipped")
        BY <4>1, CopyBegins
      <4>4. job.op = "cp" /\ job'.op = job.op BY <4>3 DEF CpSelf
      <4>5. CASE job.keep = "clobber" /\ had = "old"
        <5>1. dir["dst"] = "old" BY <4>2, <4>4, <4>5 DEF LeftAlone
        <5> QED BY <4>2, <4>3, <4>4, <5>1 DEF LeftAlone
      <4>6. CASE ~(job.keep = "clobber" /\ had = "old")
        BY <4>2, <4>3, <4>6 DEF LeftAlone
      <4> QED BY <4>5, <4>6
    <3>2. CASE ~(Exists("dst") /\ job.force /\ job.backup)
      BY <3>2 DEF LeftAlone, Stages, Untouched
    <3> QED BY <3>1, <3>2
  <2>5. Moving' BY DEF Moving, Copies, Untouched
  <2>6. Temporary' BY DEF Temporary, Stages, Copies, Untouched
  <2> USE DEF Guarded, Stages, LeftAlone, Moving, Temporary, Copies, Untouched, Replacing, Labels, Exits
  <2>7. NothingLost' BY DEF NothingLost, OldSurvives, MovedSurvives, OldOrNew
  <2>8. EndsAsSaid' BY DEF EndsAsSaid, ZeroMeansReplaced, OneFaultLeavesNoTemp
  <2> QED BY ONLY <2>1, <2>2, <2>3, <2>4, <2>5, <2>6, <2>7, <2>8 DEF ReplaceInv
<1>2. CASE CpLook
  <2> USE <1>2 DEF CpLook
  <2>1. TypeOK' BY CallTypes DEF Labels, Exits, Names
  <2> USE DEF TypeOK, Names, Look
  <2>2. Copies' BY DEF Copies
  <2>3. Stages' BY DEF Stages, Copies, Guarded, Untouched, Replacing, Labels, Exits
  <2>4. LeftAlone' BY DEF LeftAlone, Stages, Copies, Untouched
  <2>5. Moving' BY DEF Moving, Copies, Untouched
  <2>6. Temporary' BY DEF Temporary, Stages, Copies, Untouched
  <2> USE DEF Guarded, Stages, LeftAlone, Moving, Temporary, Copies, Untouched, Replacing, Labels, Exits
  <2>7. NothingLost' BY DEF NothingLost, OldSurvives, MovedSurvives, OldOrNew
  <2>8. EndsAsSaid' BY DEF EndsAsSaid, ZeroMeansReplaced, OneFaultLeavesNoTemp
  <2> QED BY ONLY <2>1, <2>2, <2>3, <2>4, <2>5, <2>6, <2>7, <2>8 DEF ReplaceInv
<1>3. CASE CpSkip
  <2> USE <1>3 DEF CpSkip
  <2>1. TypeOK' BY CallTypes DEF Labels, Exits, Names
  <2> USE DEF TypeOK, Names, Branch, Spared
  <2>2. Copies' BY DEF Copies
  <2>3. Stages' BY DEF Stages, Copies, Guarded, Untouched, Replacing, Labels, Exits
  <2>4. LeftAlone' BY DEF LeftAlone, Stages, Copies, Untouched
  <2>5. Moving' BY DEF Moving, Copies, Untouched
  <2>6. Temporary' BY DEF Temporary, Stages, Copies, Untouched
  <2> USE DEF Guarded, Stages, LeftAlone, Moving, Temporary, Copies, Untouched, Replacing, Labels, Exits
  <2>7. NothingLost' BY DEF NothingLost, OldSurvives, MovedSurvives, OldOrNew
  <2>8. EndsAsSaid' BY DEF EndsAsSaid, ZeroMeansReplaced, OneFaultLeavesNoTemp
  <2> QED BY ONLY <2>1, <2>2, <2>3, <2>4, <2>5, <2>6, <2>7, <2>8 DEF ReplaceInv
<1>4. CASE CpGoOn
  <2> USE <1>4 DEF CpGoOn
  <2>1. TypeOK' BY CallTypes DEF Labels, Exits, Names
  <2> USE DEF TypeOK, Names, Branch
  <2>2. Copies' BY DEF Copies
  <2>3. Stages' BY DEF Stages, Copies, Guarded, Untouched, Replacing, Labels, Exits
  <2>4. LeftAlone' BY DEF LeftAlone, Stages, Copies, Untouched
  <2>5. Moving' BY DEF Moving, Copies, Untouched
  <2>6. Temporary' BY DEF Temporary, Stages, Copies, Untouched
  <2> USE DEF Guarded, Stages, LeftAlone, Moving, Temporary, Copies, Untouched, Replacing, Labels, Exits
  <2>7. NothingLost' BY DEF NothingLost, OldSurvives, MovedSurvives, OldOrNew
  <2>8. EndsAsSaid' BY DEF EndsAsSaid, ZeroMeansReplaced, OneFaultLeavesNoTemp
  <2> QED BY ONLY <2>1, <2>2, <2>3, <2>4, <2>5, <2>6, <2>7, <2>8 DEF ReplaceInv
<1>5. CASE CpBackup
  <2> USE <1>5 DEF CpBackup
  <2>1. TypeOK' BY CallTypes DEF Labels, Exits, Names
  <2> USE DEF TypeOK, Names, BeginCopy, Branch
  <2>2. Copies'
    <3>1. CASE job.backup /\ seen
      <4>1. BeginCopy("dst", "bak", "attr", IF job.force THEN "attr" ELSE "exit 1")
        BY <3>1
      <4>2. (IF job.force THEN "attr" ELSE "exit 1") # "copying" OBVIOUS
      <4> HIDE DEF CpBackup, BeginCopy
      <4>3. job.op = "cp" BY DEF CpBackup
      <4> DEFINE bad == IF job.force THEN "attr" ELSE "exit 1"
      <4>4. BeginCopy("dst", "bak", "attr", bad) /\ bad # "copying" BY <4>1, <4>2
      <4> HIDE DEF CpBackup, BeginCopy, bad
      <4>5. /\ job' = job
            /\ pc' = "copying" => /\ copying'.from = "dst" /\ copying'.to = "bak"
                                 /\ copying'.ok = "attr" /\ copying'.bad = bad
        BY <4>4, CopyBegins
      <4> QED BY <4>3, <4>5 DEF Copies, bad
    <3>2. CASE ~(job.backup /\ seen) BY <3>2 DEF Copies
    <3> QED BY <3>1, <3>2
  <2>3. Stages' BY DEF Stages, Copies, Guarded, Untouched, Replacing, Labels, Exits
  <2>4. LeftAlone' BY DEF LeftAlone, Stages, Copies, Untouched
  <2>5. Moving' BY DEF Moving, Copies, Untouched
  <2>6. Temporary' BY DEF Temporary, Stages, Copies, Untouched
  <2> USE DEF Guarded, Stages, LeftAlone, Moving, Temporary, Copies, Untouched, Replacing, Labels, Exits
  <2>7. NothingLost' BY DEF NothingLost, OldSurvives, MovedSurvives, OldOrNew
  <2>8. EndsAsSaid' BY DEF EndsAsSaid, ZeroMeansReplaced, OneFaultLeavesNoTemp
  <2> QED BY ONLY <2>1, <2>2, <2>3, <2>4, <2>5, <2>6, <2>7, <2>8 DEF ReplaceInv
<1>6. CASE CpOpenSource
  <2> USE <1>6 DEF CpOpenSource
  <2>1. TypeOK' BY CallTypes DEF Labels, Exits, Names
  <2> USE DEF TypeOK, Names, Branch, WriteFails
  <2>2. Copies' BY DEF Copies
  <2>3. Stages' BY DEF Stages, Copies, Guarded, Untouched, Replacing, Labels, Exits
  <2>4. LeftAlone' BY DEF LeftAlone, Stages, Copies, Untouched
  <2>5. Moving' BY DEF Moving, Copies, Untouched
  <2>6. Temporary' BY DEF Temporary, Stages, Copies, Untouched
  <2> USE DEF Guarded, Stages, LeftAlone, Moving, Temporary, Copies, Untouched, Replacing, Labels, Exits
  <2>7. NothingLost' BY DEF NothingLost, OldSurvives, MovedSurvives, OldOrNew
  <2>8. EndsAsSaid' BY DEF EndsAsSaid, ZeroMeansReplaced, OneFaultLeavesNoTemp
  <2> QED BY ONLY <2>1, <2>2, <2>3, <2>4, <2>5, <2>6, <2>7, <2>8 DEF ReplaceInv
<1>7. CASE CpDelete
  <2> USE <1>7 DEF CpDelete
  <2>1. TypeOK' BY CallTypes DEF Labels, Exits, Names
  <2> USE DEF TypeOK, Names, RemoveAnyway
  <2>2. Copies' BY DEF Copies
  <2>3. Stages' BY DEF Stages, Copies, Guarded, Untouched, Replacing, Labels, Exits
  <2>4. LeftAlone' BY DEF LeftAlone, Stages, Copies, Untouched
  <2>5. Moving' BY DEF Moving, Copies, Untouched
  <2>6. Temporary' BY DEF Temporary, Stages, Copies, Untouched
  <2> USE DEF Guarded, Stages, LeftAlone, Moving, Temporary, Copies, Untouched, Replacing, Labels, Exits
  <2>7. NothingLost' BY DEF NothingLost, OldSurvives, MovedSurvives, OldOrNew
  <2>8. EndsAsSaid' BY DEF EndsAsSaid, ZeroMeansReplaced, OneFaultLeavesNoTemp
  <2> QED BY ONLY <2>1, <2>2, <2>3, <2>4, <2>5, <2>6, <2>7, <2>8 DEF ReplaceInv
<1>8. CASE CpOpen
  <2> USE <1>8 DEF CpOpen
  <2>1. TypeOK' BY CallTypes DEF Labels, Exits, Names
  <2> USE DEF TypeOK, Names, OpenToWrite
  <2>2. Copies' BY DEF Copies
  <2>3. Stages' BY DEF Stages, Copies, Guarded, Untouched, Replacing, Labels, Exits
  <2>4. LeftAlone' BY DEF LeftAlone, Stages, Copies, Untouched
  <2>5. Moving' BY DEF Moving, Copies, Untouched
  <2>6. Temporary' BY DEF Temporary, Stages, Copies, Untouched
  <2> USE DEF Guarded, Stages, LeftAlone, Moving, Temporary, Copies, Untouched, Replacing, Labels, Exits
  <2>7. NothingLost' BY DEF NothingLost, OldSurvives, MovedSurvives, OldOrNew
  <2>8. EndsAsSaid' BY DEF EndsAsSaid, ZeroMeansReplaced, OneFaultLeavesNoTemp
  <2> QED BY ONLY <2>1, <2>2, <2>3, <2>4, <2>5, <2>6, <2>7, <2>8 DEF ReplaceInv
<1>9. CASE CpDeleteAgain
  <2> USE <1>9 DEF CpDeleteAgain
  <2>1. TypeOK' BY CallTypes DEF Labels, Exits, Names
  <2> USE DEF TypeOK, Names, RemoveAnyway
  <2>2. Copies' BY DEF Copies
  <2>3. Stages' BY DEF Stages, Copies, Guarded, Untouched, Replacing, Labels, Exits
  <2>4. LeftAlone' BY DEF LeftAlone, Stages, Copies, Untouched
  <2>5. Moving' BY DEF Moving, Copies, Untouched
  <2>6. Temporary' BY DEF Temporary, Stages, Copies, Untouched
  <2> USE DEF Guarded, Stages, LeftAlone, Moving, Temporary, Copies, Untouched, Replacing, Labels, Exits
  <2>7. NothingLost' BY DEF NothingLost, OldSurvives, MovedSurvives, OldOrNew
  <2>8. EndsAsSaid' BY DEF EndsAsSaid, ZeroMeansReplaced, OneFaultLeavesNoTemp
  <2> QED BY ONLY <2>1, <2>2, <2>3, <2>4, <2>5, <2>6, <2>7, <2>8 DEF ReplaceInv
<1>10. CASE CpReopen
  <2> USE <1>10 DEF CpReopen
  <2>1. TypeOK' BY CallTypes DEF Labels, Exits, Names
  <2> USE DEF TypeOK, Names, OpenToWrite
  <2>2. Copies' BY DEF Copies
  <2>3. Stages' BY DEF Stages, Copies, Guarded, Untouched, Replacing, Labels, Exits
  <2>4. LeftAlone' BY DEF LeftAlone, Stages, Copies, Untouched
  <2>5. Moving' BY DEF Moving, Copies, Untouched
  <2>6. Temporary' BY DEF Temporary, Stages, Copies, Untouched
  <2> USE DEF Guarded, Stages, LeftAlone, Moving, Temporary, Copies, Untouched, Replacing, Labels, Exits
  <2>7. NothingLost' BY DEF NothingLost, OldSurvives, MovedSurvives, OldOrNew
  <2>8. EndsAsSaid' BY DEF EndsAsSaid, ZeroMeansReplaced, OneFaultLeavesNoTemp
  <2> QED BY ONLY <2>1, <2>2, <2>3, <2>4, <2>5, <2>6, <2>7, <2>8 DEF ReplaceInv
<1>11. CASE CpWrite
  <2> USE <1>11 DEF CpWrite
  <2>1. TypeOK' BY CallTypes DEF Labels, Exits, Names
  <2> USE DEF TypeOK, Names, WriteAll, WriteSilentlyFails, WriteFails
  <2>2. Copies' BY DEF Copies
  <2>3. Stages' BY DEF Stages, Copies, Guarded, Untouched, Replacing, Labels, Exits
  <2>4. LeftAlone' BY DEF LeftAlone, Stages, Copies, Untouched
  <2>5. Moving' BY DEF Moving, Copies, Untouched
  <2>6. Temporary' BY DEF Temporary, Stages, Copies, Untouched
  <2> USE DEF Guarded, Stages, LeftAlone, Moving, Temporary, Copies, Untouched, Replacing, Labels, Exits
  <2>7. NothingLost' BY DEF NothingLost, OldSurvives, MovedSurvives, OldOrNew
  <2>8. EndsAsSaid' BY DEF EndsAsSaid, ZeroMeansReplaced, OneFaultLeavesNoTemp
  <2> QED BY ONLY <2>1, <2>2, <2>3, <2>4, <2>5, <2>6, <2>7, <2>8 DEF ReplaceInv
<1> QED BY <1>1, <1>2, <1>3, <1>4, <1>5, <1>6, <1>7, <1>8, <1>9, <1>10, <1>11 DEF cp

\* install keeps it.
LEMMA InstallKeeps ==
  ASSUME ReplaceInv, install
  PROVE  ReplaceInv'
<1> USE FaultCount, ReplaceInv DEF ReplaceInv, Exists, Goto
<1>1. CASE InstallLook
  <2> USE <1>1 DEF InstallLook
  <2>1. TypeOK' BY CallTypes DEF Labels, Exits, Names
  <2> USE DEF TypeOK, Names, Branch
  <2>2. Copies' BY DEF Copies
  <2>3. Stages' BY DEF Stages, Copies, Guarded, Untouched, Replacing, Labels, Exits
  <2>4. LeftAlone' BY DEF LeftAlone, Stages, Copies, Untouched
  <2>5. Moving' BY DEF Moving, Copies, Untouched
  <2>6. Temporary' BY DEF Temporary, Stages, Copies, Untouched
  <2> USE DEF Guarded, Stages, LeftAlone, Moving, Temporary, Copies, Untouched, Replacing, Labels, Exits
  <2>7. NothingLost' BY DEF NothingLost, OldSurvives, MovedSurvives, OldOrNew
  <2>8. EndsAsSaid' BY DEF EndsAsSaid, ZeroMeansReplaced, OneFaultLeavesNoTemp
  <2> QED BY ONLY <2>1, <2>2, <2>3, <2>4, <2>5, <2>6, <2>7, <2>8 DEF ReplaceInv
<1>2. CASE InstallBackup
  <2> USE <1>2 DEF InstallBackup
  <2>1. TypeOK' BY CallTypes DEF Labels, Exits, Names
  <2> USE DEF TypeOK, Names, Rename, Branch
  <2>2. Copies' BY DEF Copies
  <2>3. Stages' BY DEF Stages, Copies, Guarded, Untouched, Replacing, Labels, Exits
  <2>4. LeftAlone' BY DEF LeftAlone, Stages, Copies, Untouched
  <2>5. Moving' BY DEF Moving, Copies, Untouched
  <2>6. Temporary' BY DEF Temporary, Stages, Copies, Untouched
  <2> USE DEF Guarded, Stages, LeftAlone, Moving, Temporary, Copies, Untouched, Replacing, Labels, Exits
  <2>7. NothingLost' BY DEF NothingLost, OldSurvives, MovedSurvives, OldOrNew
  <2>8. EndsAsSaid' BY DEF EndsAsSaid, ZeroMeansReplaced, OneFaultLeavesNoTemp
  <2> QED BY ONLY <2>1, <2>2, <2>3, <2>4, <2>5, <2>6, <2>7, <2>8 DEF ReplaceInv
<1>3. CASE InstallCopy
  <2> USE <1>3 DEF InstallCopy
  <2>1. TypeOK' BY CallTypes DEF Labels, Exits, Names
  <2> USE DEF TypeOK, Names, BeginCopy
  <2>2. Copies' BY DEF Copies
  <2>3. Stages' BY DEF Stages, Copies, Guarded, Untouched, Replacing, Labels, Exits
  <2>4. LeftAlone' BY DEF LeftAlone, Stages, Copies, Untouched
  <2>5. Moving' BY DEF Moving, Copies, Untouched
  <2>6. Temporary' BY DEF Temporary, Stages, Copies, Untouched
  <2> USE DEF Guarded, Stages, LeftAlone, Moving, Temporary, Copies, Untouched, Replacing, Labels, Exits
  <2>7. NothingLost' BY DEF NothingLost, OldSurvives, MovedSurvives, OldOrNew
  <2>8. EndsAsSaid' BY DEF EndsAsSaid, ZeroMeansReplaced, OneFaultLeavesNoTemp
  <2> QED BY ONLY <2>1, <2>2, <2>3, <2>4, <2>5, <2>6, <2>7, <2>8 DEF ReplaceInv
<1> QED BY <1>1, <1>2, <1>3 DEF install

\* patch keeps it.
LEMMA PatchKeeps ==
  ASSUME ReplaceInv, patchFile
  PROVE  ReplaceInv'
<1> USE FaultCount, ReplaceInv DEF ReplaceInv, Exists, Goto
<1>1. CASE PatchRead
  <2> USE <1>1 DEF PatchRead
  <2>1. TypeOK' BY CallTypes DEF Labels, Exits, Names
  <2> USE DEF TypeOK, Names, Branch
  <2>2. Copies' BY DEF Copies
  <2>3. Stages' BY DEF Stages, Copies, Guarded, Untouched, Replacing, Labels, Exits
  <2>4. LeftAlone' BY DEF LeftAlone, Stages, Copies, Untouched
  <2>5. Moving' BY DEF Moving, Copies, Untouched
  <2>6. Temporary' BY DEF Temporary, Stages, Copies, Untouched
  <2> USE DEF Guarded, Stages, LeftAlone, Moving, Temporary, Copies, Untouched, Replacing, Labels, Exits
  <2>7. NothingLost' BY DEF NothingLost, OldSurvives, MovedSurvives, OldOrNew
  <2>8. EndsAsSaid' BY DEF EndsAsSaid, ZeroMeansReplaced, OneFaultLeavesNoTemp
  <2> QED BY ONLY <2>1, <2>2, <2>3, <2>4, <2>5, <2>6, <2>7, <2>8 DEF ReplaceInv
<1>2. CASE PatchOpen
  <2> USE <1>2 DEF PatchOpen
  <2>1. TypeOK' BY CallTypes DEF Labels, Exits, Names
  <2> USE DEF TypeOK, Names, Branch, OpenToWrite
  <2>2. Copies' BY DEF Copies
  <2>3. Stages' BY DEF Stages, Copies, Guarded, Untouched, Replacing, Labels, Exits
  <2>4. LeftAlone' BY DEF LeftAlone, Stages, Copies, Untouched
  <2>5. Moving' BY DEF Moving, Copies, Untouched
  <2>6. Temporary' BY DEF Temporary, Stages, Copies, Untouched
  <2> USE DEF Guarded, Stages, LeftAlone, Moving, Temporary, Copies, Untouched, Replacing, Labels, Exits
  <2>7. NothingLost' BY DEF NothingLost, OldSurvives, MovedSurvives, OldOrNew
  <2>8. EndsAsSaid' BY DEF EndsAsSaid, ZeroMeansReplaced, OneFaultLeavesNoTemp
  <2> QED BY ONLY <2>1, <2>2, <2>3, <2>4, <2>5, <2>6, <2>7, <2>8 DEF ReplaceInv
<1>3. CASE PatchWrite
  <2> USE <1>3 DEF PatchWrite
  <2>1. TypeOK' BY CallTypes DEF Labels, Exits, Names
  <2> USE DEF TypeOK, Names, WriteAll, WriteSilentlyFails
  <2>2. Copies' BY DEF Copies
  <2>3. Stages' BY DEF Stages, Copies, Guarded, Untouched, Replacing, Labels, Exits
  <2>4. LeftAlone' BY DEF LeftAlone, Stages, Copies, Untouched
  <2>5. Moving' BY DEF Moving, Copies, Untouched
  <2>6. Temporary' BY DEF Temporary, Stages, Copies, Untouched
  <2> USE DEF Guarded, Stages, LeftAlone, Moving, Temporary, Copies, Untouched, Replacing, Labels, Exits
  <2>7. NothingLost' BY DEF NothingLost, OldSurvives, MovedSurvives, OldOrNew
  <2>8. EndsAsSaid' BY DEF EndsAsSaid, ZeroMeansReplaced, OneFaultLeavesNoTemp
  <2> QED BY ONLY <2>1, <2>2, <2>3, <2>4, <2>5, <2>6, <2>7, <2>8 DEF ReplaceInv
<1> QED BY <1>1, <1>2, <1>3 DEF patchFile

\* ln keeps it.
LEMMA LnKeeps ==
  ASSUME ReplaceInv, ln
  PROVE  ReplaceInv'
<1> USE FaultCount, ReplaceInv DEF ReplaceInv, Exists, Goto
<1>1. CASE LnLook
  <2> USE <1>1 DEF LnLook
  <2>1. TypeOK' BY CallTypes DEF Labels, Exits, Names
  <2> USE DEF TypeOK, Names, Look
  <2>2. Copies' BY DEF Copies
  <2>3. Stages' BY DEF Stages, Copies, Guarded, Untouched, Replacing, Labels, Exits
  <2>4. LeftAlone' BY DEF LeftAlone, Stages, Copies, Untouched
  <2>5. Moving' BY DEF Moving, Copies, Untouched
  <2>6. Temporary' BY DEF Temporary, Stages, Copies, Untouched
  <2> USE DEF Guarded, Stages, LeftAlone, Moving, Temporary, Copies, Untouched, Replacing, Labels, Exits
  <2>7. NothingLost' BY DEF NothingLost, OldSurvives, MovedSurvives, OldOrNew
  <2>8. EndsAsSaid' BY DEF EndsAsSaid, ZeroMeansReplaced, OneFaultLeavesNoTemp
  <2> QED BY ONLY <2>1, <2>2, <2>3, <2>4, <2>5, <2>6, <2>7, <2>8 DEF ReplaceInv
<1>2. CASE LnRefuse
  <2> USE <1>2 DEF LnRefuse
  <2>1. TypeOK' BY CallTypes DEF Labels, Exits, Names
  <2> USE DEF TypeOK, Names, Branch
  <2>2. Copies' BY DEF Copies
  <2>3. Stages' BY DEF Stages, Copies, Guarded, Untouched, Replacing, Labels, Exits
  <2>4. LeftAlone' BY DEF LeftAlone, Stages, Copies, Untouched
  <2>5. Moving' BY DEF Moving, Copies, Untouched
  <2>6. Temporary' BY DEF Temporary, Stages, Copies, Untouched
  <2> USE DEF Guarded, Stages, LeftAlone, Moving, Temporary, Copies, Untouched, Replacing, Labels, Exits
  <2>7. NothingLost' BY DEF NothingLost, OldSurvives, MovedSurvives, OldOrNew
  <2>8. EndsAsSaid' BY DEF EndsAsSaid, ZeroMeansReplaced, OneFaultLeavesNoTemp
  <2> QED BY ONLY <2>1, <2>2, <2>3, <2>4, <2>5, <2>6, <2>7, <2>8 DEF ReplaceInv
<1>3. CASE LnGoOn
  <2> USE <1>3 DEF LnGoOn
  <2>1. TypeOK' BY CallTypes DEF Labels, Exits, Names
  <2> USE DEF TypeOK, Names, Branch
  <2>2. Copies' BY DEF Copies
  <2>3. Stages' BY DEF Stages, Copies, Guarded, Untouched, Replacing, Labels, Exits
  <2>4. LeftAlone' BY DEF LeftAlone, Stages, Copies, Untouched
  <2>5. Moving' BY DEF Moving, Copies, Untouched
  <2>6. Temporary' BY DEF Temporary, Stages, Copies, Untouched
  <2> USE DEF Guarded, Stages, LeftAlone, Moving, Temporary, Copies, Untouched, Replacing, Labels, Exits
  <2>7. NothingLost' BY DEF NothingLost, OldSurvives, MovedSurvives, OldOrNew
  <2>8. EndsAsSaid' BY DEF EndsAsSaid, ZeroMeansReplaced, OneFaultLeavesNoTemp
  <2> QED BY ONLY <2>1, <2>2, <2>3, <2>4, <2>5, <2>6, <2>7, <2>8 DEF ReplaceInv
<1>4. CASE LnDropBackup
  <2> USE <1>4 DEF LnDropBackup
  <2>1. TypeOK' BY CallTypes DEF Labels, Exits, Names
  <2> USE DEF TypeOK, Names, RemoveAnyway
  <2>2. Copies' BY DEF Copies
  <2>3. Stages' BY DEF Stages, Copies, Guarded, Untouched, Replacing, Labels, Exits
  <2>4. LeftAlone' BY DEF LeftAlone, Stages, Copies, Untouched
  <2>5. Moving' BY DEF Moving, Copies, Untouched
  <2>6. Temporary' BY DEF Temporary, Stages, Copies, Untouched
  <2> USE DEF Guarded, Stages, LeftAlone, Moving, Temporary, Copies, Untouched, Replacing, Labels, Exits
  <2>7. NothingLost' BY DEF NothingLost, OldSurvives, MovedSurvives, OldOrNew
  <2>8. EndsAsSaid' BY DEF EndsAsSaid, ZeroMeansReplaced, OneFaultLeavesNoTemp
  <2> QED BY ONLY <2>1, <2>2, <2>3, <2>4, <2>5, <2>6, <2>7, <2>8 DEF ReplaceInv
<1>5. CASE LnBackup
  <2> USE <1>5 DEF LnBackup
  <2>1. TypeOK' BY CallTypes DEF Labels, Exits, Names
  <2> USE DEF TypeOK, Names, Rename, Branch
  <2>2. Copies' BY DEF Copies
  <2>3. Stages' BY DEF Stages, Copies, Guarded, Untouched, Replacing, Labels, Exits
  <2>4. LeftAlone' BY DEF LeftAlone, Stages, Copies, Untouched
  <2>5. Moving' BY DEF Moving, Copies, Untouched
  <2>6. Temporary' BY DEF Temporary, Stages, Copies, Untouched
  <2> USE DEF Guarded, Stages, LeftAlone, Moving, Temporary, Copies, Untouched, Replacing, Labels, Exits
  <2>7. NothingLost' BY ZenonT(40) DEF NothingLost, OldSurvives, MovedSurvives, OldOrNew
  <2>8. EndsAsSaid' BY DEF EndsAsSaid, ZeroMeansReplaced, OneFaultLeavesNoTemp
  <2> QED BY ONLY <2>1, <2>2, <2>3, <2>4, <2>5, <2>6, <2>7, <2>8 DEF ReplaceInv
<1>6. CASE LnDelete
  <2> USE <1>6 DEF LnDelete
  <2>1. TypeOK'
    <3>1. CASE WriteFails("exit 1") BY <3>1, CallTypes DEF Labels, Exits, Names
    <3>2. CASE ~WriteFails("exit 1")
      BY <3>2, ZenonT(40) DEF TypeOK, Labels, Exits, Names, Contents, Works
    <3> QED BY <3>1, <3>2
  <2> USE DEF TypeOK, Names, WriteFails
  <2>2. Copies' BY DEF Copies
  <2>3. Stages' BY DEF Stages, Copies, Guarded, Untouched, Replacing, Labels, Exits
  <2>4. LeftAlone' BY DEF LeftAlone, Stages, Copies, Untouched
  <2>5. Moving' BY DEF Moving, Copies, Untouched
  <2>6. Temporary' BY DEF Temporary, Stages, Copies, Untouched
  <2> USE DEF Guarded, Stages, LeftAlone, Moving, Temporary, Copies, Untouched, Replacing, Labels, Exits
  <2>7. NothingLost' BY DEF NothingLost, OldSurvives, MovedSurvives, OldOrNew
  <2>8. EndsAsSaid' BY DEF EndsAsSaid, ZeroMeansReplaced, OneFaultLeavesNoTemp
  <2> QED BY ONLY <2>1, <2>2, <2>3, <2>4, <2>5, <2>6, <2>7, <2>8 DEF ReplaceInv
<1>7. CASE LnLink
  <2> USE <1>7 DEF LnLink
  <2>1. TypeOK' BY CallTypes DEF Labels, Exits, Names
  <2> USE DEF TypeOK, Names, Branch, WriteAll, WriteFails
  <2>2. Copies' BY DEF Copies
  <2>3. Stages' BY DEF Stages, Copies, Guarded, Untouched, Replacing, Labels, Exits
  <2>4. LeftAlone' BY DEF LeftAlone, Stages, Copies, Untouched
  <2>5. Moving' BY DEF Moving, Copies, Untouched
  <2>6. Temporary' BY DEF Temporary, Stages, Copies, Untouched
  <2> USE DEF Guarded, Stages, LeftAlone, Moving, Temporary, Copies, Untouched, Replacing, Labels, Exits
  <2>7. NothingLost' BY DEF NothingLost, OldSurvives, MovedSurvives, OldOrNew
  <2>8. EndsAsSaid' BY DEF EndsAsSaid, ZeroMeansReplaced, OneFaultLeavesNoTemp
  <2> QED BY ONLY <2>1, <2>2, <2>3, <2>4, <2>5, <2>6, <2>7, <2>8 DEF ReplaceInv
<1> QED BY <1>1, <1>2, <1>3, <1>4, <1>5, <1>6, <1>7 DEF ln

\* The second half of a copy.
LEMMA CopyKeeps ==
  ASSUME ReplaceInv, FinishCopy
  PROVE  ReplaceInv'
<1> USE FaultCount, ReplaceInv DEF ReplaceInv
<1>1. TypeOK'
  <2>1. /\ copying.from \in Names /\ copying.to \in Names
        /\ copying.ok \in Labels /\ copying.bad \in Labels
    BY DEF TypeOK
  <2>2. dir' \in [Names -> Contents]
    BY <2>1 DEF TypeOK, Contents, FinishCopy
  <2>3. faults' \in 0..MaxFaults
    BY JobsAssumption DEF TypeOK, Works, Fails, FinishCopy
  <2> QED BY <2>1, <2>2, <2>3 DEF TypeOK, FinishCopy, Goto
<1>2. Copies' BY DEF Copies, FinishCopy, Goto
<1>3. CASE job.op = "sed"
  <2>1. copying = [from |-> "dst", to |-> "bak", ok |-> "open", bad |-> "exit 1"]
    BY <1>3 DEF Copies, FinishCopy, TypeOK
  <2> USE <1>3, <2>1 DEF FinishCopy, Goto, TypeOK, Names
  <2>2. Stages' BY DEF Stages, Guarded, Untouched, Replacing, Labels, Exits
  <2>3. LeftAlone' BY DEF LeftAlone, Stages, Untouched
  <2>4. Moving' BY DEF Moving, Untouched
  <2>5. Temporary' BY DEF Temporary, Stages, Untouched
  <2>6. NothingLost'
    BY ZenonT(40) DEF NothingLost, OldSurvives, MovedSurvives, OldOrNew, Guarded,
       Stages, LeftAlone, Moving, Temporary, Untouched, Replacing, Labels, Exits
  <2>7. EndsAsSaid'
    BY ZenonT(40) DEF EndsAsSaid, ZeroMeansReplaced, OneFaultLeavesNoTemp, Guarded,
       Stages, LeftAlone, Moving, Temporary, Untouched, Replacing, Labels, Exits
  <2> QED BY <1>1, <1>2, <2>2, <2>3, <2>4, <2>5, <2>6, <2>7
<1>4. CASE job.op = "mv"
  <2>1. copying = [from |-> "src", to |-> "dst", ok |-> "delete", bad |-> "exit 1"]
    BY <1>4 DEF Copies, FinishCopy, TypeOK
  <2> USE <1>4, <2>1 DEF FinishCopy, Goto, TypeOK, Names
  <2>2. Stages' BY DEF Stages, Guarded, Untouched, Replacing, Labels, Exits
  <2>3. LeftAlone' BY DEF LeftAlone, Stages, Untouched
  <2>4. Moving' BY DEF Moving, Untouched
  <2>5. Temporary' BY DEF Temporary, Stages, Untouched
  <2>6. NothingLost'
    BY ZenonT(40) DEF NothingLost, OldSurvives, MovedSurvives, OldOrNew, Guarded,
       Stages, LeftAlone, Moving, Temporary, Untouched, Replacing, Labels, Exits
  <2>7. EndsAsSaid'
    BY ZenonT(40) DEF EndsAsSaid, ZeroMeansReplaced, OneFaultLeavesNoTemp, Guarded,
       Stages, LeftAlone, Moving, Temporary, Untouched, Replacing, Labels, Exits
  <2> QED BY <1>1, <1>2, <2>2, <2>3, <2>4, <2>5, <2>6, <2>7
<1>5. CASE job.op = "install"
  <2>1. copying = [from |-> "src", to |-> "dst", ok |-> "exit 0", bad |-> "exit 1"]
    BY <1>5 DEF Copies, FinishCopy, TypeOK
  <2> USE <1>5, <2>1 DEF FinishCopy, Goto, TypeOK, Names
  <2>2. Stages' BY DEF Stages, Guarded, Untouched, Replacing, Labels, Exits
  <2>3. LeftAlone' BY DEF LeftAlone, Stages, Untouched
  <2>4. Moving' BY DEF Moving, Untouched
  <2>5. Temporary' BY DEF Temporary, Stages, Untouched
  <2>6. NothingLost'
    BY ZenonT(40) DEF NothingLost, OldSurvives, MovedSurvives, OldOrNew, Guarded,
       Stages, LeftAlone, Moving, Temporary, Untouched, Replacing, Labels, Exits
  <2>7. EndsAsSaid'
    BY ZenonT(40) DEF EndsAsSaid, ZeroMeansReplaced, OneFaultLeavesNoTemp, Guarded,
       Stages, LeftAlone, Moving, Temporary, Untouched, Replacing, Labels, Exits
  <2> QED BY <1>1, <1>2, <2>2, <2>3, <2>4, <2>5, <2>6, <2>7
<1>6. CASE job.op = "cp"
  <2>1. /\ copying.from = "dst" /\ copying.to = "bak"
        /\ \/ copying.ok = "skipped" /\ copying.bad = "exit 1"
           \/ copying.ok = "attr" /\ copying.bad = IF job.force THEN "attr" ELSE "exit 1"
    BY <1>6 DEF Copies, FinishCopy
  <2> USE <1>6, <2>1 DEF FinishCopy, Goto, TypeOK, Names
  <2>2. Stages' BY ZenonT(40) DEF Stages, Guarded, Untouched, Replacing, Labels, Exits
  <2>3. LeftAlone' BY DEF LeftAlone, Stages, Untouched
  <2>4. Moving' BY DEF Moving, Untouched
  <2>5. Temporary' BY DEF Temporary, Stages, Untouched
  <2>6. NothingLost'
    BY DEF NothingLost, OldSurvives, MovedSurvives, OldOrNew, Guarded,
       Stages, LeftAlone, Moving, Temporary, Untouched, Replacing, Labels, Exits
  <2>7. EndsAsSaid'
    BY ZenonT(40) DEF EndsAsSaid, ZeroMeansReplaced, OneFaultLeavesNoTemp, Guarded,
       Stages, LeftAlone, Moving, Temporary, Untouched, Replacing, Labels, Exits
  <2> QED BY <1>1, <1>2, <2>2, <2>3, <2>4, <2>5, <2>6, <2>7
<1> QED BY <1>3, <1>4, <1>5, <1>6 DEF Copies, FinishCopy

\* The command is stopped, or another process creates the target.
LEMMA OthersKeep ==
  ASSUME ReplaceInv, Stop \/ Appear
  PROVE  ReplaceInv'
<1> USE ReplaceInv DEF ReplaceInv, Exists, Goto
<1>1. CASE Stop
  <2> USE <1>1 DEF Stop
  <2>1. TypeOK'
    <3>1. Branch("stopped") BY DEF Branch, Works
    <3> QED BY <3>1, CallTypes DEF Labels, Exits, Names
  <2> USE DEF TypeOK, Names
  <2>2. Copies' BY DEF Copies
  <2>3. Stages' BY DEF Stages, Guarded, Faultless, Untouched, Replacing, Labels, Exits
  <2>4. LeftAlone' BY DEF LeftAlone
  <2>5. Moving' BY DEF Moving, Untouched
  <2>6. Temporary' BY DEF Temporary, Faultless, Untouched
  <2>7. NothingLost' BY DEF NothingLost, OldSurvives, MovedSurvives, OldOrNew, Guarded, Faultless
  <2>8. EndsAsSaid' BY DEF EndsAsSaid, ZeroMeansReplaced, OneFaultLeavesNoTemp
  <2> QED BY ONLY <2>1, <2>2, <2>3, <2>4, <2>5, <2>6, <2>7, <2>8 DEF ReplaceInv
<1>2. CASE Appear
  <2> USE <1>2 DEF Appear
  <2>1. TypeOK' BY DEF TypeOK, Contents, Names
  <2> USE DEF TypeOK, Names
  <2>2. Copies' BY DEF Copies
  <2>3. Stages' BY DEF Stages, Guarded, Faultless, Untouched, Replacing, Labels, Exits
  <2>4. LeftAlone' BY DEF LeftAlone
  <2>5. Moving' BY DEF Moving, Untouched
  <2>6. Temporary' BY DEF Temporary, Faultless, Untouched
  <2>7. NothingLost' BY DEF NothingLost, OldSurvives, MovedSurvives, OldOrNew, Guarded, Faultless
  <2>8. EndsAsSaid' BY DEF EndsAsSaid, ZeroMeansReplaced, OneFaultLeavesNoTemp, Exits
  <2> QED BY ONLY <2>1, <2>2, <2>3, <2>4, <2>5, <2>6, <2>7, <2>8 DEF ReplaceInv
<1> QED BY <1>1, <1>2

\* A command begins with it.
LEMMA ReplaceStart == Init => ReplaceInv
<1> SUFFICES ASSUME Init PROVE ReplaceInv OBVIOUS
<1>1. PICK b \in {"none", "older"} : dir = [src |-> "new", dst |-> had, bak |-> b, tmp |-> "none"]
  BY DEF Init
<1>2. /\ dir["src"] = "new" /\ dir["dst"] = had /\ dir["tmp"] = "none"
      /\ dir \in [Names -> Contents]
  BY <1>1 DEF Init, Names, Contents
<1>4. TypeOK
  <2>1. copying \in [from : Names, to : Names, ok : Labels, bad : Labels]
    BY DEF Init, NoCopy, Names, Labels, Exits
  <2>2. faults \in 0..MaxFaults BY JobsAssumption DEF Init
  <2>3. pc \in Labels /\ had \in Contents BY DEF Init, Labels, Contents
  <2> QED BY <1>2, <2>1, <2>2, <2>3 DEF Init, TypeOK
<1> USE <1>2 DEF Init
<1>5. Copies BY DEF Copies
<1>6. Stages BY DEF Stages, Untouched, Replacing, Labels, Exits
<1>7. LeftAlone BY DEF LeftAlone
<1>8. Moving BY DEF Moving, Untouched
<1>9. Temporary BY DEF Temporary, Untouched
<1>10. NothingLost BY DEF NothingLost, OldSurvives, MovedSurvives, OldOrNew
<1>11. EndsAsSaid BY DEF EndsAsSaid, ZeroMeansReplaced, OneFaultLeavesNoTemp
<1> QED BY <1>4, <1>5, <1>6, <1>7, <1>8, <1>9, <1>10, <1>11 DEF ReplaceInv

\* The inductive invariant: what holds before each call of each command.
THEOREM StagesInvariant == Spec => []ReplaceInv
<1>1. ReplaceInv /\ [Next]_vars => ReplaceInv'
  <2> SUFFICES ASSUME ReplaceInv, [Next]_vars PROVE ReplaceInv' OBVIOUS
  <2>1. CASE sed BY <2>1, SedKeeps
  <2>2. CASE mv BY <2>2, MvKeeps
  <2>3. CASE cp BY <2>3, CpKeeps
  <2>4. CASE install BY <2>4, InstallKeeps
  <2>5. CASE patchFile BY <2>5, PatchKeeps
  <2>6. CASE ln BY <2>6, LnKeeps
  <2>7. CASE FinishCopy BY <2>7, CopyKeeps
  <2>8. CASE Stop \/ Appear BY <2>8, OthersKeep
  <2>9. CASE UNCHANGED vars
    <3> USE <2>9, ReplaceInv DEF ReplaceInv, vars
    <3>1. TypeOK' BY DEF TypeOK
    <3>2. Copies' BY DEF Copies
    <3>3. Stages' BY DEF Stages, Guarded, Faultless
    <3>4. LeftAlone' BY DEF LeftAlone
    <3>5. Moving' BY DEF Moving
    <3>6. Temporary' BY DEF Temporary, Faultless
    <3>7. NothingLost' BY DEF NothingLost, OldSurvives, MovedSurvives, OldOrNew, Guarded, Faultless
    <3>8. EndsAsSaid' BY DEF EndsAsSaid, ZeroMeansReplaced, OneFaultLeavesNoTemp, Guarded, Faultless
    <3> QED BY <3>1, <3>2, <3>3, <3>4, <3>5, <3>6, <3>7, <3>8
  <2> QED BY <2>1, <2>2, <2>3, <2>4, <2>5, <2>6, <2>7, <2>8, <2>9 DEF Next, Ended
<1> QED BY <1>1, ReplaceStart, PTL DEF Spec

\* Only calls that exist are made, on names that exist, and no more of them fail
\* than may (sed.cpp, mv.cpp, cp.cpp, install.cpp, patch.cpp, ln.cpp).
THEOREM TypeCorrect == Spec => []TypeOK
BY StagesInvariant, PTL DEF ReplaceInv

\* What a command promises to keep is complete under some name wherever it is
\* stopped and whichever calls fail: the backup that was asked for, what mv moves,
\* what sed edits (sed.cpp, mv.cpp, cp.cpp, install.cpp, ln.cpp).
THEOREM NothingIsLost == Spec => []NothingLost
BY StagesInvariant, PTL DEF ReplaceInv

\* Status 0 means done, and one failing call leaves no temporary file (sed.cpp,
\* mv.cpp, cp.cpp, install.cpp, patch.cpp, ln.cpp).
THEOREM StatusIsTrue == Spec => []EndsAsSaid
BY StagesInvariant, PTL DEF ReplaceInv

------------------------------------------------------------------------------
(***************************************************************************)
(* PatchUndoesDiff for any two files.  Those chooses from a sequence by    *)
(* position; Ends are the pairs of beginnings of two files, over which lcs *)
(* and backtrack_lcs recur.  The script backtrack_lcs finds in the table   *)
(* of lcs makes the second file of the first (BacktrackMakes), and the     *)
(* table says how many lines can be kept at most (CommonIs), so the hunk   *)
(* diff prints holds both files whole, and patch finds the one and leaves  *)
(* the other.                                                              *)
(***************************************************************************)
\* Induction over the beginnings of two files, by what both have of them.
LEMMA EndsInduction ==
    ASSUME NEW a, NEW b, Len(a) \in Nat, Len(b) \in Nat, NEW T,
           \A e \in Ends(a, b) :
             (\A f \in Ends(a, b) : f[1] + f[2] < e[1] + e[2] => f \in T) => e \in T
    PROVE  Ends(a, b) \subseteq T
<1> DEFINE U == {n \in Nat : \A e \in Ends(a, b) : e[1] + e[2] < n => e \in T}
<1>1. \A e \in Ends(a, b) : e[1] \in Nat /\ e[2] \in Nat BY DEF Ends
<1>2. 0 \in U
  <2>1. \A e \in Ends(a, b) : ~(e[1] + e[2] < 0) BY <1>1
  <2> QED BY <2>1
<1>3. ASSUME NEW n \in Nat, n \in U PROVE n + 1 \in U
  <2>1. ASSUME NEW e \in Ends(a, b), e[1] + e[2] < n + 1 PROVE e \in T
    <3>1. ASSUME NEW f \in Ends(a, b), f[1] + f[2] < e[1] + e[2] PROVE f \in T
      <4>1. f[1] + f[2] < n BY <1>1, <2>1, <3>1
      <4> QED BY <1>3, <4>1
    <3> QED BY <3>1
  <2> QED BY <2>1
<1>4. Nat \subseteq U
  <2> HIDE DEF U
  <2> QED BY <1>2, <1>3, SetInduction
<1>5. ASSUME NEW e \in Ends(a, b) PROVE e \in T
  <2>1. e[1] + e[2] + 1 \in Nat /\ e[1] + e[2] < e[1] + e[2] + 1 BY <1>1
  <2> QED BY <1>4, <2>1
<1> QED BY <1>5

\* A pair of beginnings, and the ones with a line less.
LEMMA EndsFacts ==
    ASSUME NEW a, NEW b, Len(a) \in Nat, Len(b) \in Nat, NEW e \in Ends(a, b)
    PROVE  /\ e = <<e[1], e[2]>> /\ e[1] \in 0..Len(a) /\ e[2] \in 0..Len(b)
           /\ e[1] > 0 => <<e[1] - 1, e[2]>> \in Ends(a, b)
           /\ e[2] > 0 => <<e[1], e[2] - 1>> \in Ends(a, b)
           /\ (e[1] > 0 /\ e[2] > 0) => <<e[1] - 1, e[2] - 1>> \in Ends(a, b)
BY DEF Ends

\* g and h agree on what a recursion uses for its value at e.
SameBefore(g, h, e) ==
    /\ e[1] > 0 => g[<<e[1] - 1, e[2]>>] = h[<<e[1] - 1, e[2]>>]
    /\ e[2] > 0 => g[<<e[1], e[2] - 1>>] = h[<<e[1], e[2] - 1>>]
    /\ (e[1] > 0 /\ e[2] > 0) => g[<<e[1] - 1, e[2] - 1>>] = h[<<e[1] - 1, e[2] - 1>>]

SameBelow(g, h, a, b, e) ==
    \A f \in Ends(a, b) : f[1] + f[2] < e[1] + e[2] => g[f] = h[f]

\* Functions equal at all smaller pairs are equal where a recursion looks.
LEMMA EndsBefore ==
    ASSUME NEW a, NEW b, Len(a) \in Nat, Len(b) \in Nat, NEW g, NEW h, NEW e \in Ends(a, b),
           SameBelow(g, h, a, b, e)
    PROVE  SameBefore(g, h, e)
<1> DEFINE D == Ends(a, b)
           x == <<e[1] - 1, e[2]>>
           y == <<e[1], e[2] - 1>>
           z == <<e[1] - 1, e[2] - 1>>
<1>1. e[1] \in Nat /\ e[2] \in Nat BY DEF Ends
<1>2. e[1] > 0 => x \in D /\ x[1] + x[2] < e[1] + e[2] BY <1>1 DEF Ends
<1>3. e[2] > 0 => y \in D /\ y[1] + y[2] < e[1] + e[2] BY <1>1 DEF Ends
<1>4. e[1] > 0 /\ e[2] > 0 => z \in D /\ z[1] + z[2] < e[1] + e[2]
  BY <1>1 DEF Ends
<1> HIDE DEF D, x, y, z
<1>5. /\ e[1] > 0 => g[x] = h[x]
      /\ e[2] > 0 => g[y] = h[y]
      /\ e[1] > 0 /\ e[2] > 0 => g[z] = h[z]
  BY <1>2, <1>3, <1>4 DEF D, SameBelow
<1> QED BY <1>5 DEF x, y, z, SameBefore

\* Recursion over the ends: Step makes the value at a place of those before it,
\* and two functions that agree where Step says so are one.
EndsFounded(Step, a, b, V) ==
    \A g, h \in [Ends(a, b) -> V] : \A e \in Ends(a, b) :
      SameBefore(g, h, e)
      => Step[g][e] = Step[h][e]

\* A recursion over pairs of beginnings that looks at smaller ones has a solution.
LEMMA EndsRecursion ==
    ASSUME NEW a, NEW b, Len(a) \in Nat, Len(b) \in Nat, NEW V, NEW v \in V,
           NEW Step \in [[Ends(a, b) -> V] -> [Ends(a, b) -> V]],
           EndsFounded(Step, a, b, V)
    PROVE  \E f \in [Ends(a, b) -> V] : FixedPoint(Step, f)
<1> DEFINE D == Ends(a, b)
           rank == [e \in D |-> e[1] + e[2]]
           N == Len(a) + Len(b)
<1>1. \A e \in D : e[1] \in 0..Len(a) /\ e[2] \in 0..Len(b) BY DEF Ends
<1>2. rank \in [D -> 0..N] BY <1>1
<1>3. N \in Nat OBVIOUS
<1>4. Founded(Step, rank, D, V)
  <2>1. ASSUME NEW g \in [D -> V], NEW h \in [D -> V], NEW e \in D,
               \A f \in D : rank[f] < rank[e] => g[f] = h[f]
        PROVE  Step[g][e] = Step[h][e]
    <3>1. SameBelow(g, h, a, b, e) BY <2>1 DEF SameBelow
    <3>2. SameBefore(g, h, e) BY <3>1, EndsBefore
    <3> QED BY <3>2 DEF EndsFounded
  <2> HIDE DEF rank, D
  <2> QED BY <2>1 DEF Founded
<1>5. Step \in [[D -> V] -> [D -> V]] OBVIOUS
<1>6. \E f \in [D -> V] : FixedPoint(Step, f)
  <2> HIDE DEF D, rank, N
  <2> QED BY <1>2, <1>3, <1>4, <1>5, Recursion
<1> QED BY <1>6

\* What the recursive equation of lcs says.
LcsEntry(t, a, b, e) ==
    IF e[1] = 0 \/ e[2] = 0 THEN 0
    ELSE IF a[e[1]] = b[e[2]] THEN t[<<e[1] - 1, e[2] - 1>>] + 1
    ELSE AtLeast(t[<<e[1] - 1, e[2]>>], t[<<e[1], e[2] - 1>>])

\* What is chosen of a beginning grows with its last line, as ThoseBeginning says.
OneKept(s, i, keep) ==
    Those(SubSeq(s, 1, i), keep)
      = IF i \in keep THEN Append(Those(SubSeq(s, 1, i - 1), keep), s[i])
        ELSE Those(SubSeq(s, 1, i - 1), keep)

LEMMA ThoseGrow ==
    ASSUME NEW S, NEW s \in Seq(S), NEW i \in 1..Len(s), NEW keep
    PROVE  OneKept(s, i, keep)
BY ThoseBeginning DEF OneKept

\* The table of lcs is filled as diff.cpp's loops fill it.
LEMMA LcsIs ==
    ASSUME NEW a, NEW b, Len(a) \in Nat, Len(b) \in Nat
    PROVE  /\ lcs(a, b) \in [Ends(a, b) -> Nat]
           /\ \A e \in Ends(a, b) : lcs(a, b)[e] = LcsEntry(lcs(a, b), a, b, e)
<1> DEFINE D == Ends(a, b)
           Step == [g \in [D -> Nat] |-> [e \in D |-> LcsEntry(g, a, b, e)]]
<1>1. Step \in [[D -> Nat] -> [D -> Nat]]
  <2>1. ASSUME NEW g \in [D -> Nat], NEW e \in D PROVE LcsEntry(g, a, b, e) \in Nat
    BY EndsFacts DEF LcsEntry, AtLeast
  <2> QED BY <2>1
<1>2. EndsFounded(Step, a, b, Nat)
  <2>1. ASSUME NEW g \in [D -> Nat], NEW h \in [D -> Nat], NEW e \in D,
               SameBefore(g, h, e)
        PROVE  Step[g][e] = Step[h][e]
    <3>1. e[1] \in Nat /\ e[2] \in Nat BY DEF Ends
    <3> HIDE DEF D, Step
    <3>2. LcsEntry(g, a, b, e) = LcsEntry(h, a, b, e)
      <4>1. CASE e[1] = 0 \/ e[2] = 0 BY <4>1 DEF LcsEntry
      <4>2. CASE e[1] > 0 /\ e[2] > 0
        <5>1. /\ g[<<e[1] - 1, e[2] - 1>>] = h[<<e[1] - 1, e[2] - 1>>]
              /\ g[<<e[1] - 1, e[2]>>] = h[<<e[1] - 1, e[2]>>]
              /\ g[<<e[1], e[2] - 1>>] = h[<<e[1], e[2] - 1>>]
          BY <2>1, <3>1, <4>2 DEF SameBefore
        <5> QED BY <5>1 DEF LcsEntry
      <4> QED BY <3>1, <4>1, <4>2
    <3> QED BY <3>2 DEF Step
  <2> HIDE DEF Step
  <2> QED BY <2>1 DEF EndsFounded
<1>3. PICK g \in [D -> Nat] : FixedPoint(Step, g)
  <2>1. 0 \in Nat OBVIOUS
  <2> HIDE DEF Step
  <2> QED BY <1>1, <1>2, <2>1, EndsRecursion
<1>4. g = [e \in D |-> LcsEntry(g, a, b, e)] BY <1>3 DEF FixedPoint
<1> DEFINE C == CHOOSE t : t = [e \in D |-> LcsEntry(t, a, b, e)]
<1>5. C = [e \in D |-> LcsEntry(C, a, b, e)] BY <1>4
<1>6. lcs(a, b) = C BY DEF lcs, LcsEntry
<1> HIDE DEF C
<1>7. ASSUME NEW e \in D, SameBelow(C, g, a, b, e)
      PROVE  C[e] = g[e]
  <2>1. e[1] \in Nat /\ e[2] \in Nat BY DEF Ends
  <2>2. SameBefore(C, g, e) BY <1>7, EndsBefore
  <2>3. LcsEntry(C, a, b, e) = LcsEntry(g, a, b, e)
    BY <2>1, <2>2 DEF LcsEntry, SameBefore
  <2> QED BY <1>4, <1>5, <2>3
<1>8. \A e \in D : C[e] = g[e]
  <2> DEFINE T == {e \in D : C[e] = g[e]}
  <2>1. \A e \in D : (\A f \in D : f[1] + f[2] < e[1] + e[2] => f \in T) => e \in T
    BY <1>7 DEF SameBelow
  <2>2. D \subseteq T
    <3> HIDE DEF T
    <3> QED BY <2>1, EndsInduction
  <2> QED BY <2>2
<1>9. C = g
  <2> HIDE DEF D
  <2> QED BY <1>4, <1>5, <1>8
<1> QED BY <1>4, <1>6, <1>9

\* What a hunk prints of an edit, for files of lines in S.
Printed(S) == [type : {"KEEP", "DEL", "INS"}, line : S]

\* The lines taken from a hunk are lines of the files.
LEMMA BodyLinesType ==
    ASSUME NEW S, NEW body \in Seq(Printed(S)), NEW keep
    PROVE  BodyLines(body, keep) \in Seq(S)
<1> DEFINE s == Those(body, keep)
           l == [k \in 1..Len(s) |-> s[k].line]
<1>1. s \in Seq(Printed(S)) BY ThoseType
<1> HIDE DEF s
<1>2. Len(s) \in Nat /\ DOMAIN s = 1..Len(s) /\ \A k \in 1..Len(s) : s[k] \in Printed(S)
  BY <1>1, LenProperties, ElementOfSeq
<1>3. l = [k \in 1..Len(s) |-> l[k]] /\ \A k \in 1..Len(s) : l[k] \in S
  BY <1>2 DEF Printed
<1> HIDE DEF l
<1>4. l \in Seq(S) BY <1>2, <1>3, SeqOfFunction
<1> QED BY <1>2, <1>4 DEF BodyLines, s, l

\* The lines of a hunk with one entry more.
LEMMA BodyLinesAppend ==
    ASSUME NEW S, NEW body \in Seq(Printed(S)), NEW x \in Printed(S), NEW keep
    PROVE  BodyLines(Append(body, x), keep)
             = IF Len(body) + 1 \in keep THEN Append(BodyLines(body, keep), x.line)
               ELSE BodyLines(body, keep)
<1> DEFINE s == Those(body, keep)
           t == Those(Append(body, x), keep)
           l == [k \in 1..Len(s) |-> s[k].line]
           m == [k \in 1..Len(t) |-> t[k].line]
<1>1. t = IF Len(body) + 1 \in keep THEN Append(s, x) ELSE s
  BY ThoseAppend
<1>2. s \in Seq(Printed(S)) BY ThoseType
<1>3. BodyLines(Append(body, x), keep) = m /\ BodyLines(body, keep) = l
  <2>1. Append(body, x) \in Seq(Printed(S)) BY AppendFacts
  <2>2. t \in Seq(Printed(S)) BY <2>1, ThoseType
  <2>3. DOMAIN s = 1..Len(s) /\ DOMAIN t = 1..Len(t)
    BY <2>2, <1>2, LenProperties
  <2> QED BY <2>3 DEF BodyLines
<1> HIDE DEF s, t
<1>4. CASE Len(body) + 1 \in keep
  <2>1. t = Append(s, x) /\ Len(s) \in Nat
    BY <1>1, <1>2, <1>4, LenProperties
  <2>2. Len(t) = Len(s) + 1 /\ t[Len(s) + 1] = x /\ \A k \in 1..Len(s) : t[k] = s[k]
    BY <1>2, <2>1, AppendFacts
  <2>3. l = [k \in 1..Len(s) |-> l[k]] /\ m = [k \in 1..Len(s) + 1 |-> m[k]]
    BY <2>2
  <2>4. \A k \in 1..Len(s) : m[k] = l[k] BY <2>1, <2>2
  <2>5. m[Len(s) + 1] = x.line BY <2>1, <2>2
  <2> HIDE DEF l, m
  <2>6. m = Append(l, m[Len(s) + 1])
    <3> DEFINE n == Len(s)
    <3>1. n \in Nat BY <2>1
    <3>2. l = [k \in 1..n |-> l[k]] /\ m = [k \in 1..n + 1 |-> m[k]] /\ \A k \in 1..n : m[k] = l[k]
      BY <2>3, <2>4
    <3> HIDE DEF n
    <3>3. m = Append(l, m[n + 1]) BY ONLY <3>1, <3>2, AppendIs, SMTT(30)
    <3> QED BY <3>3 DEF n
  <2> QED BY <1>3, <1>4, <2>5, <2>6
<1>5. CASE Len(body) + 1 \notin keep BY <1>1, <1>3, <1>5
<1> QED BY <1>4, <1>5

\* The lines of a body that are not of this type: "INS" leaves the old file's,
\* "DEL" the new one's.
Without(body, type) == BodyLines(body, {k \in DOMAIN body : body[k].type # type})

\* An empty hunk has no lines.
LEMMA WithoutEmpty == ASSUME NEW type PROVE Without(<<>>, type) = <<>>
<1> DEFINE keep == {k \in DOMAIN <<>> : <<>>[k].type # type}
<1>1. Those(<<>>, keep) = <<>>
  <2> HIDE DEF keep
  <2> QED BY ThoseEmpty
<1>2. [k \in DOMAIN <<>> |-> <<>>[k].line] = <<>> OBVIOUS
<1> QED BY <1>1, <1>2 DEF Without, BodyLines

\* An entry more adds its line, unless it is of the type left out.
LEMMA WithoutAppend ==
    ASSUME NEW S, NEW body \in Seq(Printed(S)), NEW x \in Printed(S), NEW type
    PROVE  /\ Without(body, type) \in Seq(S)
           /\ Without(Append(body, x), type)
                = IF x.type # type THEN Append(Without(body, type), x.line)
                  ELSE Without(body, type)
<1> DEFINE all == Append(body, x)
           n == Len(body)
           old == {k \in DOMAIN body : body[k].type # type}
           new == {k \in DOMAIN all : all[k].type # type}
<1>1. n \in Nat /\ DOMAIN body = 1..n /\ DOMAIN all = 1..n + 1
      /\ all[n + 1] = x /\ \A k \in 1..n : all[k] = body[k]
  BY AppendFacts, LenProperties
<1>2. \A k \in DOMAIN body : k \in new <=> k \in old
  <2> HIDE DEF all, n
  <2> QED BY <1>1
<1>3. n + 1 \in new <=> x.type # type
  <2> HIDE DEF all, n
  <2> QED BY <1>1
<1>4. BodyLines(all, new) = IF n + 1 \in new THEN Append(BodyLines(body, new), x.line)
                            ELSE BodyLines(body, new)
  <2> HIDE DEF new
  <2> QED BY BodyLinesAppend
<1>5. Those(body, new) = Those(body, old)
  <2> HIDE DEF new, old
  <2> QED BY <1>2, ThoseAgree
<1>6. BodyLines(body, new) = BodyLines(body, old)
  <2> HIDE DEF new, old
  <2> QED BY <1>5 DEF BodyLines
<1>7. BodyLines(body, old) \in Seq(S)
  <2> HIDE DEF old
  <2> QED BY BodyLinesType
<1>8. Without(all, type) = BodyLines(all, new) /\ Without(body, type) = BodyLines(body, old)
  BY DEF Without
<1> HIDE DEF all, n, old, new
<1> QED BY <1>3, <1>4, <1>6, <1>7, <1>8 DEF all

\* An empty script keeps nothing.
LEMMA KeptEmpty == Kept(<<>>) = 0
<1>1. {k \in DOMAIN <<>> : <<>>[k].type = "KEEP"} = {} OBVIOUS
<1> QED BY <1>1, FS_EmptySet DEF Kept

\* An edit more is one line more kept when it keeps one.
LEMMA KeptAppend ==
    ASSUME NEW S, NEW u \in Seq(S), NEW x \in S
    PROVE  /\ Kept(u) \in Nat
           /\ Kept(Append(u, x)) = IF x.type = "KEEP" THEN Kept(u) + 1 ELSE Kept(u)
<1> DEFINE all == Append(u, x)
           n == Len(u)
           old == {k \in DOMAIN u : u[k].type = "KEEP"}
           new == {k \in DOMAIN all : all[k].type = "KEEP"}
<1>1. n \in Nat /\ DOMAIN u = 1..n /\ DOMAIN all = 1..n + 1
      /\ all[n + 1] = x /\ \A k \in 1..n : all[k] = u[k]
  BY AppendFacts, LenProperties
<1>2. IsFiniteSet(old)
  <2>1. IsFiniteSet(1..n) BY <1>1, FS_Interval
  <2> QED BY <1>1, <2>1, FS_Subset
<1>3. new = IF x.type = "KEEP" THEN old \cup {n + 1} ELSE old
  <2> HIDE DEF all, n
  <2> QED BY <1>1
<1>4. n + 1 \notin old BY <1>1
<1>5. Cardinality(old \cup {n + 1}) = Cardinality(old) + 1 /\ Cardinality(old) \in Nat
  <2> HIDE DEF old, n
  <2> QED BY <1>2, <1>4, FS_AddElement, FS_CardinalityType
<1> QED BY <1>3, <1>5 DEF Kept

\* The edits that can stand in a script, and what is printed of a script.
EditOf(a, b) ==
    {x \in [type : {"KEEP", "DEL", "INS"}, one : Nat, two : Nat] :
       IF x.type = "INS" THEN x.two \in 1..Len(b) ELSE x.one \in 1..Len(a)}

Item(a, b, x) == [type |-> x.type, line |-> EditLine(a, b, x)]
Body(a, b, u) == [k \in DOMAIN u |-> Item(a, b, u[k])]

\* What is printed of an edit is a line of a file with the edit's type.
LEMMA ItemType ==
    ASSUME NEW S, NEW a \in Seq(S), NEW b \in Seq(S), NEW x \in EditOf(a, b)
    PROVE  Item(a, b, x) \in Printed(S) /\ Item(a, b, x).type = x.type
           /\ Item(a, b, x).line = EditLine(a, b, x)
<1>1. EditLine(a, b, x) \in S BY ElementOfSeq DEF EditOf, EditLine
<1>2. x.type \in {"KEEP", "DEL", "INS"} BY DEF EditOf
<1> QED BY <1>1, <1>2 DEF Item, Printed

\* What is printed of a script, as a sequence.
LEMMA BodyType ==
    ASSUME NEW S, NEW a \in Seq(S), NEW b \in Seq(S), NEW u \in Seq(EditOf(a, b))
    PROVE  Body(a, b, u) \in Seq(Printed(S)) /\ Len(Body(a, b, u)) = Len(u)
<1> DEFINE n == Len(u)
           body == [k \in 1..n |-> Item(a, b, u[k])]
<1>1. n \in Nat /\ DOMAIN u = 1..n /\ \A k \in 1..n : u[k] \in EditOf(a, b)
  BY LenProperties, ElementOfSeq
<1>2. body = [k \in 1..n |-> body[k]] /\ \A k \in 1..n : body[k] \in Printed(S)
  <2> HIDE DEF n
  <2> QED BY <1>1, ItemType
<1>3. Body(a, b, u) = body BY <1>1 DEF Body
<1> HIDE DEF n, body
<1>4. body \in Seq(Printed(S)) /\ Len(body) = n
  BY <1>1, <1>2, SeqOfFunction
<1> QED BY <1>3, <1>4 DEF n

\* An edit more is an entry more.
LEMMA BodyAppend ==
    ASSUME NEW S, NEW a \in Seq(S), NEW b \in Seq(S), NEW u \in Seq(EditOf(a, b)), NEW x \in EditOf(a, b)
    PROVE  Body(a, b, Append(u, x)) = Append(Body(a, b, u), Item(a, b, x))
<1> DEFINE n == Len(u)
           v == Append(u, x)
           l == Body(a, b, u)
           m == Body(a, b, v)
<1>1. n \in Nat /\ DOMAIN u = 1..n /\ DOMAIN v = 1..n + 1 /\ v[n + 1] = x /\ \A k \in 1..n : v[k] = u[k]
  BY AppendFacts, LenProperties
<1>2. /\ l = [k \in 1..n |-> Item(a, b, u[k])]
      /\ m = [k \in 1..n + 1 |-> Item(a, b, v[k])]
  BY <1>1 DEF Body
<1> HIDE DEF n, v, l, m
<1>3. /\ l = [k \in 1..n |-> l[k]]
      /\ m = [k \in 1..n + 1 |-> m[k]]
  BY <1>2
<1>4. m[n + 1] = Item(a, b, x) /\ \A k \in 1..n : m[k] = l[k]
  BY <1>1, <1>2
<1>5. m = Append(l, m[n + 1])
  <2>1. n \in Nat BY <1>1
  <2>2. Prolongs(m, l, n) BY <1>3, <1>4 DEF Prolongs
  <2> QED BY <2>1, <2>2, ProlongedIs
<1> QED BY <1>4, <1>5 DEF l, m, v

\* The script u makes the first j lines of b of the first i of a, and keeps n.
Makes(u, a, b, i, j, n) ==
    /\ u \in Seq(EditOf(a, b))
    /\ Without(Body(a, b, u), "INS") = SubSeq(a, 1, i)
    /\ Without(Body(a, b, u), "DEL") = SubSeq(b, 1, j)
    /\ Kept(u) = n

\* The empty script makes nothing of nothing.
LEMMA MakesNothing ==
    ASSUME NEW S, NEW a \in Seq(S), NEW b \in Seq(S)
    PROVE  Makes(<<>>, a, b, 0, 0, 0)
<1>1. Body(a, b, <<>>) = <<>> BY DEF Body
<1>2. SubSeq(a, 1, 0) = <<>> /\ SubSeq(b, 1, 0) = <<>> BY Beginnings
<1>3. <<>> \in Seq(EditOf(a, b)) BY EmptySeq
<1> QED BY <1>1, <1>2, <1>3, WithoutEmpty, KeptEmpty DEF Makes

\* x takes a script from p lines of a, q of b and n kept ones to i, j and m.
Advances(a, b, x, p, q, n, i, j, m) ==
    LET line == EditLine(a, b, x)
    IN  /\ SubSeq(a, 1, i) = IF x.type # "INS" THEN Append(SubSeq(a, 1, p), line) ELSE SubSeq(a, 1, p)
        /\ SubSeq(b, 1, j) = IF x.type # "DEL" THEN Append(SubSeq(b, 1, q), line) ELSE SubSeq(b, 1, q)
        /\ m = IF x.type = "KEEP" THEN n + 1 ELSE n

\* A script that gets on by one edit makes that much more.
LEMMA MakesMore ==
    ASSUME NEW S, NEW a \in Seq(S), NEW b \in Seq(S), NEW u,
           NEW p, NEW q, NEW n, NEW i, NEW j, NEW m, NEW x \in EditOf(a, b),
           Makes(u, a, b, p, q, n), Advances(a, b, x, p, q, n, i, j, m)
    PROVE  Makes(Append(u, x), a, b, i, j, m)
<1> DEFINE v == Append(u, x)
           it == Item(a, b, x)
           body == Body(a, b, u)
<1>1. u \in Seq(EditOf(a, b)) BY DEF Makes
<1>2. v \in Seq(EditOf(a, b)) BY <1>1, AppendFacts
<1>3. it \in Printed(S) /\ it.type = x.type /\ it.line = EditLine(a, b, x)
  BY ItemType
<1>4. body \in Seq(Printed(S)) BY <1>1, BodyType
<1>5. Body(a, b, v) = Append(body, it) BY <1>1, BodyAppend
<1>6. /\ Without(body, "INS") = SubSeq(a, 1, p)
      /\ Without(body, "DEL") = SubSeq(b, 1, q)
      /\ Kept(u) = n
  BY DEF Makes
<1>7. Kept(v) = IF x.type = "KEEP" THEN n + 1 ELSE n
  BY <1>1, <1>6, KeptAppend
<1> HIDE DEF v, it, body
<1>8. Without(Append(body, it), "INS") = IF it.type # "INS" THEN Append(Without(body, "INS"), it.line)
                                         ELSE Without(body, "INS")
  BY <1>3, <1>4, WithoutAppend
<1>9. Without(Append(body, it), "DEL") = IF it.type # "DEL" THEN Append(Without(body, "DEL"), it.line)
                                         ELSE Without(body, "DEL")
  BY <1>3, <1>4, WithoutAppend
<1> QED BY <1>2, <1>3, <1>5, <1>6, <1>7, <1>8, <1>9 DEF v, Makes, Advances

\* What the recursive equation of backtrack_lcs says.
BackEntry(u, t, a, b, e) ==
    IF e[1] = 0 /\ e[2] = 0 THEN <<>>
    ELSE IF e[1] > 0 /\ e[2] > 0 /\ a[e[1]] = b[e[2]]
    THEN Append(u[<<e[1] - 1, e[2] - 1>>], Edit("KEEP", e[1], e[2]))
    ELSE IF e[2] > 0 /\ (e[1] = 0 \/ t[<<e[1], e[2] - 1>>] >= t[<<e[1] - 1, e[2]>>])
    THEN Append(u[<<e[1], e[2] - 1>>], Edit("INS", e[1] + 1, e[2]))
    ELSE Append(u[<<e[1] - 1, e[2]>>], Edit("DEL", e[1], e[2] + 1))

\* The edits backtrack_lcs writes at a pair of positions are edits of the files.
LEMMA EditsAre ==
    ASSUME NEW a, NEW b, NEW e \in Ends(a, b), Len(a) \in Nat, Len(b) \in Nat
    PROVE  /\ e[1] > 0 => Edit("KEEP", e[1], e[2]) \in EditOf(a, b)
           /\ e[1] > 0 => Edit("DEL", e[1], e[2] + 1) \in EditOf(a, b)
           /\ e[2] > 0 => Edit("INS", e[1] + 1, e[2]) \in EditOf(a, b)
<1>1. e[1] \in 0..Len(a) /\ e[2] \in 0..Len(b) BY DEF Ends
<1> QED BY <1>1 DEF Edit, EditOf

\* backtrack_lcs follows its equation back from the ends of both files.
LEMMA BackIs ==
    ASSUME NEW a, NEW b, Len(a) \in Nat, Len(b) \in Nat, NEW t
    PROVE  \E u : /\ u = [e \in Ends(a, b) |-> BackEntry(u, t, a, b, e)]
                  /\ backtrack_lcs(t, a, b) = u[<<Len(a), Len(b)>>]
<1> DEFINE D == Ends(a, b)
           V == Seq(EditOf(a, b))
           Step == [g \in [D -> V] |-> [e \in D |-> BackEntry(g, t, a, b, e)]]
<1>1. Step \in [[D -> V] -> [D -> V]]
  <2>1. ASSUME NEW g \in [D -> V], NEW e \in D PROVE BackEntry(g, t, a, b, e) \in V
    <3>1. e[1] \in Nat /\ e[2] \in Nat BY DEF Ends
    <3>2. /\ e[1] > 0 => g[<<e[1] - 1, e[2]>>] \in V
          /\ e[2] > 0 => g[<<e[1], e[2] - 1>>] \in V
          /\ (e[1] > 0 /\ e[2] > 0) => g[<<e[1] - 1, e[2] - 1>>] \in V
      <4>1. /\ e[1] > 0 => <<e[1] - 1, e[2]>> \in D
            /\ e[2] > 0 => <<e[1], e[2] - 1>> \in D
            /\ (e[1] > 0 /\ e[2] > 0) => <<e[1] - 1, e[2] - 1>> \in D
        BY <3>1 DEF Ends
      <4> HIDE DEF D, V
      <4> QED BY <4>1
    <3>3. /\ e[1] > 0 => Edit("KEEP", e[1], e[2]) \in EditOf(a, b)
          /\ e[1] > 0 => Edit("DEL", e[1], e[2] + 1) \in EditOf(a, b)
          /\ e[2] > 0 => Edit("INS", e[1] + 1, e[2]) \in EditOf(a, b)
      BY EditsAre
    <3>4. \A s \in V, x \in EditOf(a, b) : Append(s, x) \in V
      BY AppendFacts
    <3>5. <<>> \in V BY EmptySeq
    <3> HIDE DEF V
    <3> QED BY <3>1, <3>2, <3>3, <3>4, <3>5 DEF BackEntry
  <2> QED BY <2>1
<1>2. EndsFounded(Step, a, b, V)
  <2>1. ASSUME NEW g \in [D -> V], NEW h \in [D -> V], NEW e \in D,
               SameBefore(g, h, e)
        PROVE  Step[g][e] = Step[h][e]
    <3>1. e[1] \in Nat /\ e[2] \in Nat BY DEF Ends
    <3> HIDE DEF D, Step, V
    <3>2. BackEntry(g, t, a, b, e) = BackEntry(h, t, a, b, e)
      BY <2>1, <3>1 DEF BackEntry, SameBefore
    <3> QED BY <3>2 DEF Step
  <2> HIDE DEF Step, V
  <2> QED BY <2>1 DEF EndsFounded
<1>3. PICK g \in [D -> V] : FixedPoint(Step, g)
  <2>1. <<>> \in V BY EmptySeq
  <2> DEFINE v == <<>>
  <2>2. v \in V BY <2>1
  <2> HIDE DEF Step, V, v
  <2> QED BY <1>1, <1>2, <2>2, EndsRecursion
<1>4. g = [e \in D |-> BackEntry(g, t, a, b, e)] BY <1>3 DEF FixedPoint
<1> DEFINE C == CHOOSE u : u = [e \in D |-> BackEntry(u, t, a, b, e)]
<1>5. C = [e \in D |-> BackEntry(C, t, a, b, e)] BY <1>4
<1>6. backtrack_lcs(t, a, b) = C[<<Len(a), Len(b)>>]
  BY DEF backtrack_lcs, BackEntry
<1> HIDE DEF C
<1> QED BY <1>5, <1>6

\* The step of the induction: what is built on good scripts is good.
LEMMA BackMakes ==
    ASSUME NEW S, NEW a \in Seq(S), NEW b \in Seq(S), NEW u, NEW e \in Ends(a, b),
           LET t == lcs(a, b)
           IN  /\ e[1] > 0 => Makes(u[<<e[1] - 1, e[2]>>], a, b, e[1] - 1, e[2], t[<<e[1] - 1, e[2]>>])
               /\ e[2] > 0 => Makes(u[<<e[1], e[2] - 1>>], a, b, e[1], e[2] - 1, t[<<e[1], e[2] - 1>>])
               /\ (e[1] > 0 /\ e[2] > 0) =>
                    Makes(u[<<e[1] - 1, e[2] - 1>>], a, b, e[1] - 1, e[2] - 1, t[<<e[1] - 1, e[2] - 1>>])
    PROVE  Makes(BackEntry(u, lcs(a, b), a, b, e), a, b, e[1], e[2], lcs(a, b)[e])
<1> DEFINE t == lcs(a, b)
           i == e[1]
           j == e[2]
           N == Len(a)
           M == Len(b)
<1>1. N \in Nat /\ M \in Nat /\ i \in 0..N /\ j \in 0..M
  BY LenProperties DEF Ends
<1>2. t[e] = IF i = 0 \/ j = 0 THEN 0
             ELSE IF a[i] = b[j] THEN t[<<i - 1, j - 1>>] + 1
             ELSE AtLeast(t[<<i - 1, j>>], t[<<i, j - 1>>])
  BY <1>1, LcsIs DEF LcsEntry
<1>3. /\ i > 0 => t[<<i - 1, j>>] \in Nat
      /\ j > 0 => t[<<i, j - 1>>] \in Nat
  <2>1. i > 0 => <<i - 1, j>> \in Ends(a, b) BY <1>1 DEF Ends
  <2>2. j > 0 => <<i, j - 1>> \in Ends(a, b) BY <1>1 DEF Ends
  <2>3. t \in [Ends(a, b) -> Nat] BY <1>1, LcsIs
  <2> HIDE DEF t, i, j
  <2> QED BY <2>1, <2>2, <2>3
<1>4. /\ i > 0 => SubSeq(a, 1, i) = Append(SubSeq(a, 1, i - 1), a[i])
      /\ j > 0 => SubSeq(b, 1, j) = Append(SubSeq(b, 1, j - 1), b[j])
  <2> HIDE DEF i, j
  <2> QED BY <1>1, Beginnings
<1>5. CASE i = 0 /\ j = 0
  BY <1>1, <1>2, <1>5, MakesNothing DEF BackEntry
<1>6. CASE i > 0 /\ j > 0 /\ a[i] = b[j]
  <2> DEFINE x == Edit("KEEP", i, j)
             w == u[<<i - 1, j - 1>>]
  <2>1. BackEntry(u, t, a, b, e) = Append(w, x)
    BY <1>6, <1>1 DEF BackEntry
  <2>2. x \in EditOf(a, b) /\ x.type = "KEEP" /\ EditLine(a, b, x) = a[i]
    BY <1>1, <1>6, EditsAre DEF Edit, EditLine
  <2> DEFINE p == i - 1
             q == j - 1
             n == t[<<i - 1, j - 1>>]
  <2>3. Makes(w, a, b, p, q, n) BY <1>6
  <2>4. t[e] = t[<<i - 1, j - 1>>] + 1 BY <1>1, <1>2, <1>6
  <2> HIDE DEF t, i, j, x, w, p, q, n
  <2>5. Advances(a, b, x, p, q, n, i, j, t[e])
    BY <1>4, <1>6, <2>2, <2>4 DEF Advances, p, q, n
  <2>6. Makes(Append(w, x), a, b, i, j, t[e])
    BY <2>2, <2>3, <2>5, MakesMore
  <2> QED BY <2>1, <2>6 DEF t, i, j
<1>7. CASE ~(i = 0 /\ j = 0) /\ ~(i > 0 /\ j > 0 /\ a[i] = b[j])
           /\ j > 0 /\ (i = 0 \/ t[<<i, j - 1>>] >= t[<<i - 1, j>>])
  <2> DEFINE x == Edit("INS", i + 1, j)
             w == u[<<i, j - 1>>]
  <2>1. BackEntry(u, t, a, b, e) = Append(w, x)
    BY <1>7, <1>1 DEF BackEntry
  <2>2. x \in EditOf(a, b) /\ x.type = "INS" /\ EditLine(a, b, x) = b[j]
    BY <1>1, <1>7, EditsAre DEF Edit, EditLine
  <2> DEFINE p == i
             q == j - 1
             n == t[<<i, j - 1>>]
  <2>3. Makes(w, a, b, p, q, n) BY <1>7
  <2>4. t[e] = t[<<i, j - 1>>]
    <3>1. i = 0 => t[<<i, j - 1>>] = 0
      <4>1. <<i, j - 1>> \in Ends(a, b) BY <1>1, <1>7 DEF Ends
      <4>2. \A f \in Ends(a, b) : t[f] = LcsEntry(t, a, b, f)
        BY <1>1, LcsIs
      <4>3. t[<<i, j - 1>>] = LcsEntry(t, a, b, <<i, j - 1>>)
        BY <4>1, <4>2
      <4> QED BY <4>3 DEF LcsEntry
    <3> HIDE DEF t, i, j
    <3> QED BY <1>1, <1>2, <1>3, <1>7, <3>1 DEF AtLeast
  <2> HIDE DEF t, i, j, x, w, p, q, n
  <2>5. Advances(a, b, x, p, q, n, i, j, t[e])
    BY <1>4, <1>7, <2>2, <2>4 DEF Advances, p, q, n
  <2>6. Makes(Append(w, x), a, b, i, j, t[e])
    BY <2>2, <2>3, <2>5, MakesMore
  <2> QED BY <2>1, <2>6 DEF t, i, j
<1>8. CASE ~(i = 0 /\ j = 0) /\ ~(i > 0 /\ j > 0 /\ a[i] = b[j])
           /\ ~(j > 0 /\ (i = 0 \/ t[<<i, j - 1>>] >= t[<<i - 1, j>>]))
  <2> DEFINE x == Edit("DEL", i, j + 1)
             w == u[<<i - 1, j>>]
  <2>0. i > 0 BY <1>1, <1>8
  <2>1. BackEntry(u, t, a, b, e) = Append(w, x)
    BY <1>8, <1>1 DEF BackEntry
  <2>2. x \in EditOf(a, b) /\ x.type = "DEL" /\ EditLine(a, b, x) = a[i]
    BY <1>1, <2>0, EditsAre DEF Edit, EditLine
  <2> DEFINE p == i - 1
             q == j
             n == t[<<i - 1, j>>]
  <2>3. Makes(w, a, b, p, q, n) BY <2>0
  <2>4. t[e] = t[<<i - 1, j>>]
    <3>1. j = 0 => t[<<i - 1, j>>] = 0
      <4>1. <<i - 1, j>> \in Ends(a, b) BY <1>1, <2>0 DEF Ends
      <4>2. \A f \in Ends(a, b) : t[f] = LcsEntry(t, a, b, f)
        BY <1>1, LcsIs
      <4>3. t[<<i - 1, j>>] = LcsEntry(t, a, b, <<i - 1, j>>)
        BY <4>1, <4>2
      <4> QED BY <4>3 DEF LcsEntry
    <3> HIDE DEF t, i, j
    <3> QED BY <1>1, <1>2, <1>3, <1>8, <2>0, <3>1 DEF AtLeast
  <2> HIDE DEF t, i, j, x, w, p, q, n
  <2>5. Advances(a, b, x, p, q, n, i, j, t[e])
    BY <1>4, <2>0, <2>2, <2>4 DEF Advances, p, q, n
  <2>6. Makes(Append(w, x), a, b, i, j, t[e])
    BY <2>2, <2>3, <2>5, MakesMore
  <2> QED BY <2>1, <2>6 DEF t, i, j
<1> QED BY <1>5, <1>6, <1>7, <1>8

\* The script of backtrack_lcs makes one file of the other.
LEMMA BacktrackMakes ==
    ASSUME NEW S, NEW a \in Seq(S), NEW b \in Seq(S)
    PROVE  Makes(backtrack_lcs(lcs(a, b), a, b), a, b, Len(a), Len(b), lcs(a, b)[<<Len(a), Len(b)>>])
<1> DEFINE t == lcs(a, b)
           D == Ends(a, b)
<1>1. Len(a) \in Nat /\ Len(b) \in Nat BY LenProperties
<1>2. PICK u : /\ u = [e \in D |-> BackEntry(u, t, a, b, e)]
               /\ backtrack_lcs(t, a, b) = u[<<Len(a), Len(b)>>]
  <2> HIDE DEF t
  <2> QED BY <1>1, BackIs
<1> DEFINE T == {e \in D : Makes(u[e], a, b, e[1], e[2], t[e])}
<1>3. ASSUME NEW e \in D, \A f \in D : f[1] + f[2] < e[1] + e[2] => f \in T
      PROVE  e \in T
  <2>1. e[1] \in Nat /\ e[2] \in Nat BY DEF Ends
  <2>2. /\ e[1] > 0 => <<e[1] - 1, e[2]>> \in T
        /\ e[2] > 0 => <<e[1], e[2] - 1>> \in T
        /\ (e[1] > 0 /\ e[2] > 0) => <<e[1] - 1, e[2] - 1>> \in T
    <3> DEFINE x == <<e[1] - 1, e[2]>>
               y == <<e[1], e[2] - 1>>
               z == <<e[1] - 1, e[2] - 1>>
    <3>1. e[1] > 0 => x \in D /\ x[1] + x[2] < e[1] + e[2]
      BY <2>1 DEF Ends
    <3>2. e[2] > 0 => y \in D /\ y[1] + y[2] < e[1] + e[2]
      BY <2>1 DEF Ends
    <3>3. e[1] > 0 /\ e[2] > 0 => z \in D /\ z[1] + z[2] < e[1] + e[2]
      BY <2>1 DEF Ends
    <3> HIDE DEF D, T, x, y, z
    <3>4. /\ e[1] > 0 => x \in T
          /\ e[2] > 0 => y \in T
          /\ (e[1] > 0 /\ e[2] > 0) => z \in T
      BY <1>3, <3>1, <3>2, <3>3
    <3> QED BY <3>4 DEF x, y, z
  <2>3. /\ e[1] > 0 => Makes(u[<<e[1] - 1, e[2]>>], a, b, e[1] - 1, e[2], t[<<e[1] - 1, e[2]>>])
        /\ e[2] > 0 => Makes(u[<<e[1], e[2] - 1>>], a, b, e[1], e[2] - 1, t[<<e[1], e[2] - 1>>])
        /\ (e[1] > 0 /\ e[2] > 0) =>
             Makes(u[<<e[1] - 1, e[2] - 1>>], a, b, e[1] - 1, e[2] - 1, t[<<e[1] - 1, e[2] - 1>>])
    <3> HIDE DEF t, D
    <3> QED BY <2>2
  <2>4. Makes(BackEntry(u, t, a, b, e), a, b, e[1], e[2], t[e])
    BY <2>3, BackMakes
  <2>5. u[e] = BackEntry(u, t, a, b, e)
    <3> HIDE DEF D, t
    <3> QED BY <1>2
  <2> HIDE DEF t, D
  <2> QED BY <2>4, <2>5
<1>4. D \subseteq T
  <2>1. \A e \in D : (\A f \in D : f[1] + f[2] < e[1] + e[2] => f \in T) => e \in T
    BY <1>3
  <2> HIDE DEF T
  <2> QED BY <1>1, <2>1, EndsInduction
<1>5. <<Len(a), Len(b)>> \in D BY <1>1 DEF Ends
<1> HIDE DEF t, D
<1>6. LET e == <<Len(a), Len(b)>> IN Makes(u[e], a, b, e[1], e[2], t[e])
  BY <1>4, <1>5
<1> QED BY <1>2, <1>6 DEF t

\* An entry of the table is its neighbours' value or one more.
Near(t, e) ==
    /\ e[1] > 0 => t[<<e[1] - 1, e[2]>>] <= t[e] /\ t[e] <= t[<<e[1] - 1, e[2]>>] + 1
    /\ e[2] > 0 => t[<<e[1], e[2] - 1>>] <= t[e] /\ t[e] <= t[<<e[1], e[2] - 1>>] + 1

\* Neighbours in the table differ by at most one.
LEMMA TableGrows ==
    ASSUME NEW a, NEW b, Len(a) \in Nat, Len(b) \in Nat
    PROVE  \A e \in Ends(a, b) : Near(lcs(a, b), e)
<1> DEFINE t == lcs(a, b)
           D == Ends(a, b)
           T == {e \in D : Near(t, e)}
<1>0. t \in [D -> Nat] /\ \A e \in D : t[e] = LcsEntry(t, a, b, e)
  BY LcsIs
<1> HIDE DEF t
<1>1. ASSUME NEW e \in D, \A f \in D : f[1] + f[2] < e[1] + e[2] => f \in T
      PROVE  e \in T
  <2> DEFINE i == e[1]
             j == e[2]
             x == <<i - 1, j>>
             y == <<i, j - 1>>
             z == <<i - 1, j - 1>>
  <2>1. i \in Nat /\ j \in Nat BY DEF Ends
  <2>2. i > 0 => x \in D /\ x[1] + x[2] < i + j /\ x[1] = i - 1 /\ x[2] = j
    BY <2>1 DEF Ends
  <2>3. j > 0 => y \in D /\ y[1] + y[2] < i + j /\ y[1] = i /\ y[2] = j - 1
    BY <2>1 DEF Ends
  <2>4. i > 0 /\ j > 0 => z \in D BY <2>1 DEF Ends
  <2>5. t[e] = LcsEntry(t, a, b, e) BY <1>0
  <2>6. CASE i = 0 \/ j = 0
    <3>1. t[e] = 0 BY <2>5, <2>6 DEF LcsEntry
    <3>2. i > 0 => t[x] = 0
      <4>1. CASE i > 0
        <5>1. t[x] = LcsEntry(t, a, b, x) /\ x[1] = i - 1 /\ x[2] = j
          BY <1>0, <2>2, <4>1
        <5> QED BY <5>1, <2>6, <4>1, <2>1 DEF LcsEntry
      <4> QED BY <4>1
    <3>3. j > 0 => t[y] = 0
      <4>1. CASE j > 0
        <5>1. t[y] = LcsEntry(t, a, b, y) /\ y[1] = i /\ y[2] = j - 1
          BY <1>0, <2>3, <4>1
        <5> QED BY <5>1, <2>6, <4>1, <2>1 DEF LcsEntry
      <4> QED BY <4>1
    <3> QED BY <2>1, <3>1, <3>2, <3>3 DEF Near
  <2>7. CASE i > 0 /\ j > 0
    <3>1. t[x] \in Nat /\ t[y] \in Nat /\ t[z] \in Nat /\ t[e] \in Nat
      <4> HIDE DEF x, y, z, D
      <4> QED BY <1>0, <2>2, <2>3, <2>4, <2>7
    <3>2. t[z] <= t[x] /\ t[x] <= t[z] + 1
      <4>1. x \in T
        <5> HIDE DEF x, D, T
        <5> QED BY <1>1, <2>2, <2>7
      <4>2. Near(t, x) BY <4>1
      <4>3. x[1] = i - 1 /\ x[2] = j /\ z = <<x[1], x[2] - 1>> /\ x[2] > 0
        BY <2>7
      <4> HIDE DEF x, z
      <4> QED BY <4>2, <4>3 DEF Near
    <3>3. t[z] <= t[y] /\ t[y] <= t[z] + 1
      <4>1. y \in T
        <5> HIDE DEF y, D, T
        <5> QED BY <1>1, <2>3, <2>7
      <4>2. Near(t, y) BY <4>1
      <4>3. z = <<y[1] - 1, y[2]>> /\ y[1] > 0 BY <2>7
      <4> HIDE DEF y, z
      <4> QED BY <4>2, <4>3 DEF Near
    <3>4. t[e] = IF a[i] = b[j] THEN t[z] + 1 ELSE AtLeast(t[x], t[y])
      BY <2>1, <2>5, <2>7 DEF LcsEntry
    <3>5. t[x] <= t[e] /\ t[e] <= t[x] + 1 /\ t[y] <= t[e] /\ t[e] <= t[y] + 1
      <4> HIDE DEF x, y, z, i, j
      <4> QED BY <3>1, <3>2, <3>3, <3>4 DEF AtLeast
    <3> QED BY <3>5 DEF Near
  <2> QED BY <2>1, <2>6, <2>7
<1>2. D \subseteq T
  <2>1. \A e \in D : (\A f \in D : f[1] + f[2] < e[1] + e[2] => f \in T) => e \in T
    BY <1>1
  <2> HIDE DEF T
  <2> QED BY <2>1, EndsInduction
<1> QED BY <1>2 DEF t

\* What is chosen of the first e[1] lines of a and the first e[2] of b is the
\* same and n lines long.
Shared(a, b, e, x, y, n) ==
    /\ Those(SubSeq(a, 1, e[1]), x) = Those(SubSeq(b, 1, e[2]), y)
    /\ Len(Those(SubSeq(a, 1, e[1]), x)) = n

\* As many lines can be chosen as the table says.
LEMMA TableReached ==
    ASSUME NEW S, NEW a \in Seq(S), NEW b \in Seq(S)
    PROVE  \A e \in Ends(a, b) : \E x \in SUBSET (1..e[1]), y \in SUBSET (1..e[2]) :
             Shared(a, b, e, x, y, lcs(a, b)[e])
<1> DEFINE t == lcs(a, b)
           D == Ends(a, b)
           T == {e \in D : \E x \in SUBSET (1..e[1]), y \in SUBSET (1..e[2]) : Shared(a, b, e, x, y, t[e])}
<1>0. Len(a) \in Nat /\ Len(b) \in Nat BY LenProperties
<1>1. t \in [D -> Nat] /\ \A e \in D : t[e] = LcsEntry(t, a, b, e)
  BY <1>0, LcsIs
<1> HIDE DEF t
<1>2. ASSUME NEW e \in D, \A f \in D : f[1] + f[2] < e[1] + e[2] => f \in T
      PROVE  e \in T
  <2> DEFINE i == e[1]
             j == e[2]
  <2>1. i \in 0..Len(a) /\ j \in 0..Len(b) /\ i \in Nat /\ j \in Nat
    BY <1>0 DEF Ends
  <2>2. t[e] = LcsEntry(t, a, b, e) BY <1>1
  <2>3. CASE i = 0 \/ j = 0
    <3>1. Those(SubSeq(a, 1, i), {}) = <<>> /\ Those(SubSeq(b, 1, j), {}) = <<>>
      <4>2. SubSeq(a, 1, i) \in Seq(S) /\ SubSeq(b, 1, j) \in Seq(S)
        BY <1>0, <2>1
      <4> QED BY <4>2, ThoseNone
    <3>2. t[e] = 0 BY <2>2, <2>3 DEF LcsEntry
    <3>3. Shared(a, b, e, {}, {}, t[e]) BY <3>1, <3>2 DEF Shared
    <3> QED BY <3>3
  <2>4. CASE i > 0 /\ j > 0 /\ a[i] = b[j]
    <3> DEFINE z == <<i - 1, j - 1>>
    <3>1. z \in D /\ z[1] + z[2] < i + j /\ z[1] = i - 1 /\ z[2] = j - 1
      BY <2>1, <2>4 DEF Ends
    <3>2. PICK x \in SUBSET (1..i - 1), y \in SUBSET (1..j - 1) : Shared(a, b, z, x, y, t[z])
      <4>1. z \in T
        <5> HIDE DEF z, D, T
        <5> QED BY <1>2, <3>1
      <4> QED BY <3>1, <4>1
    <3> DEFINE X == x \cup {i}
               Y == y \cup {j}
               p == SubSeq(a, 1, i - 1)
               q == SubSeq(b, 1, j - 1)
    <3>3. i \in 1..Len(a) /\ j \in 1..Len(b) BY <2>1, <2>4
    <3>4. p \in Seq(S) /\ Len(p) = i - 1 /\ q \in Seq(S) /\ Len(q) = j - 1
      BY <3>3, Beginnings
    <3>5. Those(p, X) = Those(p, x)
      <4>1. \A k \in DOMAIN p : k \in X <=> k \in x BY <3>4, <2>1
      <4> HIDE DEF p, X
      <4> QED BY <3>4, <4>1, ThoseAgree
    <3>6. Those(q, Y) = Those(q, y)
      <4>1. \A k \in DOMAIN q : k \in Y <=> k \in y BY <3>4, <2>1
      <4> HIDE DEF q, Y
      <4> QED BY <3>4, <4>1, ThoseAgree
    <3>7. /\ Those(SubSeq(a, 1, i), X) = Append(Those(p, X), a[i])
          /\ Those(SubSeq(b, 1, j), Y) = Append(Those(q, Y), b[j])
      <4>1. i \in X /\ j \in Y OBVIOUS
      <4> HIDE DEF X, Y, i, j
      <4>2. Those(SubSeq(a, 1, i), X) = Append(Those(SubSeq(a, 1, i - 1), X), a[i])
        <5>1. OneKept(a, i, X) BY ONLY a \in Seq(S), <3>3, ThoseGrow
        <5> QED BY <4>1, <5>1 DEF OneKept
      <4>3. Those(SubSeq(b, 1, j), Y) = Append(Those(SubSeq(b, 1, j - 1), Y), b[j])
        <5>1. OneKept(b, j, Y) BY ONLY b \in Seq(S), <3>3, ThoseGrow
        <5> QED BY <4>1, <5>1 DEF OneKept
      <4> QED BY <4>2, <4>3
    <3>8. Those(p, x) = Those(q, y) /\ Len(Those(p, x)) = t[z] /\ Those(p, x) \in Seq(S)
      <4>1. Those(p, x) \in Seq(S) BY <3>4, ThoseType
      <4> QED BY <3>1, <3>2, <4>1 DEF Shared
    <3>9. a[i] \in S BY <3>3, ElementOfSeq
    <3>10. t[e] = t[z] + 1 BY <2>1, <2>2, <2>4 DEF LcsEntry
    <3>11. X \in SUBSET (1..i) /\ Y \in SUBSET (1..j)
      <4>1. i \in Nat /\ j \in Nat /\ i \in 1..i /\ j \in 1..j BY <3>3
      <4>2. \A k \in x : k \in 1..i BY <4>1
      <4>3. \A k \in y : k \in 1..j BY <4>1
      <4> QED BY <4>1, <4>2, <4>3
    <3> HIDE DEF p, q, X, Y, z
    <3>12. Len(Append(Those(p, x), a[i])) = t[z] + 1
      BY <3>8, <3>9, AppendFacts
    <3>13. Shared(a, b, e, X, Y, t[e])
      BY <2>4, <3>5, <3>6, <3>7, <3>8, <3>10, <3>12 DEF Shared
    <3> QED BY <3>11, <3>13
  <2>5. CASE i > 0 /\ j > 0 /\ a[i] # b[j]
    <3> DEFINE x1 == <<i - 1, j>>
               y1 == <<i, j - 1>>
    <3>0. i \in 1..Len(a) /\ j \in 1..Len(b) BY <2>1, <2>5
    <3>1. /\ x1 \in D /\ x1[1] + x1[2] < i + j /\ x1[1] = i - 1 /\ x1[2] = j
          /\ y1 \in D /\ y1[1] + y1[2] < i + j /\ y1[1] = i /\ y1[2] = j - 1
      <4>1. i \in 0..Len(a) /\ j \in 0..Len(b) /\ i - 1 \in 0..Len(a) /\ j - 1 \in 0..Len(b)
        BY <2>1, <3>0
      <4>2. i - 1 + j < i + j /\ i + (j - 1) < i + j BY <4>1
      <4> HIDE DEF i, j
      <4>3. x1 \in D /\ y1 \in D BY <4>1 DEF Ends
      <4> QED BY <4>2, <4>3
    <3>2. x1 \in T /\ y1 \in T
      <4> HIDE DEF x1, y1, D, T
      <4> QED BY <1>2, <3>1
    <3>3. t[e] = t[x1] \/ t[e] = t[y1]
      BY <2>1, <2>2, <2>5 DEF LcsEntry, AtLeast
    <3>4. CASE t[e] = t[x1]
      <4>1. PICK x \in SUBSET (1..i - 1), y \in SUBSET (1..j) : Shared(a, b, x1, x, y, t[x1])
        BY <3>1, <3>2
      <4>2. i \notin x /\ x \in SUBSET (1..i) BY <2>1
      <4>3. Those(SubSeq(a, 1, i), x) = Those(SubSeq(a, 1, i - 1), x)
        BY <3>0, <4>2, ThoseBeginning
      <4>4. Shared(a, b, e, x, y, t[e])
        BY <3>1, <3>4, <4>1, <4>3 DEF Shared
      <4> QED BY <4>2, <4>4
    <3>5. CASE t[e] = t[y1]
      <4>1. PICK x \in SUBSET (1..i), y \in SUBSET (1..j - 1) : Shared(a, b, y1, x, y, t[y1])
        BY <3>1, <3>2
      <4>2. j \notin y /\ y \in SUBSET (1..j) BY <2>1
      <4>3. Those(SubSeq(b, 1, j), y) = Those(SubSeq(b, 1, j - 1), y)
        BY <3>0, <4>2, ThoseBeginning
      <4>4. Shared(a, b, e, x, y, t[e])
        BY <3>1, <3>5, <4>1, <4>3 DEF Shared
      <4> QED BY <4>2, <4>4
    <3> QED BY <3>3, <3>4, <3>5
  <2> QED BY <2>1, <2>3, <2>4, <2>5
<1>3. D \subseteq T
  <2>1. \A e \in D : (\A f \in D : f[1] + f[2] < e[1] + e[2] => f \in T) => e \in T
    BY <1>2
  <2> HIDE DEF T
  <2> QED BY <1>0, <2>1, EndsInduction
<1> QED BY <1>3 DEF t

\* No more lines can be chosen from both files than the table says.
LEMMA TableBounds ==
    ASSUME NEW S, NEW a \in Seq(S), NEW b \in Seq(S)
    PROVE  \A e \in Ends(a, b) : \A x, y, n : Shared(a, b, e, x, y, n) => n <= lcs(a, b)[e]
<1> DEFINE t == lcs(a, b)
           D == Ends(a, b)
           T == {e \in D : \A x, y, n : Shared(a, b, e, x, y, n) => n <= t[e]}
<1>0. Len(a) \in Nat /\ Len(b) \in Nat BY LenProperties
<1>1. t \in [D -> Nat] /\ \A e \in D : t[e] = LcsEntry(t, a, b, e) /\ Near(t, e)
  BY <1>0, LcsIs, TableGrows
<1> HIDE DEF t
<1>2. ASSUME NEW e \in D, \A f \in D : f[1] + f[2] < e[1] + e[2] => f \in T
      PROVE  e \in T
  <2> SUFFICES ASSUME NEW x, NEW y, NEW n, Shared(a, b, e, x, y, n)
               PROVE  n <= t[e]
    OBVIOUS
  <2> DEFINE i == e[1]
             j == e[2]
             p == Those(SubSeq(a, 1, i), x)
             q == Those(SubSeq(b, 1, j), y)
  <2>1. i \in 0..Len(a) /\ j \in 0..Len(b) /\ i \in Nat /\ j \in Nat
    BY <1>0 DEF Ends
  <2>2. t[e] = LcsEntry(t, a, b, e) /\ Near(t, e) /\ t[e] \in Nat
    BY <1>1
  <2>3. p = q /\ Len(p) = n /\ p \in Seq(S) /\ n \in Nat
    <3>1. p \in Seq(S) BY <2>1, ThoseBeginningType
    <3>2. Len(p) \in Nat BY <3>1, LenProperties
    <3> QED BY <3>1, <3>2 DEF Shared
  <2>4. CASE i = 0 \/ j = 0
    <3>1. p = <<>> \/ q = <<>>
      <4>1. CASE i = 0 BY <4>1, Beginnings, ThoseEmpty
      <4>2. CASE j = 0 BY <4>2, Beginnings, ThoseEmpty
      <4> QED BY <2>4, <4>1, <4>2
    <3>2. n = 0 BY <2>3, <3>1
    <3> QED BY <2>2, <3>2
  <2>5. CASE i > 0 /\ j > 0
    <3> DEFINE x1 == <<i - 1, j>>
               y1 == <<i, j - 1>>
               z == <<i - 1, j - 1>>
               p1 == Those(SubSeq(a, 1, i - 1), x)
               q1 == Those(SubSeq(b, 1, j - 1), y)
    <3>1. i \in 1..Len(a) /\ j \in 1..Len(b) /\ a[i] \in S /\ b[j] \in S
      BY <2>1, <2>5, ElementOfSeq
    <3>2. /\ x1 \in D /\ x1[1] + x1[2] < i + j /\ x1[1] = i - 1 /\ x1[2] = j
          /\ y1 \in D /\ y1[1] + y1[2] < i + j /\ y1[1] = i /\ y1[2] = j - 1
          /\ z \in D /\ z[1] + z[2] < i + j /\ z[1] = i - 1 /\ z[2] = j - 1
      BY <2>1, <2>5 DEF Ends
    <3>3. x1 \in T /\ y1 \in T /\ z \in T
      <4> HIDE DEF x1, y1, z, D, T
      <4> QED BY <1>2, <3>2
    <3>4. p1 \in Seq(S) /\ q1 \in Seq(S)
      <4>1. i - 1 \in 0..Len(a) /\ j - 1 \in 0..Len(b) BY <1>0, <3>1
      <4> QED BY <4>1, ThoseBeginningType
    <3>5. p = IF i \in x THEN Append(p1, a[i]) ELSE p1
      BY <3>1, ThoseBeginning
    <3>6. q = IF j \in y THEN Append(q1, b[j]) ELSE q1
      BY <3>1, ThoseBeginning
    <3>7. t[x1] <= t[e] /\ t[y1] <= t[e] /\ t[x1] \in Nat /\ t[y1] \in Nat /\ t[z] \in Nat
      <4>1. t[x1] \in Nat /\ t[y1] \in Nat /\ t[z] \in Nat
        <5> HIDE DEF D, x1, y1, z
        <5> QED BY <1>1, <3>2
      <4> QED BY <2>2, <2>5, <4>1 DEF Near
    <3>8. CASE i \notin x
      <4>1. Shared(a, b, x1, x, y, n)
        BY <2>3, <3>2, <3>5, <3>8 DEF Shared
      <4>2. n <= t[x1] BY <3>3, <4>1
      <4> HIDE DEF x1, y1, z, p, q
      <4> QED BY <2>2, <2>3, <3>7, <4>2
    <3>9. CASE j \notin y
      <4>1. Shared(a, b, y1, x, y, n)
        BY <2>3, <3>2, <3>6, <3>9 DEF Shared
      <4>2. n <= t[y1] BY <3>3, <4>1
      <4> HIDE DEF x1, y1, z, p, q
      <4> QED BY <2>2, <2>3, <3>7, <4>2
    <3>10. CASE i \in x /\ j \in y
      <4>1. Append(p1, a[i]) = Append(q1, b[j]) /\ Len(Append(p1, a[i])) = n
        BY <2>3, <3>5, <3>6, <3>10
      <4>2. p1 = q1 /\ a[i] = b[j] /\ Len(p1) = n - 1
        <5> DEFINE v == a[i]
                   w == b[j]
        <5>1. v \in S /\ w \in S /\ Append(p1, v) = Append(q1, w) /\ Len(Append(p1, v)) = n
          BY <3>1, <4>1
        <5> HIDE DEF p1, q1, v, w, p, q
        <5>2. p1 = q1 BY <3>4, <5>1, AppendSame
        <5>3. Len(p1) \in Nat BY <3>4, LenProperties
        <5>4. Len(p1) + 1 = n /\ Append(p1, v)[Len(p1) + 1] = v
          BY <3>4, <5>1, AppendFacts
        <5>5. Append(q1, w)[Len(q1) + 1] = w BY <3>4, <5>1, AppendFacts
        <5>6. v = w /\ Len(p1) = n - 1 BY <5>1, <5>2, <5>3, <5>4, <5>5
        <5> QED BY <5>2, <5>6 DEF v, w
      <4>3. Shared(a, b, z, x, y, n - 1) BY <3>2, <4>2 DEF Shared
      <4>4. n - 1 <= t[z] BY <3>3, <4>3
      <4>5. t[e] = t[z] + 1 BY <2>1, <2>2, <2>5, <4>2 DEF LcsEntry
      <4> HIDE DEF x1, y1, z, p, q
      <4> QED BY <2>3, <3>7, <4>4, <4>5
    <3> QED BY <3>8, <3>9, <3>10
  <2> QED BY <2>1, <2>4, <2>5
<1>3. D \subseteq T
  <2>1. \A e \in D : (\A f \in D : f[1] + f[2] < e[1] + e[2] => f \in T) => e \in T
    BY <1>2
  <2> HIDE DEF T
  <2> QED BY <1>0, <2>1, EndsInduction
<1> QED BY <1>3 DEF t

\* The table's last entry is the most lines that can be chosen from both files.
LEMMA CommonIs ==
    ASSUME NEW S, NEW a \in Seq(S), NEW b \in Seq(S)
    PROVE  CommonLines(a, b) = lcs(a, b)[<<Len(a), Len(b)>>]
<1> DEFINE e == <<Len(a), Len(b)>>
           t == lcs(a, b)[e]
           chosen == {Those(a, x) : x \in SUBSET DOMAIN a} \cap {Those(b, y) : y \in SUBSET DOMAIN b}
<1>1. /\ Len(a) \in Nat /\ Len(b) \in Nat /\ DOMAIN a = 1..Len(a) /\ DOMAIN b = 1..Len(b)
      /\ e \in Ends(a, b) /\ e[1] = Len(a) /\ e[2] = Len(b)
  BY LenProperties DEF Ends
<1>2. SubSeq(a, 1, e[1]) = a /\ SubSeq(b, 1, e[2]) = b
  BY <1>1, Beginnings
<1>3. PICK x \in SUBSET (1..e[1]), y \in SUBSET (1..e[2]) : Shared(a, b, e, x, y, t)
  <2> HIDE DEF e
  <2> QED BY <1>1, TableReached
<1>4. Those(a, x) = Those(b, y) /\ Len(Those(a, x)) = t
  <2> HIDE DEF e, t
  <2> QED BY <1>2, <1>3 DEF Shared
<1>5. Those(a, x) \in chosen BY <1>1, <1>3, <1>4
<1>6. ASSUME NEW s \in chosen PROVE Len(s) <= t
  <2>1. PICK v \in SUBSET DOMAIN a, w \in SUBSET DOMAIN b : s = Those(a, v) /\ s = Those(b, w)
    OBVIOUS
  <2> HIDE DEF chosen, e
  <2>2. Shared(a, b, e, v, w, Len(s)) BY <1>2, <2>1 DEF Shared
  <2> QED BY <1>1, <2>2, TableBounds
<1>7. t \in Nat
  <2>1. lcs(a, b) \in [Ends(a, b) -> Nat] BY <1>1, LcsIs
  <2> HIDE DEF e
  <2> QED BY <1>1, <2>1
<1>8. ASSUME NEW s \in chosen PROVE Len(s) \in Nat
  <2>1. PICK v \in SUBSET DOMAIN a : s = Those(a, v) OBVIOUS
  <2> QED BY <2>1, ThoseType, LenProperties
<1> HIDE DEF t
<1> DEFINE C == CHOOSE n \in {Len(s) : s \in chosen} : \A s \in chosen : Len(s) <= n
<1>9. C = t
  <2> HIDE DEF chosen
  <2> DEFINE N == {Len(s) : s \in chosen}
  <2>1. t \in N /\ \A s \in chosen : Len(s) <= t BY <1>4, <1>5, <1>6
  <2>2. C \in N /\ \A s \in chosen : Len(s) <= C BY <2>1
  <2>3. C <= t /\ t <= C /\ C \in Nat
    <3>1. PICK s \in chosen : C = Len(s) BY <2>2
    <3> HIDE DEF C
    <3> QED BY <1>4, <1>5, <1>6, <1>8, <2>2, <3>1
  <2> HIDE DEF C
  <2> QED BY <1>7, <2>3
<1>10. CommonLines(a, b) = C BY DEF CommonLines
<1> QED BY <1>9, <1>10 DEF t

\* diff prints nothing of equal files; otherwise one hunk that holds the whole of
\* both and keeps as many lines as can be kept.
LEMMA DiffPrints ==
    ASSUME NEW S, NEW a \in Seq(S), NEW b \in Seq(S), NEW context
    PROVE  LET hunks == output_unified_diff(a, b, context)
           IN  IF a = b THEN hunks = <<>>
               ELSE /\ hunks = <<hunks[1]>>
                    /\ OldLines(hunks[1]) = a
                    /\ NewLines(hunks[1]) = b
                    /\ Kept(compute_diff(a, b)) = CommonLines(a, b)
<1>1. CASE a = b BY <1>1 DEF output_unified_diff, compute_diff
<1>2. CASE a # b
  <2> DEFINE u == backtrack_lcs(lcs(a, b), a, b)
             hunks == output_unified_diff(a, b, context)
  <2>1. compute_diff(a, b) = u BY <1>2 DEF compute_diff
  <2>2. Makes(u, a, b, Len(a), Len(b), CommonLines(a, b))
    BY BacktrackMakes, CommonIs
  <2>3. /\ u \in Seq(EditOf(a, b))
        /\ Without(Body(a, b, u), "INS") = a
        /\ Without(Body(a, b, u), "DEL") = b
        /\ Kept(u) = CommonLines(a, b)
    <3> HIDE DEF u
    <3> QED BY <2>2, Beginnings DEF Makes
  <2>4. u # <<>>
    <3>1. ASSUME u = <<>> PROVE FALSE
      <4>1. Body(a, b, <<>>) = <<>> BY DEF Body
      <4> HIDE DEF u
      <4> QED BY <1>2, <2>3, <3>1, <4>1, WithoutEmpty
    <3> QED BY <3>1
  <2>5. /\ hunks = <<hunks[1]>>
        /\ hunks[1].body = Body(a, b, u)
    <3> HIDE DEF u
    <3> QED BY <2>1, <2>4 DEF output_unified_diff, Body, Item
  <2> HIDE DEF u, hunks
  <2>6. OldLines(hunks[1]) = a /\ NewLines(hunks[1]) = b
    BY <2>3, <2>5 DEF OldLines, NewLines, Without
  <2> QED BY <1>2, <2>1, <2>3, <2>5, <2>6 DEF hunks
<1> QED BY <1>1, <1>2

\* What the recursive equation in patch says.
Patched(result, lines, given) ==
    result = [k \in 0..Len(given) |->
          IF k = 0 THEN [failed |-> 0, lines |-> lines]
          ELSE IF HunkMatches(result[k - 1].lines, given[k])
               THEN [result[k - 1] EXCEPT !.lines = apply_hunk(@, given[k])]
               ELSE [result[k - 1] EXCEPT !.failed = @ + 1]]

\* A patch without hunks changes nothing.
LEMMA PatchNothing ==
    ASSUME NEW a
    PROVE  patch(a, <<>>) = [status |-> 0, lines |-> a]
<1> DEFINE given == Those(<<>>, {k \in DOMAIN <<>> : parse_hunk(<<>>[k])})
           R == CHOOSE f : Patched(f, a, given)
           v == [failed |-> 0, lines |-> a]
<1>1. given = <<>> BY ThoseEmpty
<1>2. Patched([k \in 0..0 |-> v], a, <<>>) BY DEF Patched
<1> HIDE DEF v
<1>3. Patched(R, a, <<>>) BY <1>1, <1>2
<1>4. patch(a, <<>>) = IF a = <<>> /\ given # <<>> THEN [status |-> 1, lines |-> a]
                       ELSE IF R[Len(given)].failed > 0 THEN [status |-> 1, lines |-> a]
                       ELSE [status |-> 0, lines |-> R[Len(given)].lines]
  BY DEF patch, Patched
<1> HIDE DEF R, given
<1>5. R[0] = v BY <1>3 DEF Patched, v
<1> QED BY <1>1, <1>4, <1>5 DEF v

\* A hunk that holds the whole of both files applies and gives the second.
LEMMA ApplyWhole ==
    ASSUME NEW S, NEW a \in Seq(S), NEW b \in Seq(S), NEW h,
           OldLines(h) = a, NewLines(h) = b, HeaderMatchesBody(h)
    PROVE  HunkMatches(a, h) /\ apply_hunk(a, h) = b /\ parse_hunk(h)
<1>1. Len(a) \in Nat /\ Len(b) \in Nat BY LenProperties
<1>2. /\ h.old.start = 1 /\ h.old.count = Len(a)
      /\ h.new.start = 1 /\ h.new.count = Len(b)
  BY DEF HeaderMatchesBody
<1>3. HunkMatches(a, h) BY <1>1, <1>2 DEF HunkMatches
<1>4. SubSeq(a, 1, 0) = <<>> /\ SubSeq(a, 1 + Len(a), Len(a)) = <<>>
  <2>1. Len(SubSeq(a, 1 + Len(a), Len(a))) = 0 /\ SubSeq(a, 1 + Len(a), Len(a)) \in Seq(S)
    BY <1>1
  <2> QED BY <2>1, Beginnings
<1>5. apply_hunk(a, h) = <<>> \o b \o <<>>
  BY <1>1, <1>2, <1>4 DEF apply_hunk
<1>6. <<>> \o b \o <<>> = b BY ConcatEmptySeq
<1> QED BY <1>1, <1>2, <1>3, <1>5, <1>6 DEF parse_hunk

\* A patch of one hunk that applies gives what the hunk makes.
LEMMA PatchWhole ==
    ASSUME NEW a, NEW b, NEW h, a # <<>>,
           HunkMatches(a, h), apply_hunk(a, h) = b, parse_hunk(h)
    PROVE  patch(a, <<h>>) = [status |-> 0, lines |-> b]
<1> DEFINE hunks == <<h>>
           keep == {k \in DOMAIN hunks : parse_hunk(hunks[k])}
           given == Those(hunks, keep)
           R == CHOOSE f : Patched(f, a, given)
           v == [failed |-> 0, lines |-> a]
           w == [failed |-> 0, lines |-> b]
           f == [k \in 0..1 |-> IF k = 0 THEN v ELSE w]
<1>1. given = hunks
  <2>1. hunks = Append(<<>>, h) /\ 1 \in keep OBVIOUS
  <2>2. <<>> \in Seq({h}) /\ h \in {h} /\ Len(<<>>) + 1 = 1 OBVIOUS
  <2>3. Those(Append(<<>>, h), keep) = IF Len(<<>>) + 1 \in keep THEN Append(Those(<<>>, keep), h) ELSE Those(<<>>, keep)
    <3> DEFINE s == <<>>
               S == {h}
    <3>1. s \in Seq(S) /\ h \in S BY <2>2
    <3> HIDE DEF s, S, keep
    <3>2. Those(Append(s, h), keep) = IF Len(s) + 1 \in keep THEN Append(Those(s, keep), h) ELSE Those(s, keep)
      BY <3>1, ThoseAppend
    <3> QED BY <3>2 DEF s
  <2> HIDE DEF keep
  <2> QED BY <2>1, <2>2, <2>3, ThoseEmpty
<1> HIDE DEF given
<1>2. Patched(f, a, hunks)
  <2>1. Len(hunks) = 1 /\ hunks[1] = h OBVIOUS
  <2>2. [v EXCEPT !.lines = apply_hunk(@, h)] = w OBVIOUS
  <2>3. v.lines = a OBVIOUS
  <2>4. f[0] = v /\ f[1] = w /\ f = [k \in 0..1 |-> f[k]] OBVIOUS
  <2> HIDE DEF hunks, v, w, f
  <2> DEFINE g(k) == IF HunkMatches(f[k - 1].lines, hunks[k])
                     THEN [f[k - 1] EXCEPT !.lines = apply_hunk(@, hunks[k])]
                     ELSE [f[k - 1] EXCEPT !.failed = @ + 1]
  <2>5. g(1) = w BY <2>1, <2>2, <2>3, <2>4
  <2>6. \A k \in 0..1 : f[k] = IF k = 0 THEN v ELSE g(k)
    <3> HIDE DEF g
    <3>1. \A k \in 0..1 : k = 0 \/ k = 1 OBVIOUS
    <3> QED BY <2>4, <2>5, <3>1
  <2>7. f = [k \in 0..1 |-> IF k = 0 THEN v ELSE g(k)]
    <3> HIDE DEF g
    <3> QED BY <2>4, <2>6
  <2> QED BY <2>1, <2>7 DEF Patched, v
<1>3. Patched(R, a, hunks)
  <2> HIDE DEF f, hunks
  <2> QED BY <1>1, <1>2
<1>4. patch(a, hunks) = IF a = <<>> /\ given # <<>> THEN [status |-> 1, lines |-> a]
                       ELSE IF R[Len(given)].failed > 0 THEN [status |-> 1, lines |-> a]
                       ELSE [status |-> 0, lines |-> R[Len(given)].lines]
  <2> HIDE DEF hunks
  <2> QED BY DEF patch, Patched, given
<1> HIDE DEF R
<1>5. R[1] = w
  <2>1. Len(hunks) = 1 /\ hunks[1] = h OBVIOUS
  <2> HIDE DEF hunks
  <2>2. R = [k \in 0..1 |->
          IF k = 0 THEN v
          ELSE IF HunkMatches(R[k - 1].lines, hunks[k])
               THEN [R[k - 1] EXCEPT !.lines = apply_hunk(@, hunks[k])]
               ELSE [R[k - 1] EXCEPT !.failed = @ + 1]]
    BY <1>3, <2>1 DEF Patched
  <2>3. 0 \in 0..1 /\ 1 \in 0..1 /\ 1 # 0 /\ 1 - 1 = 0 OBVIOUS
  <2>4. R[0] = v BY <2>2, <2>3
  <2>5. R[1] = IF HunkMatches(R[0].lines, h)
               THEN [R[0] EXCEPT !.lines = apply_hunk(@, h)]
               ELSE [R[0] EXCEPT !.failed = @ + 1]
    BY <2>1, <2>2, <2>3
  <2> QED BY <2>4, <2>5
<1>6. Len(hunks) = 1 BY SMTT(30)
<1> QED BY <1>1, <1>4, <1>5, <1>6

\* A patch that fails leaves the file.
LEMMA PatchFails ==
    ASSUME NEW a, NEW hunks, patch(a, hunks).status = 1
    PROVE  patch(a, hunks).lines = a
<1> DEFINE keep == {k \in DOMAIN hunks : parse_hunk(hunks[k])}
           given == Those(hunks, keep)
           R == CHOOSE f : Patched(f, a, given)
           v == R[Len(given)]
<1>1. patch(a, hunks) = IF a = <<>> /\ given # <<>> THEN [status |-> 1, lines |-> a]
                       ELSE IF v.failed > 0 THEN [status |-> 1, lines |-> a]
                       ELSE [status |-> 0, lines |-> v.lines]
  BY DEF patch, Patched, given
<1> HIDE DEF given, v
<1>2. patch(a, hunks) = [status |-> 1, lines |-> a] \/ patch(a, hunks) = [status |-> 0, lines |-> v.lines]
  BY <1>1
<1>3. [status |-> 0, lines |-> v.lines].status = 0 /\ [status |-> 1, lines |-> a].lines = a
  OBVIOUS
<1>4. patch(a, hunks).status # 0 OBVIOUS
<1> QED BY ONLY <1>2, <1>3, <1>4

------------------------------------------------------------------------------
\* What a run of diff is about to print or has printed.
DiffRun ==
    cmd = "diff" =>
      /\ task \in TasksOf("diff")
      /\ done => LET hunks == output_unified_diff(task.a, task.b, task.context)
                 IN  out = [hunks |-> hunks, patched |-> patch(task.a, hunks)]

\* A run of diff prints what output_unified_diff makes of the task's files, and
\* patch is given just that.
LEMMA DiffRunHolds == FilterSpec => []DiffRun
<1>1. Begin(LineCommands) => DiffRun BY DEF Begin, DiffRun, TasksOf
<1>2. DiffRun /\ [FilterNext]_filterVars => DiffRun'
  <2> SUFFICES ASSUME DiffRun, [FilterNext]_filterVars, cmd' = "diff"
               PROVE  DiffRun'
    BY DEF DiffRun
  <2>1. CASE UNCHANGED filterVars BY <2>1 DEF DiffRun, filterVars
  <2>2. CASE RunDiff BY <2>2 DEF DiffRun, RunDiff, Run
  <2>3. CASE FilterNext /\ ~RunDiff
    BY <2>3 DEF FilterNext, RunComm, RunUniq, RunJoin, RunGrep, RunSort, RunSplit, RunCsplit, RunCut,
         RunOptions, RunHead, RunGlob, Run
  <2> QED BY <2>1, <2>2, <2>3
<1> QED BY <1>1, <1>2, PTL DEF FilterSpec

\* What diff prints makes the second file of the first, keeps as many lines as
\* can be kept, and is what patch undoes.
THEOREM PatchUndoesDiffAlways == FilterSpec => []PatchUndoesDiff
<1>1. DiffRun => PatchUndoesDiff
  <2> SUFFICES ASSUME DiffRun, done, cmd = "diff" PROVE PatchUndoesDiff
    BY DEF PatchUndoesDiff, DiffIsMinimal, PatchRestores, Ran
  <2> DEFINE a == task.a
             b == task.b
             S == ToSet(a) \cup ToSet(b)
             hunks == output_unified_diff(a, b, task.context)
  <2>1. a \in Seq(S) /\ b \in Seq(S)
    <3>1. IsSequence(a) /\ IsSequence(b) BY DiffReadsFiles DEF DiffRun
    <3> HIDE DEF a, b
    <3> QED BY <3>1 DEF IsSequence
  <2>2. out.hunks = hunks /\ out.patched = patch(a, hunks)
    BY DEF DiffRun
  <2>3. IF a = b THEN hunks = <<>>
        ELSE /\ hunks = <<hunks[1]>>
             /\ OldLines(hunks[1]) = a
             /\ NewLines(hunks[1]) = b
             /\ Kept(compute_diff(a, b)) = CommonLines(a, b)
    <3> HIDE DEF a, b, S
    <3> QED BY <2>1, DiffPrints DEF hunks
  <2> HIDE DEF S, hunks
  <2>4. DiffIsMinimal BY <2>2, <2>3 DEF DiffIsMinimal
  <2>5. PatchRestores
    <3>1. ASSUME \A k \in DOMAIN hunks : HeaderMatchesBody(hunks[k]), a # <<>>
          PROVE  patch(a, hunks) = [status |-> 0, lines |-> b]
      <4>1. CASE a = b BY <2>3, <4>1, PatchNothing
      <4>2. CASE a # b
        <5> DEFINE h == hunks[1]
        <5>1. hunks = <<h>> /\ OldLines(h) = a /\ NewLines(h) = b
          BY <2>3, <4>2
        <5>2. HeaderMatchesBody(h) BY <3>1, <5>1
        <5> HIDE DEF h, a, b
        <5>3. HunkMatches(a, h) /\ apply_hunk(a, h) = b /\ parse_hunk(h)
          BY <2>1, <5>1, <5>2, ApplyWhole
        <5>4. patch(a, <<h>>) = [status |-> 0, lines |-> b]
          BY <3>1, <5>3, PatchWhole
        <5> QED BY <5>1, <5>4
      <4> QED BY <4>1, <4>2
    <3>2. patch(a, hunks).status = 1 => patch(a, hunks).lines = a
      BY PatchFails
    <3> QED BY <2>2, <3>1, <3>2 DEF PatchRestores
  <2> QED BY <2>4, <2>5 DEF PatchUndoesDiff
<1> QED BY <1>1, DiffRunHolds, PTL

------------------------------------------------------------------------------
(***************************************************************************)
(* SortIsSound for any files.  Comparing two lines gives a sign, and signs *)
(* compose along every key (Composes, RecordsOrder), so Before is a strict *)
(* weak order on lines without NaN (BeforeOrders).  From it insertion      *)
(* keeps a sorted sequence sorted and the lines that compare equal, a      *)
(* line's Kin, in their order (StableSorts); Unique keeps the first of     *)
(* each Kin (UniqueKeepsFirst); and a merge of sorted files takes, line by *)
(* line, one that comes before all that are left (MergedSoFar).            *)
(***************************************************************************)
\* What comparing x with z can be when x with y is p and y with z is q.
Composes(p, q, r) == (p = 0 => r = q) /\ (q = 0 => r = p) /\ (p = q => r = p)

\* What a comparison gives.
Signs == {-1, 0, 1}

\* cmp is 0 for equal numbers only, turns its sign with its arguments and
\* composes.
LEMMA CmpOrders ==
    ASSUME NEW x \in Int, NEW y \in Int, NEW z \in Int
    PROVE  Cmp(x, y) \in Signs /\ Cmp(y, x) = 0 - Cmp(x, y) /\ Composes(Cmp(x, y), Cmp(y, z), Cmp(x, z))
BY DEF Cmp, Signs, Composes

\* The general numeric order without NaN does.
LEMMA NumbersOrder ==
    ASSUME NEW x \in Int \cup {None}, NEW y \in Int \cup {None}, NEW z \in Int \cup {None}
    PROVE  /\ CompareNumbers(x, y) \in Signs
           /\ CompareNumbers(y, x) = 0 - CompareNumbers(x, y)
           /\ Composes(CompareNumbers(x, y), CompareNumbers(y, z), CompareNumbers(x, z))
<1>1. \A u \in Int \cup {None} : u # NaN BY NotNumbers
<1>2. ASSUME NEW u \in Int \cup {None}, NEW v \in Int \cup {None}
      PROVE  CompareNumbers(u, v) = IF u = None THEN IF v = None THEN 0 ELSE -1
                                    ELSE IF v = None THEN 1 ELSE Cmp(u, v)
  BY <1>1 DEF CompareNumbers
<1>3. \A u \in Int \cup {None} : u = None \/ (u # None /\ u \in Int)
  BY NotNumbers
<1>4. x \in Int /\ y \in Int /\ z \in Int =>
        /\ Cmp(x, y) \in Signs /\ Cmp(y, x) = 0 - Cmp(x, y)
        /\ Composes(Cmp(x, y), Cmp(y, z), Cmp(x, z))
  BY CmpOrders
<1>5. /\ x \in Int /\ y \in Int => Cmp(x, y) \in Signs /\ Cmp(y, x) = 0 - Cmp(x, y)
      /\ x \in Int /\ z \in Int => Cmp(x, z) \in Signs
      /\ y \in Int /\ z \in Int => Cmp(y, z) \in Signs
  BY CmpOrders
<1> DEFINE c(u, v) == CompareNumbers(u, v)
<1>6. /\ c(x, y) \in Signs
      /\ c(y, x) = 0 - c(x, y)
  BY <1>2, <1>3, <1>5 DEF Signs
<1>7. Composes(c(x, y), c(y, z), c(x, z))
  BY <1>2, <1>3, <1>4, <1>5 DEF Composes, Signs
<1> QED BY <1>6, <1>7

\* What -h compares.
Human == [negative : BOOLEAN, rank : Int, value : Int]

\* The order of sizes with suffixes does.
LEMMA HumanOrders ==
    ASSUME NEW x \in Human, NEW y \in Human, NEW z \in Human
    PROVE  /\ compare_human(x, y) \in Signs
           /\ compare_human(y, x) = 0 - compare_human(x, y)
           /\ Composes(compare_human(x, y), compare_human(y, z), compare_human(x, z))
<1>1. \A u \in Human : u.rank \in Int /\ u.value \in Int /\ u.negative \in BOOLEAN
  BY DEF Human
<1>2. /\ compare_human(x, y) \in Signs
      /\ compare_human(y, x) = 0 - compare_human(x, y)
  BY <1>1, SMTT(30) DEF compare_human, Cmp, Signs
<1>3. Composes(compare_human(x, y), compare_human(y, z), compare_human(x, z))
  BY <1>1, SMTT(60) DEF compare_human, Cmp, Composes
<1> QED BY <1>2, <1>3

\* The order of months does.
LEMMA MonthsOrder ==
    ASSUME NEW x \in Line, NEW y \in Line, NEW z \in Line
    PROVE  /\ compare_month(x, y) \in Signs
           /\ compare_month(y, x) = 0 - compare_month(x, y)
           /\ Composes(compare_month(x, y), compare_month(y, z), compare_month(x, z))
<1>1. \A u \in Line : u.month \in 0..12 /\ u.text \in Nat BY DEF Line
<1> QED BY <1>1, SMTT(60) DEF compare_month, Cmp, Signs, Composes

------------------------------------------------------------------------------
\* What Decision is: 0 where nothing tells, else the first that does.
Decides(s, d) ==
    \/ d = 0 /\ \A k \in DOMAIN s : s[k] = 0
    \/ \E k \in DOMAIN s : s[k] = d /\ d # 0 /\ \A l \in DOMAIN s : l < k => s[l] = 0

\* Decision is the first that is not 0.
LEMMA DecisionDecides ==
    ASSUME NEW s, DOMAIN s \subseteq Nat
    PROVE  Decides(s, Decision(s))
<1> DEFINE told == {k \in DOMAIN s : s[k] # 0}
<1>1. CASE told = {} BY <1>1 DEF Decides, Decision
<1>2. CASE told # {}
  <2>1. Min(told) \in told /\ \A y \in told : Min(told) =< y
    <3>1. told \subseteq Nat OBVIOUS
    <3> HIDE DEF told
    <3> QED BY <1>2, <3>1, MinFacts
  <2>2. Decision(s) = s[Min(told)] BY <1>2 DEF Decision
  <2>3. ASSUME NEW l \in DOMAIN s, l < Min(told) PROVE s[l] = 0
    <3>1. l \in Nat /\ Min(told) \in Nat BY <2>1
    <3> QED BY <2>1, <2>3, <3>1
  <2> QED BY <2>1, <2>2, <2>3 DEF Decides
<1> QED BY <1>1, <1>2

\* First differences compose as the differences do: s, t and u compare x with y,
\* y with z and x with z, each up to a position beyond which they do not differ.
LEMMA FirstsCompose ==
    ASSUME NEW s, NEW t, NEW u, NEW d, NEW e, NEW f,
           Decides(s, d), Decides(t, e), Decides(u, f),
           DOMAIN s = Nat, DOMAIN t = Nat, DOMAIN u = Nat,
           \A k \in Nat : Composes(s[k], t[k], u[k])
    PROVE  Composes(d, e, f)
<1>2. d = 0 => \A k \in Nat : u[k] = t[k] BY DEF Decides, Composes
<1>3. e = 0 => \A k \in Nat : u[k] = s[k] BY DEF Decides, Composes
<1>4. ASSUME NEW v, Decides(v, f), DOMAIN v = Nat, NEW g, Decides(v, g) PROVE f = g
  <2>1. CASE f = 0 \/ g = 0 BY <1>4, <2>1 DEF Decides
  <2>2. CASE f # 0 /\ g # 0
    <3>1. PICK k \in Nat : v[k] = f /\ \A l \in Nat : l < k => v[l] = 0
      BY <1>4, <2>2 DEF Decides
    <3>2. PICK m \in Nat : v[m] = g /\ \A l \in Nat : l < m => v[l] = 0
      BY <1>4, <2>2 DEF Decides
    <3>3. k = m BY <2>2, <3>1, <3>2
    <3> QED BY <3>1, <3>2, <3>3
  <2> QED BY <2>1, <2>2
<1>5. d = 0 => f = e
  <2>1. ASSUME d = 0 PROVE Decides(u, e) BY <1>2, <2>1 DEF Decides
  <2> QED BY <1>4, <2>1
<1>6. e = 0 => f = d
  <2>1. ASSUME e = 0 PROVE Decides(u, d) BY <1>3, <2>1 DEF Decides
  <2> QED BY <1>4, <2>1
<1>7. ASSUME d = e, d # 0 PROVE f = d
  <2>1. PICK k \in Nat : s[k] = d /\ \A l \in Nat : l < k => s[l] = 0
    BY <1>7 DEF Decides
  <2>2. PICK m \in Nat : t[m] = d /\ \A l \in Nat : l < m => t[l] = 0
    BY <1>7 DEF Decides
  <2>3. PICK n \in Nat : n \in {k, m} /\ n <= k /\ n <= m BY <2>1, <2>2
  <2>4. \A l \in Nat : l < n => u[l] = 0
    <3>1. ASSUME NEW l \in Nat, l < n PROVE u[l] = 0
      <4>1. s[l] = 0 /\ t[l] = 0 BY <2>1, <2>2, <2>3, <3>1
      <4> QED BY <4>1 DEF Composes
    <3> QED BY <3>1
  <2>5. u[n] = d
    <3>1. s[n] = d \/ s[n] = 0 BY <2>1, <2>3
    <3>2. t[n] = d \/ t[n] = 0 BY <2>2, <2>3
    <3>3. s[n] = d \/ t[n] = d BY <2>1, <2>2, <2>3
    <3> QED BY <3>1, <3>2, <3>3 DEF Composes
  <2>6. Decides(u, d) BY <1>7, <2>4, <2>5 DEF Decides
  <2> QED BY <1>4, <2>6
<1> QED BY <1>5, <1>6, <1>7 DEF Composes

\* s, with 0 wherever it says nothing.
Padded(s) == [k \in Nat |-> IF k \in DOMAIN s THEN s[k] ELSE 0]

\* Trailing zeros decide nothing.
LEMMA PaddedDecides ==
    ASSUME NEW s, DOMAIN s \subseteq Nat, NEW d, Decides(s, d)
    PROVE  Decides(Padded(s), d)
<1>1. DOMAIN Padded(s) = Nat /\ \A k \in Nat : Padded(s)[k] = IF k \in DOMAIN s THEN s[k] ELSE 0
  BY DEF Padded
<1>2. CASE d = 0 /\ \A k \in DOMAIN s : s[k] = 0
  BY <1>1, <1>2 DEF Decides
<1>3. CASE \E k \in DOMAIN s : s[k] = d /\ d # 0 /\ \A l \in DOMAIN s : l < k => s[l] = 0
  BY <1>1, <1>3 DEF Decides
<1> QED BY <1>2, <1>3 DEF Decides

\* The comparisons of x with y, of y with x, of y with z and of x with z, one
\* after the other, each with a sign, opposite for x and y turned.
Ordering(s, back, t, u) ==
    /\ DOMAIN s \subseteq Nat /\ DOMAIN t \subseteq Nat /\ DOMAIN u \subseteq Nat
    /\ DOMAIN back = DOMAIN s
    /\ \A k \in DOMAIN s : s[k] \in Signs /\ back[k] = 0 - s[k]
    /\ \A k \in Nat : Composes(Padded(s)[k], Padded(t)[k], Padded(u)[k])

\* Comparing part by part, the first difference decides; that turns and composes
\* when every part does.
LEMMA DecisionOrders ==
    ASSUME NEW s, NEW back, NEW t, NEW u, Ordering(s, back, t, u)
    PROVE  /\ Decision(s) \in Signs
           /\ Decision(back) = 0 - Decision(s)
           /\ Composes(Decision(s), Decision(t), Decision(u))
<1>1. Decides(s, Decision(s)) /\ Decides(t, Decision(t)) /\ Decides(u, Decision(u)) /\ Decides(back, Decision(back))
  BY DecisionDecides DEF Ordering
<1>2. Decision(s) \in Signs BY <1>1 DEF Decides, Ordering, Signs
<1>3. Decision(back) = 0 - Decision(s)
  <2>1. CASE Decision(s) = 0
    <3>1. \A k \in DOMAIN s : s[k] = 0 BY <1>1, <2>1 DEF Decides
    <3>2. \A k \in DOMAIN back : back[k] = 0 BY <3>1 DEF Ordering
    <3>3. Decision(back) = 0 BY <1>1, <3>2 DEF Decides
    <3> QED BY <2>1, <3>3
  <2>2. CASE Decision(s) # 0
    <3>1. PICK k \in DOMAIN s : s[k] = Decision(s) /\ \A l \in DOMAIN s : l < k => s[l] = 0
      BY <1>1, <2>2 DEF Decides
    <3>2. k \in DOMAIN back /\ back[k] = 0 - s[k] /\ back[k] # 0 /\ \A l \in DOMAIN back : l < k => back[l] = 0
      BY <1>2, <2>2, <3>1 DEF Ordering, Signs
    <3>3. Decision(back) # 0 BY <1>1, <3>2 DEF Decides
    <3>4. PICK m \in DOMAIN back : back[m] = Decision(back) /\ \A l \in DOMAIN back : l < m => back[l] = 0
      BY <1>1, <3>3 DEF Decides
    <3>5. k \in Nat /\ m \in Nat BY <3>1, <3>4 DEF Ordering
    <3>6. k = m BY <3>2, <3>3, <3>4, <3>5
    <3> QED BY <3>1, <3>2, <3>4, <3>6
  <2> QED BY <2>1, <2>2
<1>4. /\ Decides(Padded(s), Decision(s))
      /\ Decides(Padded(t), Decision(t))
      /\ Decides(Padded(u), Decision(u))
  BY <1>1, PaddedDecides DEF Ordering
<1>5. DOMAIN Padded(s) = Nat /\ DOMAIN Padded(t) = Nat /\ DOMAIN Padded(u) = Nat
  BY DEF Padded
<1>6. Composes(Decision(s), Decision(t), Decision(u))
  <2> DEFINE p == Padded(s)
             q == Padded(t)
             r == Padded(u)
             d == Decision(s)
             e == Decision(t)
             f == Decision(u)
  <2>1. \A k \in Nat : Composes(p[k], q[k], r[k]) BY DEF Ordering
  <2>2. Decides(p, d) /\ Decides(q, e) /\ Decides(r, f) BY <1>4
  <2>3. DOMAIN p = Nat /\ DOMAIN q = Nat /\ DOMAIN r = Nat BY <1>5
  <2> HIDE DEF p, q, r, d, e, f
  <2>4. Composes(d, e, f) BY ONLY <2>1, <2>2, <2>3, FirstsCompose
  <2> QED BY <2>4 DEF d, e, f
<1> QED BY <1>2, <1>3, <1>6

\* The parts of version strings compare so.
LEMMA PartsOrder ==
    ASSUME NEW x \in Seq(VersionPart), NEW y \in Seq(VersionPart), NEW z \in Seq(VersionPart),
           NEW i \in Nat \ {0}
    PROVE  /\ CompareParts(x, y, i) \in Signs
           /\ CompareParts(y, x, i) = 0 - CompareParts(x, y, i)
           /\ Composes(CompareParts(x, y, i), CompareParts(y, z, i), CompareParts(x, z, i))
           /\ i > Len(x) + Len(y) => CompareParts(x, y, i) = 0
<1>1. Len(x) \in Nat /\ Len(y) \in Nat /\ Len(z) \in Nat
  BY LenProperties
<1>2. /\ i <= Len(x) => x[i].digit \in BOOLEAN /\ x[i].value \in Int
      /\ i <= Len(y) => y[i].digit \in BOOLEAN /\ y[i].value \in Int
      /\ i <= Len(z) => z[i].digit \in BOOLEAN /\ z[i].value \in Int
  <2>1. ASSUME NEW s \in Seq(VersionPart), i <= Len(s) PROVE s[i].digit \in BOOLEAN /\ s[i].value \in Int
    <3>1. i \in 1..Len(s) BY <2>1, LenProperties
    <3>2. s[i] \in VersionPart BY <3>1, ElementOfSeq
    <3> QED BY <3>2 DEF VersionPart
  <2> QED BY <2>1
<1>3. CompareParts(x, y, i) \in Signs /\ CompareParts(y, x, i) = 0 - CompareParts(x, y, i)
  BY <1>1, <1>2, SMTT(30) DEF CompareParts, Cmp, Signs
<1>4. Composes(CompareParts(x, y, i), CompareParts(y, z, i), CompareParts(x, z, i))
  BY <1>1, <1>2, SMTT(60) DEF CompareParts, Cmp, Composes
<1>5. i > Len(x) + Len(y) => CompareParts(x, y, i) = 0
  BY <1>1 DEF CompareParts
<1> QED BY <1>3, <1>4, <1>5

\* And so do the version strings.
LEMMA VersionsOrder ==
    ASSUME NEW x \in Seq(VersionPart), NEW y \in Seq(VersionPart), NEW z \in Seq(VersionPart)
    PROVE  /\ compare_version_strings(x, y) \in Signs
           /\ compare_version_strings(y, x) = 0 - compare_version_strings(x, y)
           /\ Composes(compare_version_strings(x, y), compare_version_strings(y, z), compare_version_strings(x, z))
<1> DEFINE c(v, w) == [i \in 1..Len(v) + Len(w) |-> CompareParts(v, w, i)]
<1>1. Len(x) \in Nat /\ Len(y) \in Nat /\ Len(z) \in Nat
  BY LenProperties
<1>2. ASSUME NEW v \in Seq(VersionPart), NEW w \in Seq(VersionPart), NEW k \in Nat
      PROVE  Padded(c(v, w))[k] = IF k = 0 THEN 0 ELSE CompareParts(v, w, k)
  <2>1. Len(v) \in Nat /\ Len(w) \in Nat BY LenProperties
  <2>2. k # 0 /\ k > Len(v) + Len(w) => CompareParts(v, w, k) = 0
    BY PartsOrder
  <2> QED BY <2>1, <2>2 DEF Padded
<1>3. ASSUME NEW k \in Nat PROVE Composes(Padded(c(x, y))[k], Padded(c(y, z))[k], Padded(c(x, z))[k])
  <2>1. CASE k = 0
    <3>1. Padded(c(x, y))[k] = 0 /\ Padded(c(y, z))[k] = 0 /\ Padded(c(x, z))[k] = 0
      BY <1>2, <2>1
    <3> QED BY <3>1 DEF Composes
  <2>2. CASE k # 0
    <3>1. /\ Padded(c(x, y))[k] = CompareParts(x, y, k)
          /\ Padded(c(y, z))[k] = CompareParts(y, z, k)
          /\ Padded(c(x, z))[k] = CompareParts(x, z, k)
      BY <1>2, <2>2
    <3>2. Composes(CompareParts(x, y, k), CompareParts(y, z, k), CompareParts(x, z, k))
      BY <2>2, PartsOrder
    <3> QED BY <3>1, <3>2
  <2> QED BY <2>1, <2>2
<1>4. \A k \in DOMAIN c(x, y) : c(x, y)[k] \in Signs /\ c(y, x)[k] = 0 - c(x, y)[k]
  <2> SUFFICES ASSUME NEW k \in 1..Len(x) + Len(y)
               PROVE  CompareParts(x, y, k) \in Signs /\ CompareParts(y, x, k) = 0 - CompareParts(x, y, k)
    BY <1>1
  <2>1. k \in Nat \ {0} BY <1>1
  <2> QED BY <2>1, PartsOrder
<1>5. Ordering(c(x, y), c(y, x), c(y, z), c(x, z))
  <2>1. /\ DOMAIN c(x, y) \subseteq Nat /\ DOMAIN c(y, z) \subseteq Nat /\ DOMAIN c(x, z) \subseteq Nat
        /\ DOMAIN c(y, x) = DOMAIN c(x, y)
    BY <1>1
  <2> HIDE DEF c
  <2> QED BY <1>3, <1>4, <2>1 DEF Ordering
<1>6. /\ compare_version_strings(x, y) = Decision(c(x, y))
      /\ compare_version_strings(y, x) = Decision(c(y, x))
      /\ compare_version_strings(y, z) = Decision(c(y, z))
      /\ compare_version_strings(x, z) = Decision(c(x, z))
  BY DEF compare_version_strings
<1> HIDE DEF c
<1>7. /\ Decision(c(x, y)) \in Signs
      /\ Decision(c(y, x)) = 0 - Decision(c(x, y))
      /\ Composes(Decision(c(x, y)), Decision(c(y, z)), Decision(c(x, z)))
  BY <1>5, DecisionOrders
<1> QED BY <1>6, <1>7

\* The lines that -g can compare, too.
Comparable == {l \in Line : l.general # NaN}

\* The fields of a line.
LEMMA LineFields ==
    ASSUME NEW l \in Comparable
    PROVE  /\ l.text \in Int /\ l.fold \in Int /\ l.human \in Human /\ l.version \in Seq(VersionPart)
           /\ l.number \in Int \cup {None} /\ l.general \in Int \cup {None} /\ l.field \in Int \cup {None}
           /\ l \in Line
BY DEF Comparable, Line, Human

\* The keys of two lines compare so in every mode.
LEMMA KeysOrder ==
    ASSUME NEW x \in Comparable, NEW y \in Comparable, NEW z \in Comparable, NEW mode \in Modes
    PROVE  /\ compare_key_strings(x, y, mode) \in Signs
           /\ compare_key_strings(y, x, mode) = 0 - compare_key_strings(x, y, mode)
           /\ Composes(compare_key_strings(x, y, mode), compare_key_strings(y, z, mode),
                       compare_key_strings(x, z, mode))
<1> DEFINE c(u, v) == compare_key_strings(u, v, mode)
           Good(p, q, r, s) == p \in Signs /\ q = 0 - p /\ Composes(p, r, s)
<1>0. \A l \in Comparable : /\ l.text \in Int /\ l.fold \in Int /\ l.human \in Human
                            /\ l.version \in Seq(VersionPart)
                            /\ l.number \in Int \cup {None} /\ l.general \in Int \cup {None}
                            /\ l.field \in Int \cup {None} /\ l \in Line
  BY LineFields
<1>1. CASE mode = "version"
  <2>1. \A u, v : c(u, v) = compare_version_strings(u.version, v.version)
    BY <1>1 DEF compare_key_strings
  <2> HIDE DEF c
  <2>2. Good(c(x, y), c(y, x), c(y, z), c(x, z))
    BY <1>0, <2>1, VersionsOrder
  <2> QED BY <2>2 DEF c
<1>2. CASE mode = "numeric"
  <2>1. \A u, v : c(u, v) = CompareNumbers(u.number, v.number)
    BY <1>2 DEF compare_key_strings
  <2> HIDE DEF c
  <2>2. Good(c(x, y), c(y, x), c(y, z), c(x, z))
    BY <1>0, <2>1, NumbersOrder
  <2> QED BY <2>2 DEF c
<1>3. CASE mode = "general"
  <2>1. \A u, v : c(u, v) = CompareNumbers(u.general, v.general)
    BY <1>3 DEF compare_key_strings
  <2> HIDE DEF c
  <2>2. Good(c(x, y), c(y, x), c(y, z), c(x, z))
    BY <1>0, <2>1, NumbersOrder
  <2> QED BY <2>2 DEF c
<1>4. CASE mode = "human"
  <2>1. \A u, v : c(u, v) = compare_human(u.human, v.human)
    BY <1>4 DEF compare_key_strings
  <2> HIDE DEF c
  <2>2. Good(c(x, y), c(y, x), c(y, z), c(x, z))
    BY <1>0, <2>1, HumanOrders
  <2> QED BY <2>2 DEF c
<1>5. CASE mode = "month"
  <2>1. \A u, v : c(u, v) = compare_month(u, v)
    BY <1>5 DEF compare_key_strings
  <2> HIDE DEF c
  <2>2. Good(c(x, y), c(y, x), c(y, z), c(x, z))
    BY <1>0, <2>1, MonthsOrder
  <2> QED BY <2>2 DEF c
<1>6. CASE mode = "fold"
  <2>1. \A u, v : c(u, v) = Cmp(u.fold, v.fold)
    BY <1>6 DEF compare_key_strings
  <2> HIDE DEF c
  <2>2. Good(c(x, y), c(y, x), c(y, z), c(x, z))
    BY <1>0, <2>1, CmpOrders
  <2> QED BY <2>2 DEF c
<1>7. CASE mode = "text"
  <2>1. \A u, v : c(u, v) = Cmp(u.text, v.text)
    BY <1>7 DEF compare_key_strings
  <2> HIDE DEF c
  <2>2. Good(c(x, y), c(y, x), c(y, z), c(x, z))
    BY <1>0, <2>1, CmpOrders
  <2> QED BY <2>2 DEF c
<1>8. CASE mode = "field"
  <2>1. \A u, v : c(u, v) = CompareNumbers(u.field, v.field)
    BY <1>8 DEF compare_key_strings
  <2> HIDE DEF c
  <2>2. Good(c(x, y), c(y, x), c(y, z), c(x, z))
    BY <1>0, <2>1, NumbersOrder
  <2> QED BY <2>2 DEF c
<1> QED BY <1>1, <1>2, <1>3, <1>4, <1>5, <1>6, <1>7, <1>8 DEF Modes

\* compare_records turns its sign and composes on lines without NaN.
LEMMA RecordsOrder ==
    ASSUME NEW x \in Comparable, NEW y \in Comparable, NEW z \in Comparable, NEW cfg \in SortConfig
    PROVE  /\ compare_records(cfg, x, y) \in Signs
           /\ compare_records(cfg, y, x) = 0 - compare_records(cfg, x, y)
           /\ Composes(compare_records(cfg, x, y), compare_records(cfg, y, z), compare_records(cfg, x, z))
<1>1. CASE cfg.keys # <<>>
  <2> DEFINE n == Len(cfg.keys)
             one(v, w, k) == Turned(cfg.keys[k].reverse, compare_key_strings(v, w, cfg.keys[k].mode))
             c(v, w) == [k \in 1..n |-> one(v, w, k)]
  <2>1. /\ n \in Nat /\ DOMAIN cfg.keys = 1..n
        /\ \A k \in 1..n : cfg.keys[k].mode \in Modes /\ cfg.keys[k].reverse \in BOOLEAN
    <3>1. cfg.keys \in Seq([mode : Modes, reverse : BOOLEAN])
      BY DEF SortConfig
    <3>2. n \in Nat /\ DOMAIN cfg.keys = 1..n
          /\ \A k \in 1..n : cfg.keys[k] \in [mode : Modes, reverse : BOOLEAN]
      BY <3>1, LenProperties, ElementOfSeq
    <3> QED BY <3>2
  <2>2. ASSUME NEW k \in 1..n
        PROVE  /\ one(x, y, k) \in Signs
               /\ one(y, x, k) = 0 - one(x, y, k)
               /\ Composes(one(x, y, k), one(y, z, k), one(x, z, k))
    <3> DEFINE mode == cfg.keys[k].mode
               p == compare_key_strings(x, y, mode)
               q == compare_key_strings(y, z, mode)
               r == compare_key_strings(x, z, mode)
               s == compare_key_strings(y, x, mode)
    <3>1. mode \in Modes BY <2>1
    <3>2. p \in Signs /\ s = 0 - p /\ Composes(p, q, r) /\ q \in Signs /\ r \in Signs
      <4> HIDE DEF mode
      <4> QED BY <3>1, KeysOrder
    <3> HIDE DEF p, q, r, s, n
    <3>3. ASSUME NEW t PROVE /\ Turned(t, p) \in Signs /\ Turned(t, s) = 0 - Turned(t, p)
                             /\ Composes(Turned(t, p), Turned(t, q), Turned(t, r))
      BY <3>2 DEF Turned, Composes, Signs
    <3> QED BY <3>3 DEF p, q, r, s
  <2>3. ASSUME NEW v, NEW w, NEW k \in Nat
        PROVE  Padded(c(v, w))[k] = IF k \in 1..n THEN one(v, w, k) ELSE 0
    <3> HIDE DEF one, n
    <3> QED BY DEF Padded
  <2>4. Ordering(c(x, y), c(y, x), c(y, z), c(x, z))
    <3>1. ASSUME NEW k \in Nat PROVE Composes(Padded(c(x, y))[k], Padded(c(y, z))[k], Padded(c(x, z))[k])
      <4>1. Composes(0, 0, 0) BY DEF Composes
      <4> HIDE DEF c, one, n
      <4> QED BY <2>2, <2>3, <4>1
    <3>2. \A k \in DOMAIN c(x, y) : c(x, y)[k] \in Signs /\ c(y, x)[k] = 0 - c(x, y)[k]
      <4> HIDE DEF one, n
      <4> QED BY <2>2
    <3>3. /\ DOMAIN c(x, y) \subseteq Nat /\ DOMAIN c(y, z) \subseteq Nat /\ DOMAIN c(x, z) \subseteq Nat
          /\ DOMAIN c(y, x) = DOMAIN c(x, y)
      BY <2>1
    <3> HIDE DEF c
    <3> QED BY <3>1, <3>2, <3>3 DEF Ordering
  <2>5. ASSUME NEW v, NEW w PROVE compare_records(cfg, v, w) = Decision(c(v, w))
    BY <1>1, <2>1 DEF compare_records
  <2> HIDE DEF c
  <2>6. /\ Decision(c(x, y)) \in Signs
        /\ Decision(c(y, x)) = 0 - Decision(c(x, y))
        /\ Composes(Decision(c(x, y)), Decision(c(y, z)), Decision(c(x, z)))
    BY <2>4, DecisionOrders
  <2> QED BY <2>5, <2>6
<1>2. CASE cfg.keys = <<>>
  <2> DEFINE key(v, w) == compare_key_strings(v, w, cfg.mode)
             rest(v, w) == IF cfg.stable \/ cfg.unique THEN 0
                           ELSE IF cfg.ignoreCase THEN Cmp(v.fold, w.fold) ELSE Cmp(v.text, w.text)
             c(v, w) == <<key(v, w), rest(v, w)>>
  <2>1. cfg.mode \in Modes BY DEF SortConfig
  <2>2. key(x, y) \in Signs /\ key(y, x) = 0 - key(x, y) /\ Composes(key(x, y), key(y, z), key(x, z))
    BY <2>1, KeysOrder
  <2>3. rest(x, y) \in Signs /\ rest(y, x) = 0 - rest(x, y) /\ Composes(rest(x, y), rest(y, z), rest(x, z))
    <3>1. /\ x.text \in Int /\ y.text \in Int /\ z.text \in Int
          /\ x.fold \in Int /\ y.fold \in Int /\ z.fold \in Int
      BY LineFields
    <3>2. /\ Cmp(x.text, y.text) \in Signs /\ Cmp(y.text, x.text) = 0 - Cmp(x.text, y.text)
          /\ Composes(Cmp(x.text, y.text), Cmp(y.text, z.text), Cmp(x.text, z.text))
      BY <3>1, CmpOrders
    <3>3. /\ Cmp(x.fold, y.fold) \in Signs /\ Cmp(y.fold, x.fold) = 0 - Cmp(x.fold, y.fold)
          /\ Composes(Cmp(x.fold, y.fold), Cmp(y.fold, z.fold), Cmp(x.fold, z.fold))
      BY <3>1, CmpOrders
    <3>4. 0 \in Signs /\ Composes(0, 0, 0) /\ 0 = 0 - 0
      BY DEF Signs, Composes
    <3> QED BY <3>2, <3>3, <3>4
  <2>4. ASSUME NEW v, NEW w
        PROVE  /\ compare_records(cfg, v, w) = Decision(c(v, w))
               /\ DOMAIN c(v, w) = 1..2
               /\ c(v, w)[1] = key(v, w) /\ c(v, w)[2] = rest(v, w)
    BY <1>2 DEF compare_records
  <2> HIDE DEF c, key, rest
  <2>5. ASSUME NEW v, NEW w, NEW k \in Nat
        PROVE  Padded(c(v, w))[k] = IF k = 1 THEN key(v, w) ELSE IF k = 2 THEN rest(v, w) ELSE 0
    <3>1. k \in 1..2 <=> k = 1 \/ k = 2 OBVIOUS
    <3> QED BY <2>4, <3>1 DEF Padded
  <2>6. Ordering(c(x, y), c(y, x), c(y, z), c(x, z))
    <3>1. ASSUME NEW k \in Nat PROVE Composes(Padded(c(x, y))[k], Padded(c(y, z))[k], Padded(c(x, z))[k])
      <4>1. Composes(0, 0, 0) BY DEF Composes
      <4> QED BY <2>2, <2>3, <2>5, <4>1
    <3>2. \A k \in DOMAIN c(x, y) : c(x, y)[k] \in Signs /\ c(y, x)[k] = 0 - c(x, y)[k]
      <4>1. \A k \in 1..2 : k = 1 \/ k = 2 OBVIOUS
      <4> QED BY <2>2, <2>3, <2>4, <4>1
    <3>3. 1..2 \subseteq Nat OBVIOUS
    <3> QED BY <2>4, <3>1, <3>2, <3>3 DEF Ordering
  <2>7. /\ Decision(c(x, y)) \in Signs
        /\ Decision(c(y, x)) = 0 - Decision(c(x, y))
        /\ Composes(Decision(c(x, y)), Decision(c(y, z)), Decision(c(x, z)))
    BY <2>6, DecisionOrders
  <2> QED BY <2>4, <2>7
<1> QED BY <1>1, <1>2

\* x comes no later than y.
UpTo(cfg, x, y) == ~Before(cfg, y, x)

\* x and y compare equal.
Same(cfg, x, y) == compare_records(cfg, x, y) = 0

\* Before is a strict weak order there: nothing precedes itself, and both Before and
\* its converse compose.
LEMMA BeforeOrders ==
    ASSUME NEW cfg \in SortConfig, NEW x \in Comparable, NEW y \in Comparable, NEW z \in Comparable
    PROVE  /\ ~Before(cfg, x, x)
           /\ Before(cfg, x, y) => ~Before(cfg, y, x)
           /\ Before(cfg, x, y) /\ ~Before(cfg, z, y) => Before(cfg, x, z)
           /\ ~Before(cfg, y, x) /\ Before(cfg, y, z) => Before(cfg, x, z)
           /\ ~Before(cfg, y, x) /\ ~Before(cfg, z, y) => ~Before(cfg, z, x)
           /\ compare_records(cfg, x, y) = 0 <=> ~Before(cfg, x, y) /\ ~Before(cfg, y, x)
<1> DEFINE c(u, v) == compare_records(cfg, u, v)
<1>1. ASSUME NEW u \in Comparable, NEW v \in Comparable, NEW w \in Comparable
      PROVE  c(u, v) \in Signs /\ c(v, u) = 0 - c(u, v) /\ Composes(c(u, v), c(v, w), c(u, w))
  BY RecordsOrder
<1>2. /\ c(x, y) \in Signs /\ c(y, x) = 0 - c(x, y) /\ Composes(c(x, y), c(y, z), c(x, z))
      /\ c(y, z) \in Signs /\ c(z, y) = 0 - c(y, z)
      /\ c(x, z) \in Signs /\ c(z, x) = 0 - c(x, z)
      /\ c(x, x) \in Signs /\ c(x, x) = 0 - c(x, x)
  BY <1>1
<1>3. \A u, v : Before(cfg, u, v) <=> (IF cfg.reverse THEN 0 - c(u, v) ELSE c(u, v)) < 0
  BY DEF Before, Turned
<1> HIDE DEF c
<1>4. ASSUME NEW p \in Signs, NEW q \in Signs, NEW r \in Signs, Composes(p, q, r)
      PROVE  /\ p < 0 /\ ~(q > 0) => r < 0
             /\ ~(p > 0) /\ q < 0 => r < 0
             /\ ~(p > 0) /\ ~(q > 0) => ~(r > 0)
             /\ p > 0 /\ ~(q < 0) => r > 0
             /\ ~(p < 0) /\ q > 0 => r > 0
             /\ ~(p < 0) /\ ~(q < 0) => ~(r < 0)
  BY <1>4 DEF Signs, Composes
<1>5. ASSUME NEW p \in Signs PROVE /\ 0 - p < 0 <=> p > 0
                                   /\ 0 - (0 - p) < 0 <=> p < 0
                                   /\ p = 0 <=> ~(p < 0) /\ ~(p > 0)
                                   /\ ~(p < 0 /\ p > 0)
                                   /\ p = 0 - p => p = 0
  BY DEF Signs
<1> DEFINE lt(u, v) == Before(cfg, u, v)
<1>6. CASE cfg.reverse
  <2>1. /\ lt(x, y) <=> c(x, y) > 0
        /\ lt(y, x) <=> c(x, y) < 0
        /\ lt(y, z) <=> c(y, z) > 0
        /\ lt(z, y) <=> c(y, z) < 0
        /\ lt(x, z) <=> c(x, z) > 0
        /\ lt(z, x) <=> c(x, z) < 0
        /\ lt(x, x) <=> c(x, x) > 0
    BY <1>2, <1>3, <1>5, <1>6
  <2> HIDE DEF lt
  <2>2. /\ ~lt(x, x)
        /\ lt(x, y) => ~lt(y, x)
        /\ lt(x, y) /\ ~lt(z, y) => lt(x, z)
        /\ ~lt(y, x) /\ lt(y, z) => lt(x, z)
        /\ ~lt(y, x) /\ ~lt(z, y) => ~lt(z, x)
        /\ c(x, y) = 0 <=> ~lt(x, y) /\ ~lt(y, x)
    BY <1>2, <1>4, <1>5, <2>1
  <2> QED BY <2>2 DEF lt, c
<1>7. CASE ~cfg.reverse
  <2>1. /\ lt(x, y) <=> c(x, y) < 0
        /\ lt(y, x) <=> c(x, y) > 0
        /\ lt(y, z) <=> c(y, z) < 0
        /\ lt(z, y) <=> c(y, z) > 0
        /\ lt(x, z) <=> c(x, z) < 0
        /\ lt(z, x) <=> c(x, z) > 0
        /\ lt(x, x) <=> c(x, x) < 0
    BY <1>2, <1>3, <1>5, <1>7
  <2> HIDE DEF lt
  <2>2. /\ ~lt(x, x)
        /\ lt(x, y) => ~lt(y, x)
        /\ lt(x, y) /\ ~lt(z, y) => lt(x, z)
        /\ ~lt(y, x) /\ lt(y, z) => lt(x, z)
        /\ ~lt(y, x) /\ ~lt(z, y) => ~lt(z, x)
        /\ c(x, y) = 0 <=> ~lt(x, y) /\ ~lt(y, x)
    BY <1>2, <1>4, <1>5, <2>1
  <2> QED BY <2>2 DEF lt, c
<1> QED BY <1>6, <1>7

\* Whatever is compared, sort's comparison orders lines weakly.
LEMMA WeakOrderHolds ==
    ASSUME NEW cfg \in SortConfig, NEW L, L \subseteq Comparable
    PROVE  WeakOrder(cfg, L)
<1> SUFFICES ASSUME NEW x \in L, NEW y \in L, NEW z \in L
             PROVE  /\ ~Before(cfg, x, x)
                    /\ Before(cfg, x, y) => ~Before(cfg, y, x)
                    /\ (Before(cfg, x, y) /\ Before(cfg, y, z)) => Before(cfg, x, z)
                    /\ (~Before(cfg, x, y) /\ ~Before(cfg, y, x) /\ ~Before(cfg, y, z) /\ ~Before(cfg, z, y))
                         => (~Before(cfg, x, z) /\ ~Before(cfg, z, x))
  BY DEF WeakOrder
<1>1. ASSUME NEW u \in L, NEW v \in L, NEW w \in L
      PROVE  /\ ~Before(cfg, u, u)
             /\ Before(cfg, u, v) => ~Before(cfg, v, u)
             /\ Before(cfg, u, v) /\ ~Before(cfg, w, v) => Before(cfg, u, w)
             /\ ~Before(cfg, v, u) /\ ~Before(cfg, w, v) => ~Before(cfg, w, u)
  BY BeforeOrders
<1> QED BY <1>1

\* s is sorted.
Ascending(cfg, s) == \A i, j \in DOMAIN s : i < j => UpTo(cfg, s[i], s[j])

\* The lines that compare equal to q.
Kin(cfg, q) == {l \in Comparable : Same(cfg, l, q)}

\* Of two lines that compare equal to one, neither comes before the other.
LEMMA KinFacts ==
    ASSUME NEW cfg \in SortConfig, NEW q \in Comparable,
           NEW x \in Comparable, NEW y \in Comparable
    PROVE  /\ x \in Kin(cfg, q) <=> ~Before(cfg, x, q) /\ ~Before(cfg, q, x)
           /\ x \in Kin(cfg, q) /\ y \in Kin(cfg, q) => ~Before(cfg, x, y)
           /\ q \in Kin(cfg, q)
<1>1. ASSUME NEW u \in Comparable
      PROVE  /\ u \in Kin(cfg, q) <=> ~Before(cfg, u, q) /\ ~Before(cfg, q, u)
             /\ ~Before(cfg, q, q)
  BY BeforeOrders DEF Kin, Same
<1>2. Before(cfg, x, y) /\ ~Before(cfg, q, y) => Before(cfg, x, q)
  BY BeforeOrders
<1> QED BY <1>1, <1>2

\* r stands in v where the lines up to it end: v is a, r and b.
Stands(cfg, v, s, r, n) ==
    /\ v = Append(SubSeq(s, 1, n), r) \o SubSeq(s, n + 1, Len(s))
    /\ \A k \in 1..n : UpTo(cfg, s[k], r)
    /\ \A k \in n + 1..Len(s) : Before(cfg, r, s[k])

\* Insertion puts a line after all lines up to it.
LEMMA InsertIs ==
    ASSUME NEW cfg \in SortConfig, NEW s \in Seq(Comparable), NEW r \in Comparable
    PROVE  \E n \in 0..Len(s) :
             /\ Insert(cfg, s, r) = Append(SubSeq(s, 1, n), r) \o SubSeq(s, n + 1, Len(s))
             /\ Ascending(cfg, s) => Stands(cfg, Insert(cfg, s, r), s, r, n)
<1> DEFINE above == {k \in DOMAIN s : \A l \in k..Len(s) : Before(cfg, r, s[l])}
           at == IF above = {} THEN Len(s) + 1 ELSE Min(above)
           n == at - 1
           v == Insert(cfg, s, r)
<1>0. Len(s) \in Nat /\ DOMAIN s = 1..Len(s) /\ \A k \in 1..Len(s) : s[k] \in Comparable
  BY LenProperties, ElementOfSeq
<1>1. above \subseteq 1..Len(s) /\ \A k \in above : \A l \in k..Len(s) : Before(cfg, r, s[l])
  BY <1>0
<1>2. ASSUME Ascending(cfg, s), NEW k \in 1..Len(s), Before(cfg, r, s[k]) PROVE k \in above
  <2>1. ASSUME NEW l \in k..Len(s) PROVE Before(cfg, r, s[l])
    <3>1. l \in 1..Len(s) /\ (k = l \/ k < l) BY <1>0
    <3>2. CASE k < l
      <4>1. ~Before(cfg, s[l], s[k])
        BY <1>0, <1>2, <3>1, <3>2 DEF Ascending, UpTo
      <4>2. r \in Comparable /\ s[k] \in Comparable /\ s[l] \in Comparable
        BY <1>0, <3>1
      <4>3. Before(cfg, r, s[k]) /\ ~Before(cfg, s[l], s[k]) => Before(cfg, r, s[l])
        BY <4>2, BeforeOrders
      <4> QED BY <1>2, <4>1, <4>3
    <3> QED BY <1>2, <3>1, <3>2
  <2> QED BY <1>0, <2>1
<1>3. at \in 1..Len(s) + 1 /\ (at \in above \/ at = Len(s) + 1) /\ \A k \in above : at <= k
  <2>1. CASE above = {} BY <1>0, <2>1
  <2>2. CASE above # {}
    <3>1. above \subseteq Nat BY <1>1
    <3>2. Min(above) \in above /\ \A k \in above : Min(above) <= k
      BY <2>2, <3>1, MinFacts
    <3>3. at = Min(above) BY <2>2
    <3> HIDE DEF at, above
    <3>4. at \in above /\ at \in 1..Len(s) BY <1>1, <3>2, <3>3
    <3> QED BY <1>0, <3>2, <3>3, <3>4
  <2> QED BY <2>1, <2>2
<1>4. v = SubSeq(s, 1, at - 1) \o <<r>> \o SubSeq(s, at, Len(s))
  BY DEF Insert
<1> HIDE DEF above, at, v
<1>5. n \in 0..Len(s) /\ n + 1 = at /\ at - 1 = n BY <1>0, <1>3
<1> HIDE DEF n
<1>6. SubSeq(s, 1, n) \in Seq(Comparable) BY <1>5, Halves
<1>7. SubSeq(s, 1, n) \o <<r>> = Append(SubSeq(s, 1, n), r)
  BY <1>6, AppendIsConcat
<1>8. v = Append(SubSeq(s, 1, n), r) \o SubSeq(s, n + 1, Len(s))
  BY <1>4, <1>5, <1>7
<1>9. ASSUME Ascending(cfg, s) PROVE Stands(cfg, v, s, r, n)
  <2>1. ASSUME NEW k \in 1..n PROVE UpTo(cfg, s[k], r)
    <3>1. k \in 1..Len(s) /\ ~(at <= k) BY <1>0, <1>5
    <3>2. k \notin above BY <1>3, <3>1
    <3> QED BY <1>2, <1>9, <3>1, <3>2 DEF UpTo
  <2>2. ASSUME NEW k \in n + 1..Len(s) PROVE Before(cfg, r, s[k])
    <3>1. at \in above BY <1>0, <1>3, <1>5
    <3> QED BY <1>1, <1>5, <3>1
  <2> QED BY <1>8, <2>1, <2>2 DEF Stands
<1> QED BY <1>5, <1>8, <1>9 DEF v

\* An insertion is a line more.
LEMMA InsertType ==
    ASSUME NEW cfg \in SortConfig, NEW s \in Seq(Comparable), NEW r \in Comparable
    PROVE  Insert(cfg, s, r) \in Seq(Comparable)
<1>1. PICK n \in 0..Len(s) : Insert(cfg, s, r) = Append(SubSeq(s, 1, n), r) \o SubSeq(s, n + 1, Len(s))
  BY InsertIs
<1> DEFINE a == SubSeq(s, 1, n)
           b == SubSeq(s, n + 1, Len(s))
<1>2. a \in Seq(Comparable) /\ b \in Seq(Comparable) BY Halves
<1> HIDE DEF a, b
<1>3. Append(a, r) \in Seq(Comparable) BY <1>2, AppendFacts
<1>4. Append(a, r) \o b \in Seq(Comparable)
  BY <1>2, <1>3, ConcatProperties
<1> QED BY <1>1, <1>4 DEF a, b

\* It keeps a sorted sequence sorted, and puts the line after the ones that
\* compare equal to it.
LEMMA InsertKeeps ==
    ASSUME NEW cfg \in SortConfig, NEW s \in Seq(Comparable), NEW r \in Comparable, Ascending(cfg, s)
    PROVE  LET v == Insert(cfg, s, r)
           IN  /\ Len(v) = Len(s) + 1
               /\ Ascending(cfg, v)
               /\ \A q \in Comparable : In(v, Kin(cfg, q)) = IF r \in Kin(cfg, q) THEN Append(In(s, Kin(cfg, q)), r)
                                                            ELSE In(s, Kin(cfg, q))
<1> DEFINE v == Insert(cfg, s, r)
<1>1. PICK n \in 0..Len(s) : Stands(cfg, v, s, r, n) BY InsertIs
<1> DEFINE a == SubSeq(s, 1, n)
           b == SubSeq(s, n + 1, Len(s))
           c == Append(a, r)
           m == Len(s)
<1>2. a \in Seq(Comparable) /\ b \in Seq(Comparable) /\ s = a \o b
  BY Halves
<1>3. m \in Nat /\ DOMAIN s = 1..m /\ (\A k \in 1..m : s[k] \in Comparable) /\ n \in Nat /\ n <= m
  BY LenProperties, ElementOfSeq
<1>4. Len(b) = m - n /\ \A i \in 1..m - n : b[i] = s[n + i] BY LaterPart
<1>5. Len(a) = n
  <2>1. Len(a \o b) = Len(a) + Len(b) /\ Len(a) \in Nat
    BY <1>2, ConcatProperties, LenProperties
  <2>2. Len(a \o b) = m BY <1>2
  <2> HIDE DEF a, b, m
  <2> QED BY <1>3, <1>4, <2>1, <2>2
<1>6. v = c \o b /\ (\A k \in 1..n : UpTo(cfg, s[k], r)) /\ \A k \in n + 1..m : Before(cfg, r, s[k])
  BY <1>1 DEF Stands
<1>7. \A k \in 1..n : a[k] = s[k]
  <2>1. \A k \in 1..Len(a) + Len(b) : (a \o b)[k] = IF k <= Len(a) THEN a[k] ELSE b[k - Len(a)]
    BY <1>2, ConcatProperties
  <2> HIDE DEF a, b, m
  <2> QED BY <1>2, <1>3, <1>4, <1>5, <2>1
<1> HIDE DEF v, a, b, m
<1>8. c \in Seq(Comparable) /\ Len(c) = n + 1 /\ c[n + 1] = r /\ \A k \in 1..n : c[k] = s[k]
  BY <1>2, <1>5, <1>7, AppendFacts
<1> HIDE DEF c
<1>9. /\ Len(v) = m + 1 /\ v \in Seq(Comparable)
      /\ \A k \in 1..n : v[k] = s[k]
      /\ v[n + 1] = r
      /\ \A k \in n + 2..m + 1 : k - 1 \in n + 1..m /\ v[k] = s[k - 1]
  <2>1. /\ c \o b \in Seq(Comparable) /\ Len(c \o b) = Len(c) + Len(b)
        /\ \A k \in 1..Len(c) + Len(b) : (c \o b)[k] = IF k <= Len(c) THEN c[k] ELSE b[k - Len(c)]
    BY <1>2, <1>8, ConcatProperties
  <2>2. Len(c) + Len(b) = m + 1 BY <1>3, <1>4, <1>8
  <2>3. \A k \in 1..m + 1 : v[k] = IF k <= n + 1 THEN c[k] ELSE b[k - (n + 1)]
    BY <1>6, <1>8, <2>1, <2>2
  <2>4. ASSUME NEW k \in n + 2..m + 1 PROVE k - 1 \in n + 1..m /\ v[k] = s[k - 1]
    <3>1. k \in 1..m + 1 /\ ~(k <= n + 1) /\ k - (n + 1) \in 1..m - n /\ n + (k - (n + 1)) = k - 1
          /\ k - 1 \in n + 1..m
      BY <1>3
    <3> QED BY <1>4, <2>3, <3>1
  <2>5. n + 1 \in 1..m + 1 /\ \A k \in 1..n : k \in 1..m + 1 /\ k <= n + 1
    BY <1>3
  <2>6. Len(v) = m + 1 /\ v \in Seq(Comparable) BY <1>6, <2>1, <2>2
  <2>7. v[n + 1] = r BY <1>8, <2>3, <2>5
  <2>8. \A k \in 1..n : v[k] = s[k] BY <1>8, <2>3, <2>5
  <2> QED BY <2>4, <2>6, <2>7, <2>8
<1>10. Ascending(cfg, v)
  <2> SUFFICES ASSUME NEW i \in 1..m + 1, NEW j \in 1..m + 1, i < j PROVE UpTo(cfg, v[i], v[j])
    <3>1. DOMAIN v = 1..m + 1 BY <1>9, LenProperties
    <3> QED BY <3>1 DEF Ascending
  <2>0. \A k, l \in 1..m : k < l => UpTo(cfg, s[k], s[l])
    BY <1>3 DEF Ascending
  <2>1. \A k \in n + 1..m : UpTo(cfg, r, s[k])
    <3> TAKE k \in n + 1..m
    <3>1. k \in 1..m /\ Before(cfg, r, s[k]) BY <1>3, <1>6
    <3>2. s[k] \in Comparable BY <1>3, <3>1
    <3> QED BY <3>1, <3>2, BeforeOrders DEF UpTo
  <2>2. CASE j \in 1..n
    <3>1. i \in 1..n /\ i \in 1..m /\ j \in 1..m BY <1>3, <2>2
    <3> QED BY <1>9, <2>0, <2>2, <3>1
  <2>3. CASE j = n + 1
    <3>1. i \in 1..n BY <1>3, <2>3
    <3> QED BY <1>6, <1>9, <2>3, <3>1
  <2>4. CASE j \in n + 2..m + 1
    <3>1. j - 1 \in n + 1..m /\ v[j] = s[j - 1] /\ j - 1 \in 1..m
      BY <1>3, <1>9, <2>4
    <3>2. CASE i \in 1..n
      <4>1. i \in 1..m /\ i < j - 1 BY <1>3, <3>1, <3>2
      <4> QED BY <1>9, <2>0, <3>1, <3>2, <4>1
    <3>3. CASE i = n + 1 BY <1>9, <2>1, <3>1, <3>3
    <3>4. CASE i \in n + 2..m + 1
      <4>1. v[i] = s[i - 1] /\ i - 1 \in 1..m /\ i - 1 < j - 1
        BY <1>3, <1>9, <2>4, <3>4
      <4> QED BY <2>0, <3>1, <4>1
    <3> QED BY <1>3, <3>2, <3>3, <3>4
  <2> QED BY <1>3, <2>2, <2>3, <2>4
<1>11. ASSUME NEW q \in Comparable
       PROVE  In(v, Kin(cfg, q)) = IF r \in Kin(cfg, q) THEN Append(In(s, Kin(cfg, q)), r)
                                   ELSE In(s, Kin(cfg, q))
  <2> DEFINE A == Kin(cfg, q)
  <2>1. In(v, A) = In(c, A) \o In(b, A) BY <1>2, <1>6, <1>8, InConcat
  <2>2. In(s, A) = In(a, A) \o In(b, A)
    <3>1. In(a \o b, A) = In(a, A) \o In(b, A) BY <1>2, InConcat
    <3> QED BY <1>2, <3>1
  <2>3. In(c, A) = IF r \in A THEN Append(In(a, A), r) ELSE In(a, A)
    BY <1>2, InAppend DEF c
  <2>4. CASE r \in A
    <3>1. ASSUME NEW k \in DOMAIN b PROVE b[k] \notin A
      <4>1. k \in 1..m - n /\ n + k \in n + 1..m /\ n + k \in 1..m
        BY <1>2, <1>3, <1>4, LenProperties
      <4>2. b[k] = s[n + k] /\ s[n + k] \in Comparable /\ Before(cfg, r, s[n + k])
        BY <1>3, <1>4, <1>6, <4>1
      <4>3. b[k] \in Comparable /\ Before(cfg, r, b[k]) BY <4>2
      <4> QED BY <2>4, <4>3, KinFacts
    <3> HIDE DEF A
    <3>2. In(b, A) = <<>> BY <1>2, <3>1, InNone
    <3>3. In(a, A) \in Seq(Comparable) /\ In(c, A) \in Seq(Comparable)
      BY <1>2, <1>8, InType
    <3>4. In(v, A) = In(c, A) /\ In(s, A) = In(a, A)
      BY <2>1, <2>2, <3>2, <3>3, ConcatEmptySeq
    <3> QED BY <2>3, <2>4, <3>4 DEF A
  <2>5. CASE r \notin A
    <3> HIDE DEF A
    <3> QED BY <2>1, <2>2, <2>3, <2>5 DEF A
  <2> QED BY <2>4, <2>5
<1> QED BY <1>9, <1>10, <1>11 DEF v, m

\* The beginnings of the input, sorted one after the other.
Sorting(f, cfg, s) ==
    f = [k \in 0..Len(s) |-> IF k = 0 THEN <<>> ELSE Insert(cfg, f[k - 1], s[k])]

\* stable_sort ends with the whole input.
LEMMA StableIs ==
    ASSUME NEW cfg \in SortConfig, NEW s \in Seq(Comparable)
    PROVE  \E f : Sorting(f, cfg, s) /\ stable_sort(cfg, s) = f[Len(s)]
<1> DEFINE V == Seq(Comparable)
           n == Len(s)
           v == <<>>
           Step == [k \in 1..n |-> [q \in V |-> Insert(cfg, q, s[k])]]
<1>1. n \in Nat /\ v \in V BY EmptySeq
<1>2. Step \in [1..n -> [V -> V]]
  <2>1. ASSUME NEW k \in 1..n, NEW q \in V PROVE Insert(cfg, q, s[k]) \in V
    BY InsertType, ElementOfSeq
  <2> QED BY <2>1
<1>3. PICK f \in [0..n -> V] : Iterates(f, n, v, Step)
  <2>1. n \in Nat /\ v \in V BY <1>1
  <2> HIDE DEF V, Step, n, v
  <2> QED BY ONLY <1>2, <2>1, Iteration
<1>4. f = [k \in 0..n |-> IF k = 0 THEN <<>> ELSE Insert(cfg, f[k - 1], s[k])]
  <2>1. ASSUME NEW k \in 0..n, k # 0 PROVE Step[k][f[k - 1]] = Insert(cfg, f[k - 1], s[k])
    <3>1. k \in 1..n /\ k - 1 \in 0..n BY <2>1, <1>1
    <3>2. f[k - 1] \in V BY <3>1, <1>3
    <3> QED BY <3>1, <3>2
  <2>2. f = [k \in 0..n |-> IF k = 0 THEN v ELSE Step[k][f[k - 1]]]
    BY <1>3 DEF Iterates
  <2> HIDE DEF Step
  <2> QED BY <2>1, <2>2
<1> DEFINE C == CHOOSE g : g = [k \in 0..n |-> IF k = 0 THEN <<>> ELSE Insert(cfg, g[k - 1], s[k])]
<1>5. C = [k \in 0..n |-> IF k = 0 THEN <<>> ELSE Insert(cfg, C[k - 1], s[k])]
  BY <1>4
<1>6. stable_sort(cfg, s) = C[n] BY DEF stable_sort
<1> HIDE DEF C
<1> QED BY <1>5, <1>6 DEF Sorting

\* The first of a sequence, as far as there is one.
First(s) == SubSeq(s, 1, 1)

\* A sequence that begins keeps its first.
LEMMA FirstFacts ==
    ASSUME NEW S, NEW s \in Seq(S), NEW x \in S
    PROVE  /\ First(<<>>) = <<>>
           /\ s # <<>> => Len(First(s)) = 1 /\ First(Append(s, x)) = First(s)
           /\ First(Append(<<>>, x)) = Append(<<>>, x)
<1>1. First(<<>>) = <<>> BY DEF First
<1>2. ASSUME s # <<>> PROVE Len(First(s)) = 1 /\ First(Append(s, x)) = First(s)
  <2> DEFINE t == Append(s, x)
  <2>1. Len(s) \in Nat /\ Len(s) # 0 BY <1>2, EmptySeq, LenProperties
  <2>2. t \in Seq(S) /\ Len(t) = Len(s) + 1 /\ t[1] = s[1]
    BY <2>1, AppendFacts
  <2>3. 1 \in 0..Len(s) /\ 1 \in 0..Len(t) /\ 1 \in 1..Len(s) /\ 1 \in 1..Len(t) /\ 1 - 1 = 0
    BY <2>1, <2>2
  <2> HIDE DEF t
  <2>4. SubSeq(s, 1, 1) = Append(SubSeq(s, 1, 1 - 1), s[1]) /\ SubSeq(s, 1, 0) = <<>>
    BY <2>3, Beginnings
  <2>5. SubSeq(t, 1, 1) = Append(SubSeq(t, 1, 1 - 1), t[1]) /\ SubSeq(t, 1, 0) = <<>>
    BY <2>2, <2>3, Beginnings
  <2>6. First(s) = Append(<<>>, s[1]) /\ First(t) = Append(<<>>, s[1])
    BY <2>2, <2>3, <2>4, <2>5 DEF First
  <2>7. s[1] \in S BY <2>3, ElementOfSeq
  <2> QED BY <2>6, <2>7 DEF t
<1>3. First(Append(<<>>, x)) = Append(<<>>, x)
  <2> DEFINE t == Append(<<>>, x)
  <2>1. t \in Seq(S) /\ Len(t) = 1 OBVIOUS
  <2> HIDE DEF t
  <2>2. SubSeq(t, 1, Len(t)) = t BY <2>1, Beginnings
  <2> QED BY <2>1, <2>2 DEF First, t
<1> QED BY <1>1, <1>2, <1>3

\* The lines of s that compare equal are in t, in their order, and no others.
SameKin(cfg, s, t) == \A q \in Comparable : In(s, Kin(cfg, q)) = In(t, Kin(cfg, q))

\* stable_sort sorts and keeps the order of lines that compare equal.
LEMMA StableSorts ==
    ASSUME NEW cfg \in SortConfig, NEW s \in Seq(Comparable)
    PROVE  /\ stable_sort(cfg, s) \in Seq(Comparable)
           /\ Ascending(cfg, stable_sort(cfg, s))
           /\ SameKin(cfg, stable_sort(cfg, s), s)
<1> DEFINE n == Len(s)
           p(k) == SubSeq(s, 1, k)
<1>1. PICK f : Sorting(f, cfg, s) /\ stable_sort(cfg, s) = f[n]
  BY StableIs
<1>2. n \in Nat BY LenProperties
<1> DEFINE T == {k \in Nat : k <= n => /\ f[k] \in Seq(Comparable)
                                       /\ Ascending(cfg, f[k])
                                       /\ \A q \in Comparable : In(f[k], Kin(cfg, q)) = In(p(k), Kin(cfg, q))}
<1>3. 0 \in T
  <2>1. f[0] = <<>> /\ p(0) = <<>> BY <1>1, <1>2, Beginnings DEF Sorting
  <2>2. f[0] \in Seq(Comparable) /\ Ascending(cfg, f[0])
    BY <2>1, EmptySeq DEF Ascending
  <2> QED BY <2>1, <2>2
<1>4. ASSUME NEW k \in Nat, k \in T PROVE k + 1 \in T
  <2> SUFFICES ASSUME k + 1 <= n
               PROVE  /\ f[k + 1] \in Seq(Comparable)
                      /\ Ascending(cfg, f[k + 1])
                      /\ \A q \in Comparable : In(f[k + 1], Kin(cfg, q)) = In(p(k + 1), Kin(cfg, q))
    OBVIOUS
  <2> DEFINE u == f[k]
             x == s[k + 1]
             v == Insert(cfg, u, x)
  <2>1. k + 1 \in 1..n /\ k + 1 \in 0..n /\ k + 1 # 0 /\ (k + 1) - 1 = k
    BY <1>2
  <2>2. f[k + 1] = v BY <1>1, <2>1 DEF Sorting
  <2>3. u \in Seq(Comparable) /\ Ascending(cfg, u)
        /\ \A q \in Comparable : In(u, Kin(cfg, q)) = In(p(k), Kin(cfg, q))
    BY <1>2, <1>4
  <2>4. x \in Comparable BY <2>1, ElementOfSeq
  <2> HIDE DEF u, x
  <2>5. /\ v \in Seq(Comparable) /\ Ascending(cfg, v)
        /\ \A q \in Comparable : In(v, Kin(cfg, q)) = IF x \in Kin(cfg, q) THEN Append(In(u, Kin(cfg, q)), x)
                                                     ELSE In(u, Kin(cfg, q))
    BY <2>3, <2>4, InsertType, InsertKeeps
  <2>6. ASSUME NEW q \in Comparable PROVE In(v, Kin(cfg, q)) = In(p(k + 1), Kin(cfg, q))
    <3> DEFINE A == Kin(cfg, q)
    <3>1. In(p(k + 1), A) = IF s[k + 1] \in A THEN Append(In(p((k + 1) - 1), A), s[k + 1])
                            ELSE In(p((k + 1) - 1), A)
      <4> DEFINE j == k + 1
      <4>1. j \in 1..Len(s) BY <2>1
      <4> HIDE DEF j, A
      <4>2. In(SubSeq(s, 1, j), A) = IF s[j] \in A THEN Append(In(SubSeq(s, 1, j - 1), A), s[j])
                                     ELSE In(SubSeq(s, 1, j - 1), A)
        BY ONLY <4>1, s \in Seq(Comparable), InBeginning
      <4> QED BY <4>2 DEF j
    <3>2. In(p(k + 1), A) = IF x \in A THEN Append(In(p(k), A), x) ELSE In(p(k), A)
      BY <2>1, <3>1 DEF x
    <3>3. In(v, A) = IF x \in A THEN Append(In(u, A), x) ELSE In(u, A)
      BY <2>5
    <3>4. In(u, A) = In(p(k), A) BY <2>3
    <3> HIDE DEF A, v, p
    <3> QED BY <3>2, <3>3, <3>4 DEF A
  <2> HIDE DEF v
  <2> QED BY <2>2, <2>5, <2>6
<1>5. Nat \subseteq T
  <2> HIDE DEF T
  <2> QED BY <1>3, <1>4, SetInduction
<1>6. /\ f[n] \in Seq(Comparable) /\ Ascending(cfg, f[n])
      /\ \A q \in Comparable : In(f[n], Kin(cfg, q)) = In(p(n), Kin(cfg, q))
  BY <1>2, <1>5
<1>7. p(n) = s BY Beginnings
<1> HIDE DEF p, n
<1> QED BY <1>1, <1>6, <1>7 DEF SameKin

\* What is sorted stays as it is.
LEMMA StableStays ==
    ASSUME NEW cfg \in SortConfig, NEW s \in Seq(Comparable), Ascending(cfg, s)
    PROVE  stable_sort(cfg, s) = s
<1> DEFINE n == Len(s)
           p(k) == SubSeq(s, 1, k)
<1>1. PICK f : Sorting(f, cfg, s) /\ stable_sort(cfg, s) = f[n]
  BY StableIs
<1>2. n \in Nat /\ DOMAIN s = 1..n BY LenProperties
<1> DEFINE T == {k \in Nat : k <= n => f[k] = p(k)}
<1>3. 0 \in T BY <1>1, <1>2, Beginnings DEF Sorting
<1>4. ASSUME NEW k \in Nat, k \in T PROVE k + 1 \in T
  <2> SUFFICES ASSUME k + 1 <= n PROVE f[k + 1] = p(k + 1) OBVIOUS
  <2> DEFINE u == SubSeq(s, 1, k)
             x == s[k + 1]
  <2>1. k + 1 \in 1..n /\ k + 1 \in 0..n /\ k + 1 # 0 /\ (k + 1) - 1 = k
    BY <1>2
  <2>2. f[k + 1] = Insert(cfg, u, x)
    <3>1. f[k] = u BY <1>2, <1>4
    <3> QED BY <1>1, <2>1, <3>1 DEF Sorting
  <2>3. u \in Seq(Comparable) /\ Len(u) = k /\ p(k + 1) = Append(u, x)
    BY <2>1, Beginnings
  <2>4. x \in Comparable BY <2>1, ElementOfSeq
  <2>5. \A i \in 1..k : u[i] = s[i] BY <1>2, <2>1
  <2> HIDE DEF u, p
  <2>6. PICK m \in 0..Len(u) :
          /\ Insert(cfg, u, x) = Append(SubSeq(u, 1, m), x) \o SubSeq(u, m + 1, Len(u))
          /\ Ascending(cfg, u) => Stands(cfg, Insert(cfg, u, x), u, x, m)
    BY <2>3, <2>4, InsertIs
  <2>7. Ascending(cfg, u)
    <3>1. DOMAIN u = 1..k /\ \A i \in 1..k : i \in DOMAIN s
      BY <1>2, <2>1, <2>3, LenProperties
    <3> QED BY <2>5, <3>1 DEF Ascending
  <2>8. m = k
    <3>1. SUFFICES ASSUME m # k PROVE FALSE OBVIOUS
    <3>2. k \in m + 1..Len(u) /\ k \in 1..k BY <2>3, <2>6, <3>1
    <3>3. Before(cfg, x, u[k]) BY <2>6, <2>7, <3>2 DEF Stands
    <3>4. k \in DOMAIN s /\ k + 1 \in DOMAIN s /\ k < k + 1
      BY <1>2, <2>1, <3>2
    <3>5. ~Before(cfg, x, s[k]) BY <3>4 DEF Ascending, UpTo
    <3> QED BY <2>5, <3>2, <3>3, <3>5
  <2>9. SubSeq(u, 1, Len(u)) = u /\ SubSeq(u, Len(u) + 1, Len(u)) = <<>>
    BY <2>3, LaterEnds
  <2>10. Append(u, x) \in Seq(Comparable) BY <2>3, <2>4, AppendFacts
  <2>11. Append(u, x) \o <<>> = Append(u, x) BY <2>10, ConcatEmptySeq
  <2> QED BY <2>2, <2>3, <2>6, <2>8, <2>9, <2>11
<1>5. Nat \subseteq T
  <2> HIDE DEF T
  <2> QED BY <1>3, <1>4, SetInduction
<1>6. f[n] = p(n) /\ p(n) = s BY <1>2, <1>5, Beginnings
<1> QED BY <1>1, <1>6

\* What is kept of the beginnings of s.
Keeping(f, cfg, s) ==
    f = [k \in 0..Len(s) |->
           IF k = 0 THEN <<>>
           ELSE IF f[k - 1] # <<>> /\ compare_records(cfg, Last(f[k - 1]), s[k]) = 0 THEN f[k - 1]
           ELSE Append(f[k - 1], s[k])]

\* Unique ends with what is kept of the whole.
LEMMA UniqueIs ==
    ASSUME NEW cfg \in SortConfig, NEW s \in Seq(Comparable)
    PROVE  \E f : Keeping(f, cfg, s) /\ Unique(cfg, s) = f[Len(s)]
<1> DEFINE V == Seq(Comparable)
           n == Len(s)
           v == <<>>
           Grown(q, x) == IF q # <<>> /\ compare_records(cfg, Last(q), x) = 0 THEN q ELSE Append(q, x)
           Step == [k \in 1..n |-> [q \in V |-> Grown(q, s[k])]]
<1>1. n \in Nat /\ v \in V BY EmptySeq
<1>2. Step \in [1..n -> [V -> V]]
  <2>1. ASSUME NEW k \in 1..n, NEW q \in V PROVE Grown(q, s[k]) \in V
    <3>1. s[k] \in Comparable BY ElementOfSeq
    <3>2. Append(q, s[k]) \in V BY <3>1, AppendFacts
    <3> QED BY <3>2
  <2> HIDE DEF Grown
  <2> QED BY <2>1
<1>3. PICK f \in [0..n -> V] : Iterates(f, n, v, Step)
  <2>1. n \in Nat /\ v \in V BY <1>1
  <2> HIDE DEF V, Step, n, v
  <2> QED BY ONLY <1>2, <2>1, Iteration
<1>4. f = [k \in 0..n |-> IF k = 0 THEN <<>> ELSE Grown(f[k - 1], s[k])]
  <2>1. ASSUME NEW k \in 0..n, k # 0 PROVE Step[k][f[k - 1]] = Grown(f[k - 1], s[k])
    <3>1. k \in 1..n /\ k - 1 \in 0..n BY <2>1, <1>1
    <3>2. f[k - 1] \in V BY <3>1, <1>3
    <3> HIDE DEF Grown
    <3> QED BY <3>1, <3>2
  <2>2. f = [k \in 0..n |-> IF k = 0 THEN v ELSE Step[k][f[k - 1]]]
    BY <1>3 DEF Iterates
  <2> HIDE DEF Step, Grown
  <2> QED BY <2>1, <2>2
<1> DEFINE C == CHOOSE g : g = [k \in 0..n |-> IF k = 0 THEN <<>> ELSE Grown(g[k - 1], s[k])]
<1>5. C = [k \in 0..n |-> IF k = 0 THEN <<>> ELSE Grown(C[k - 1], s[k])]
  <2> HIDE DEF Grown
  <2> QED BY <1>4
<1>6. Unique(cfg, s) = C[n] BY DEF Unique
<1>7. Keeping(C, cfg, s)
  <2> HIDE DEF C
  <2> QED BY <1>5 DEF Keeping
<1> HIDE DEF C
<1> QED BY <1>6, <1>7

\* Each line of s comes before the next.
Rising(cfg, s) == \A i, j \in DOMAIN s : i < j => Before(cfg, s[i], s[j])

\* Of sorted lines Unique keeps the first of those that compare equal.
LEMMA UniqueKeepsFirst ==
    ASSUME NEW cfg \in SortConfig, NEW s \in Seq(Comparable), Ascending(cfg, s)
    PROVE  /\ Unique(cfg, s) \in Seq(Comparable)
           /\ Rising(cfg, Unique(cfg, s))
           /\ \A q \in Comparable : In(Unique(cfg, s), Kin(cfg, q)) = First(In(s, Kin(cfg, q)))
<1> DEFINE n == Len(s)
           p(k) == SubSeq(s, 1, k)
<1>1. PICK f : Keeping(f, cfg, s) /\ Unique(cfg, s) = f[n] BY UniqueIs
<1>2. n \in Nat /\ DOMAIN s = 1..n /\ \A k \in 1..n : s[k] \in Comparable
  BY LenProperties, ElementOfSeq
<1> DEFINE Good(u, k) == /\ u \in Seq(Comparable)
                         /\ Rising(cfg, u)
                         /\ k > 0 => u # <<>> /\ Same(cfg, Last(u), s[k])
                         /\ \A q \in Comparable : In(u, Kin(cfg, q)) = First(In(p(k), Kin(cfg, q)))
           T == {k \in Nat : k <= n => Good(f[k], k)}
<1>3. 0 \in T
  <2>1. f[0] = <<>> /\ p(0) = <<>> BY <1>1, <1>2, Beginnings DEF Keeping
  <2>2. f[0] \in Seq(Comparable) /\ Rising(cfg, f[0])
    BY <2>1, EmptySeq DEF Rising
  <2>3. ASSUME NEW q \in Comparable PROVE In(f[0], Kin(cfg, q)) = First(In(p(0), Kin(cfg, q)))
    <3>1. In(p(0), Kin(cfg, q)) = <<>> BY InNothing
    <3>2. First(<<>>) = <<>> BY DEF First
    <3> QED BY <2>1, <3>1, <3>2
  <2> QED BY <2>2, <2>3
<1>4. ASSUME NEW k \in Nat, k \in T PROVE k + 1 \in T
  <2> SUFFICES ASSUME k + 1 <= n PROVE Good(f[k + 1], k + 1) OBVIOUS
  <2> DEFINE u == f[k]
             x == s[k + 1]
             v == Append(u, x)
  <2>1. k + 1 \in 1..n /\ k + 1 \in 0..n /\ k + 1 # 0 /\ (k + 1) - 1 = k /\ k + 1 > 0
    BY <1>2
  <2>2. f[k + 1] = IF u # <<>> /\ Same(cfg, Last(u), x) THEN u ELSE v
    BY <1>1, <2>1 DEF Keeping, Same
  <2>3. Good(u, k) BY <1>2, <1>4
  <2>4. x \in Comparable /\ x = s[k + 1] BY <1>2, <2>1
  <2>5. u \in Seq(Comparable) /\ Rising(cfg, u) /\ (k > 0 => u # <<>> /\ Same(cfg, Last(u), s[k]))
    BY <2>3
  <2>6. u # <<>> => /\ Len(u) \in Nat \ {0} /\ Last(u) = u[Len(u)] /\ Last(u) \in Comparable
    BY <2>5, LastFrontFacts
  <2> HIDE DEF u, x
  <2>7. ASSUME NEW q \in Comparable
        PROVE  /\ In(u, Kin(cfg, q)) = First(In(p(k), Kin(cfg, q)))
               /\ In(p(k + 1), Kin(cfg, q)) = IF x \in Kin(cfg, q) THEN Append(In(p(k), Kin(cfg, q)), x)
                                              ELSE In(p(k), Kin(cfg, q))
               /\ In(p(k), Kin(cfg, q)) \in Seq(Comparable)
               /\ p(k) \in Seq(Comparable)
    <3> DEFINE A == Kin(cfg, q)
    <3>1. In(p(k + 1), A) = IF s[k + 1] \in A THEN Append(In(p((k + 1) - 1), A), s[k + 1])
                            ELSE In(p((k + 1) - 1), A)
      <4> DEFINE j == k + 1
      <4>1. j \in 1..Len(s) BY <2>1
      <4> HIDE DEF j, A
      <4>2. In(SubSeq(s, 1, j), A) = IF s[j] \in A THEN Append(In(SubSeq(s, 1, j - 1), A), s[j])
                                     ELSE In(SubSeq(s, 1, j - 1), A)
        BY ONLY <4>1, s \in Seq(Comparable), InBeginning
      <4> QED BY <4>2 DEF j
    <3>2. In(p(k + 1), A) = IF x \in A THEN Append(In(p(k), A), x) ELSE In(p(k), A)
      BY <2>1, <2>4, <3>1
    <3>3. p(k) \in Seq(Comparable) BY <2>1, Beginnings
    <3>4. In(p(k), A) \in Seq(Comparable) BY <3>3, InType
    <3>5. In(u, A) = First(In(p(k), A)) BY <2>3
    <3> QED BY <3>2, <3>3, <3>4, <3>5
  <2>8. CASE u # <<>> /\ Same(cfg, Last(u), x)
    <3>1. f[k + 1] = u BY <2>2, <2>8
    <3>2. Same(cfg, Last(u), s[k + 1]) BY <2>4, <2>8
    <3>3. ASSUME NEW q \in Comparable PROVE In(u, Kin(cfg, q)) = First(In(p(k + 1), Kin(cfg, q)))
      <4> DEFINE A == Kin(cfg, q)
                 w == In(p(k), A)
      <4>1. CASE x \in A
        <5>1. Last(u) \in A
          <6>1. Last(u) \in Kin(cfg, x) BY <2>6, <2>8 DEF Kin
          <6>2. ~Before(cfg, Last(u), x) /\ ~Before(cfg, x, Last(u))
            BY <2>4, <2>6, <2>8, <6>1, KinFacts
          <6>3. ~Before(cfg, x, q) /\ ~Before(cfg, q, x)
            BY <2>4, <4>1, KinFacts
          <6>4. Last(u) \in Comparable /\ x \in Comparable /\ q \in Comparable
            BY <2>4, <2>6, <2>8
          <6> DEFINE l == Last(u)
          <6> HIDE DEF l
          <6>5. l \in Comparable /\ ~Before(cfg, l, x) /\ ~Before(cfg, x, l)
            BY <6>2, <6>4 DEF l
          <6>6. ~Before(cfg, l, q) /\ ~Before(cfg, q, l)
            <7>1. ~Before(cfg, x, l) /\ ~Before(cfg, q, x) => ~Before(cfg, q, l)
              BY <6>4, <6>5, BeforeOrders
            <7>2. ~Before(cfg, x, q) /\ ~Before(cfg, l, x) => ~Before(cfg, l, q)
              BY <6>4, <6>5, BeforeOrders
            <7> QED BY <6>3, <6>5, <7>1, <7>2
          <6> QED BY <6>5, <6>6, KinFacts DEF l
        <5>2. In(u, A) # <<>>
          <6>1. Len(u) \in 1..Len(u) /\ SubSeq(u, 1, Len(u)) = u /\ u[Len(u)] \in A
            BY <2>5, <2>6, <2>8, <5>1, Beginnings
          <6>2. In(SubSeq(u, 1, Len(u)), A) = Append(In(SubSeq(u, 1, Len(u) - 1), A), u[Len(u)])
            <7> DEFINE j == Len(u)
            <7>1. j \in 1..Len(u) BY <6>1
            <7> HIDE DEF j, A
            <7>2. In(SubSeq(u, 1, j), A) = IF u[j] \in A THEN Append(In(SubSeq(u, 1, j - 1), A), u[j])
                                           ELSE In(SubSeq(u, 1, j - 1), A)
              BY ONLY <2>5, <7>1, InBeginning
            <7> QED BY <6>1, <7>2 DEF j
          <6>3. SubSeq(u, 1, Len(u) - 1) \in Seq(Comparable) /\ u[Len(u)] \in Comparable
            BY <2>5, <6>1, Beginnings, ElementOfSeq
          <6> DEFINE r == In(SubSeq(u, 1, Len(u) - 1), A)
                     y == u[Len(u)]
          <6>4. r \in Seq(Comparable) /\ y \in Comparable
            BY <6>3, InType
          <6> HIDE DEF r, y
          <6>6. Append(r, y) # <<>>
            <7> DEFINE t == Append(r, y)
            <7>1. Len(t) = Len(r) + 1 /\ Len(r) \in Nat
              BY <6>4, AppendFacts, LenProperties
            <7> HIDE DEF t
            <7>2. Len(t) # 0 BY <7>1
            <7>3. t # <<>> BY <7>2
            <7> QED BY <7>3 DEF t
          <6> QED BY <6>1, <6>2, <6>6 DEF r, y
        <5>3. In(u, A) = First(w) /\ In(p(k + 1), A) = Append(w, x) /\ w \in Seq(Comparable)
          BY <2>7, <4>1
        <5> HIDE DEF w, A
        <5>4. w # <<>>
          <6>1. First(<<>>) = <<>> BY DEF First
          <6> QED BY <5>2, <5>3, <6>1
        <5>5. First(Append(w, x)) = First(w)
          BY <2>4, <5>3, <5>4, FirstFacts
        <5> QED BY <5>3, <5>5 DEF A
      <4>2. CASE x \notin A BY <2>7, <4>2
      <4> QED BY <4>1, <4>2
    <3> QED BY <2>5, <2>8, <3>1, <3>2, <3>3
  <2>9. CASE ~(u # <<>> /\ Same(cfg, Last(u), x))
    <3>1. f[k + 1] = v BY <2>2, <2>9
    <3>2. ASSUME k > 0 PROVE Before(cfg, Last(u), x) /\ Before(cfg, s[k], x)
      <4> DEFINE l == Last(u)
                 y == s[k]
      <4>1. k \in 1..n /\ k < k + 1 BY <1>2, <2>1, <3>2
      <4>2. l \in Comparable /\ y \in Comparable /\ Same(cfg, l, y) /\ ~Same(cfg, l, x)
        BY <1>2, <2>5, <2>6, <2>9, <3>2, <4>1
      <4>3. ~Before(cfg, x, y)
        BY <1>2, <2>1, <2>4, <4>1 DEF Ascending, UpTo
      <4> HIDE DEF l, y
      <4>4. ~Before(cfg, l, y) /\ ~Before(cfg, y, l)
        BY <4>2, BeforeOrders DEF Same
      <4>5. ~(~Before(cfg, l, x) /\ ~Before(cfg, x, l))
        BY <2>4, <4>2, BeforeOrders DEF Same
      <4>6. ~Before(cfg, y, l) /\ ~Before(cfg, x, y) => ~Before(cfg, x, l)
        BY <2>4, <4>2, BeforeOrders
      <4>7. Before(cfg, l, x) BY <4>3, <4>4, <4>5, <4>6
      <4>8. ~Before(cfg, l, y) /\ Before(cfg, l, x) => Before(cfg, y, x)
        BY <2>4, <4>2, BeforeOrders
      <4> QED BY <4>4, <4>7, <4>8 DEF l, y
    <3>3. v \in Seq(Comparable) /\ Len(v) = Len(u) + 1 /\ Len(u) \in Nat /\ DOMAIN v = 1..Len(u) + 1
          /\ v[Len(u) + 1] = x /\ \A i \in 1..Len(u) : v[i] = u[i]
      BY <2>4, <2>5, AppendFacts, LenProperties
    <3>4. \A i \in 1..Len(u) : Before(cfg, u[i], x)
      <4>1. k = 0 => Len(u) = 0
        <5>1. k = 0 => u = <<>> BY <1>1, <1>2 DEF Keeping, u
        <5> QED BY <5>1
      <4> SUFFICES ASSUME NEW i \in 1..Len(u), k > 0 PROVE Before(cfg, u[i], x)
        BY <1>4, <4>1
      <4>2. u[i] \in Comparable /\ i \in DOMAIN u /\ Len(u) \in DOMAIN u /\ u # <<>>
        BY <2>5, <2>6, LenProperties, ElementOfSeq
      <4>3. Before(cfg, u[Len(u)], x) /\ u[Len(u)] \in Comparable
        BY <2>6, <3>2, <4>2
      <4>4. CASE i = Len(u) BY <4>3, <4>4
      <4>5. CASE i # Len(u)
        <5>1. i < Len(u) BY <3>3, <4>5
        <5>2. Before(cfg, u[i], u[Len(u)])
          BY <2>5, <4>2, <5>1 DEF Rising
        <5> DEFINE l == u[Len(u)]
                   y == u[i]
        <5> HIDE DEF l, y
        <5>3. y \in Comparable /\ l \in Comparable /\ Before(cfg, y, l) /\ Before(cfg, l, x)
          BY <4>2, <4>3, <5>2 DEF l, y
        <5>4. ~Before(cfg, x, l) BY <2>4, <5>3, BeforeOrders
        <5>5. Before(cfg, y, x) BY <2>4, <5>3, <5>4, BeforeOrders
        <5> QED BY <5>5 DEF y
      <4> QED BY <4>4, <4>5
    <3>5. Rising(cfg, v)
      <4> SUFFICES ASSUME NEW i \in 1..Len(u) + 1, NEW j \in 1..Len(u) + 1, i < j
                   PROVE  Before(cfg, v[i], v[j])
        BY <3>3 DEF Rising
      <4>1. i \in 1..Len(u) BY <3>3
      <4>2. CASE j = Len(u) + 1 BY <3>3, <3>4, <4>1, <4>2
      <4>3. CASE j # Len(u) + 1
        <5>1. j \in 1..Len(u) /\ DOMAIN u = 1..Len(u)
          BY <2>5, <3>3, <4>3, LenProperties
        <5> QED BY <2>5, <3>3, <4>1, <5>1 DEF Rising
      <4> QED BY <4>2, <4>3
    <3>6. v # <<>> /\ Last(v) = x /\ Same(cfg, x, x)
      <4>1. v # <<>> BY <3>3
      <4>2. Last(v) = v[Len(v)] BY <3>3, <4>1, LastFrontFacts
      <4>3. x \in Kin(cfg, x) BY <2>4, KinFacts
      <4> QED BY <3>3, <4>1, <4>2, <4>3 DEF Kin
    <3>7. ASSUME NEW q \in Comparable PROVE In(v, Kin(cfg, q)) = First(In(p(k + 1), Kin(cfg, q)))
      <4> DEFINE A == Kin(cfg, q)
                 w == In(p(k), A)
      <4>1. In(v, A) = IF x \in A THEN Append(In(u, A), x) ELSE In(u, A)
        <5> HIDE DEF A
        <5>1. u \in Seq(Comparable) /\ x \in Comparable BY <2>4, <2>5
        <5>2. In(Append(u, x), A) = IF x \in A THEN Append(In(u, A), x) ELSE In(u, A)
          BY ONLY <5>1, InAppend
        <5> QED BY <5>2
      <4>2. In(u, A) = First(w) /\ w \in Seq(Comparable)
            /\ In(p(k + 1), A) = IF x \in A THEN Append(w, x) ELSE w
        BY <2>7
      <4>3. CASE x \in A
        <5>1. w = <<>>
          <6> DEFINE pk == p(k)
          <6>1. pk \in Seq(Comparable) /\ DOMAIN pk = 1..k /\ \A i \in 1..k : pk[i] = s[i]
            <7>1. Len(pk) = k /\ pk \in Seq(Comparable)
              BY <2>1, Beginnings
            <7>2. \A i \in 1..k : pk[i] = s[i] BY <1>2, <2>1
            <7> HIDE DEF pk
            <7> QED BY <7>1, <7>2, LenProperties
          <6>2. ASSUME NEW i \in 1..k PROVE s[i] \notin A
            <7>1. k > 0 /\ i \in 1..n /\ k \in 1..n /\ (i = k \/ i < k)
              BY <1>2, <2>1
            <7>2. Before(cfg, s[k], x) /\ s[k] \in Comparable /\ s[i] \in Comparable
              BY <1>2, <3>2, <7>1
            <7>3. i < k => ~Before(cfg, s[k], s[i])
              BY <1>2, <7>1 DEF Ascending, UpTo
            <7> DEFINE y == s[i]
                       z == s[k]
            <7>4. y \in Comparable /\ z \in Comparable /\ Before(cfg, z, x) /\ (y = z \/ ~Before(cfg, z, y))
              BY <7>1, <7>2, <7>3
            <7> HIDE DEF y, z
            <7>5. Before(cfg, y, x)
              <8>1. ~Before(cfg, z, y) /\ Before(cfg, z, x) => Before(cfg, y, x)
                BY <2>4, <7>4, BeforeOrders
              <8> QED BY <7>4, <8>1
            <7>6. y \in A => ~Before(cfg, y, x)
              BY <2>4, <4>3, <7>4, KinFacts
            <7> QED BY <7>5, <7>6 DEF y
          <6> HIDE DEF pk, A
          <6>3. \A i \in DOMAIN pk : pk[i] \notin A BY <6>1, <6>2
          <6>4. In(pk, A) = <<>> BY <6>1, <6>3, InNone
          <6> QED BY <6>4 DEF pk
        <5>2. First(<<>>) = <<>> /\ First(Append(<<>>, x)) = Append(<<>>, x)
          <6>1. <<>> \in Seq(Comparable) BY EmptySeq
          <6> QED BY <2>4, <6>1, FirstFacts
        <5> HIDE DEF A, w, v, p
        <5> QED BY <4>1, <4>2, <4>3, <5>1, <5>2 DEF A
      <4>4. CASE x \notin A BY <4>1, <4>2, <4>4
      <4> QED BY <4>3, <4>4
    <3>8. Same(cfg, Last(v), s[k + 1]) BY <2>4, <3>6
    <3> HIDE DEF v, p
    <3> QED BY <3>1, <3>3, <3>5, <3>6, <3>7, <3>8
  <2> QED BY <2>8, <2>9
<1>5. Nat \subseteq T
  <2> HIDE DEF T
  <2> QED BY <1>3, <1>4, SetInduction
<1>6. Good(f[n], n)
  <2>1. n <= n BY <1>2
  <2> HIDE DEF Good
  <2> QED BY <1>2, <1>5, <2>1
<1>7. p(n) = s BY Beginnings
<1> HIDE DEF p, n
<1> QED BY <1>1, <1>6, <1>7

\* What rises stays as it is.
LEMMA UniqueStays ==
    ASSUME NEW cfg \in SortConfig, NEW s \in Seq(Comparable),
           \A i \in 2..Len(s) : ~Same(cfg, s[i - 1], s[i])
    PROVE  Unique(cfg, s) = s
<1> DEFINE n == Len(s)
           p(k) == SubSeq(s, 1, k)
<1>1. PICK f : Keeping(f, cfg, s) /\ Unique(cfg, s) = f[n] BY UniqueIs
<1>2. n \in Nat BY LenProperties
<1> DEFINE T == {k \in Nat : k <= n => f[k] = p(k)}
<1>3. 0 \in T BY <1>1, <1>2, Beginnings DEF Keeping
<1>4. ASSUME NEW k \in Nat, k \in T PROVE k + 1 \in T
  <2> SUFFICES ASSUME k + 1 <= n PROVE f[k + 1] = p(k + 1) OBVIOUS
  <2> DEFINE u == SubSeq(s, 1, k)
             x == s[k + 1]
  <2>1. k + 1 \in 1..n /\ k + 1 \in 0..n /\ k + 1 # 0 /\ (k + 1) - 1 = k
    BY <1>2
  <2>2. f[k + 1] = IF u # <<>> /\ Same(cfg, Last(u), x) THEN u ELSE Append(u, x)
    <3>1. f[k] = u BY <1>2, <1>4
    <3> QED BY <1>1, <2>1, <3>1 DEF Keeping, Same
  <2>3. u \in Seq(Comparable) /\ Len(u) = k /\ p(k + 1) = Append(u, x)
    BY <2>1, Beginnings
  <2>4. \A i \in 1..k : u[i] = s[i] BY <1>2, <2>1
  <2> HIDE DEF u, p
  <2>5. ~(u # <<>> /\ Same(cfg, Last(u), x))
    <3> SUFFICES ASSUME u # <<>> PROVE ~Same(cfg, Last(u), x) OBVIOUS
    <3>1. Len(u) \in Nat \ {0} /\ Last(u) = u[Len(u)]
      BY <2>3, LastFrontFacts
    <3>2. k \in 1..k /\ k + 1 \in 2..n BY <1>2, <2>1, <2>3, <3>1
    <3>3. Last(u) = s[k] BY <2>3, <2>4, <3>1, <3>2
    <3>4. ~Same(cfg, s[(k + 1) - 1], s[k + 1]) BY <3>2
    <3> QED BY <2>1, <3>3, <3>4
  <2> QED BY <2>2, <2>3, <2>5
<1>5. Nat \subseteq T
  <2> HIDE DEF T
  <2> QED BY <1>3, <1>4, SetInduction
<1>6. f[n] = p(n) /\ p(n) = s BY <1>2, <1>5, Beginnings
<1> QED BY <1>1, <1>6

\* The file whose first line comes next.
LeastOf(cfg, rest) ==
    CHOOSE f \in DOMAIN rest :
        /\ rest[f] # <<>>
        /\ \A g \in DOMAIN rest : rest[g] # <<>> => ~Before(cfg, rest[g][1], rest[f][1])

\* merge_sorted takes that line.
MergeStep(cfg, s) ==
    [out |-> Append(s.out, s.rest[LeastOf(cfg, s.rest)][1]),
     rest |-> [s.rest EXCEPT ![LeastOf(cfg, s.rest)] = Tail(@)]]

Merging(h, cfg, files, n) ==
    h = [k \in 0..n |-> IF k = 0 THEN [out |-> <<>>, rest |-> files] ELSE MergeStep(cfg, h[k - 1])]

\* merge_sorted takes as many lines as there are.
LEMMA MergeIs ==
    ASSUME NEW cfg, NEW files, NEW n \in Nat, n = Len(FlattenSeq(files))
    PROVE  \E h : Merging(h, cfg, files, n) /\ merge_sorted(cfg, files) = h[n].out
<1> DEFINE v == [out |-> <<>>, rest |-> files]
           T == {m \in Nat : \E h : h = [k \in 0..m |-> IF k = 0 THEN v ELSE MergeStep(cfg, h[k - 1])]}
<1> HIDE DEF v
<1>1. 0 \in T
  <2> DEFINE h == [k \in 0..0 |-> v]
  <2>1. h = [k \in 0..0 |-> IF k = 0 THEN v ELSE MergeStep(cfg, h[k - 1])]
    OBVIOUS
  <2> HIDE DEF h
  <2> QED BY <2>1
<1>2. ASSUME NEW m \in Nat, m \in T PROVE m + 1 \in T
  <2>1. PICK h : h = [k \in 0..m |-> IF k = 0 THEN v ELSE MergeStep(cfg, h[k - 1])]
    BY <1>2
  <2> DEFINE g == [k \in 0..m + 1 |-> IF k \in 0..m THEN h[k] ELSE MergeStep(cfg, h[m])]
  <2>2. ASSUME NEW k \in 0..m + 1 PROVE g[k] = IF k = 0 THEN v ELSE MergeStep(cfg, g[k - 1])
    <3>1. CASE k = 0 BY <2>1, <3>1
    <3>2. CASE k \in 1..m
      <4>1. k \in 0..m /\ k - 1 \in 0..m /\ k # 0 /\ k - 1 \in 0..m + 1
        BY <3>2
      <4>2. g[k] = h[k] /\ g[k - 1] = h[k - 1] BY <4>1
      <4> HIDE DEF g
      <4> QED BY <2>1, <4>1, <4>2
    <3>3. CASE k = m + 1
      <4>1. k \notin 0..m /\ k - 1 = m /\ m \in 0..m /\ k # 0 /\ m \in 0..m + 1
        BY <3>3
      <4>2. g[k] = MergeStep(cfg, h[m]) /\ g[m] = h[m] BY <4>1
      <4> HIDE DEF g
      <4> QED BY <4>1, <4>2
    <3> QED BY <3>1, <3>2, <3>3
  <2>3. g = [k \in 0..m + 1 |-> IF k = 0 THEN v ELSE MergeStep(cfg, g[k - 1])]
    <3>1. g = [k \in 0..m + 1 |-> g[k]] OBVIOUS
    <3> HIDE DEF g
    <3> QED BY <2>2, <3>1
  <2> HIDE DEF g
  <2> QED BY <2>3
<1>3. Nat \subseteq T
  <2> HIDE DEF T
  <2> QED BY <1>1, <1>2, SetInduction
<1>4. \E h : h = [k \in 0..n |-> IF k = 0 THEN v ELSE MergeStep(cfg, h[k - 1])]
  BY <1>3
<1> DEFINE C == CHOOSE h : h = [k \in 0..n |-> IF k = 0 THEN [out |-> <<>>, rest |-> files]
                                               ELSE MergeStep(cfg, h[k - 1])]
<1>5. C = [k \in 0..n |-> IF k = 0 THEN [out |-> <<>>, rest |-> files] ELSE MergeStep(cfg, C[k - 1])]
  BY <1>4 DEF v
<1>6. merge_sorted(cfg, files) = C[n].out
  BY DEF merge_sorted, MergeStep, LeastOf
<1> HIDE DEF C
<1> QED BY <1>5, <1>6 DEF Merging

\* Of files that are not all read to the end, one has a least first line.
LEMMA LeastExists ==
    ASSUME NEW cfg \in SortConfig, NEW rest \in Seq(Seq(Comparable)),
           NEW e \in DOMAIN rest, rest[e] # <<>>
    PROVE  LET f == LeastOf(cfg, rest)
           IN  /\ f \in DOMAIN rest /\ rest[f] # <<>>
               /\ \A g \in DOMAIN rest : rest[g] # <<>> => UpTo(cfg, rest[f][1], rest[g][1])
<1> DEFINE n == Len(rest)
           x(f) == rest[f][1]
           Low(f, m) == f \in 1..m /\ rest[f] # <<>>
                        /\ \A g \in 1..m : rest[g] # <<>> => ~Before(cfg, x(g), x(f))
           T == {m \in Nat : m <= n => ((\E f \in 1..m : rest[f] # <<>>) => \E f : Low(f, m))}
<1>0. n \in Nat /\ DOMAIN rest = 1..n BY LenProperties
<1>1. \A f \in 1..n : rest[f] # <<>> => x(f) \in Comparable
  <2> SUFFICES ASSUME NEW f \in 1..n, rest[f] # <<>> PROVE x(f) \in Comparable
    OBVIOUS
  <2> DEFINE s == rest[f]
  <2>1. s \in Seq(Comparable) BY ElementOfSeq
  <2> HIDE DEF s
  <2>2. s # <<>> => s[1] \in Comparable
    <3>1. s # <<>> => 1 \in 1..Len(s) BY <2>1, EmptySeq, LenProperties
    <3> QED BY <2>1, <3>1, ElementOfSeq
  <2> QED BY <2>2 DEF s
<1>2. 0 \in T OBVIOUS
<1>3. ASSUME NEW m \in Nat, m \in T PROVE m + 1 \in T
  <2> SUFFICES ASSUME m + 1 <= n, NEW o \in 1..m + 1, rest[o] # <<>> PROVE \E f : Low(f, m + 1)
    OBVIOUS
  <2>0. m + 1 \in 1..n /\ 1..m + 1 = 1..m \cup {m + 1} /\ \A k \in 1..m : k \in 1..n /\ k \in 1..m + 1
    BY <1>0
  <2> HIDE DEF x
  <2>1. CASE rest[m + 1] = <<>>
    <3>1. o \in 1..m BY <2>0, <2>1
    <3>2. PICK f : Low(f, m) BY <1>0, <1>3, <2>0, <3>1
    <3>3. Low(f, m + 1) BY <2>0, <2>1, <3>2
    <3> QED BY <3>3
  <2>2. CASE rest[m + 1] # <<>> /\ \A k \in 1..m : rest[k] = <<>>
    <3>1. ~Before(cfg, x(m + 1), x(m + 1))
      <4>1. x(m + 1) \in Comparable BY <1>1, <2>0, <2>2
      <4> QED BY <4>1, BeforeOrders
    <3>2. Low(m + 1, m + 1) BY <2>0, <2>2, <3>1
    <3> QED BY <3>2
  <2>3. CASE rest[m + 1] # <<>> /\ \E k \in 1..m : rest[k] # <<>>
    <3>1. PICK f : Low(f, m) BY <1>0, <1>3, <2>0, <2>3
    <3> DEFINE y == x(m + 1)
               z == x(f)
    <3>2. y \in Comparable /\ z \in Comparable BY <1>1, <2>0, <2>3, <3>1
    <3>3. ~Before(cfg, y, y) BY <3>2, BeforeOrders
    <3>4. CASE Before(cfg, y, z)
      <4>1. ASSUME NEW g \in 1..m, rest[g] # <<>> PROVE ~Before(cfg, x(g), y)
        <5> DEFINE w == x(g)
        <5>1. w \in Comparable /\ ~Before(cfg, w, z)
          BY <1>1, <2>0, <3>1, <4>1
        <5> HIDE DEF y, z, w
        <5>2. Before(cfg, y, z) /\ ~Before(cfg, w, z) => Before(cfg, y, w)
          BY <3>2, <5>1, BeforeOrders
        <5>3. Before(cfg, y, w) => ~Before(cfg, w, y)
          BY <3>2, <5>1, BeforeOrders
        <5> QED BY <3>4, <5>1, <5>2, <5>3 DEF w
      <4>2. Low(m + 1, m + 1) BY <2>0, <2>3, <3>3, <4>1
      <4> QED BY <4>2
    <3>5. CASE ~Before(cfg, y, z)
      <4>1. Low(f, m + 1) BY <2>0, <3>1, <3>5
      <4> QED BY <4>1
    <3> QED BY <3>4, <3>5
  <2> QED BY <2>1, <2>2, <2>3
<1>4. Nat \subseteq T
  <2> HIDE DEF T
  <2> QED BY <1>2, <1>3, SetInduction
<1>5. \E f : Low(f, n)
  <2>1. n \in T
    <3> HIDE DEF T
    <3> QED BY <1>0, <1>4
  <2>2. n <= n /\ e \in 1..n BY <1>0
  <2> QED BY <2>1, <2>2
<1>6. \E f \in DOMAIN rest : /\ rest[f] # <<>>
                             /\ \A g \in DOMAIN rest : rest[g] # <<>> => ~Before(cfg, rest[g][1], rest[f][1])
  BY <1>0, <1>5
<1> QED BY <1>6 DEF LeastOf, UpTo

\* The count up to file i is the count up to the one before and that of file i.
CountsOn(S, f, r, A, i) ==
    /\ f[i] \in Seq(S)
    /\ HowMany(f[i], A) \in Nat
    /\ i # 1 => HowMany(f[i], A) = HowMany(f[i - 1], A) + HowMany(r[i], A)

\* What the files hold up to each of them is counted file by file.
LEMMA CountRunning ==
    ASSUME NEW S, NEW r \in Seq(Seq(S)), NEW f, Running(r, f), NEW A,
           NEW e \in 1..Len(r)
    PROVE  CountsOn(S, f, r, A, e)
<1> DEFINE n == Len(r)
           T == {m \in Nat : m <= n => \A i \in 1..m : f[i] \in Seq(S)}
<1>0. n \in Nat /\ \A i \in 1..n : r[i] \in Seq(S)
  BY LenProperties, ElementOfSeq
<1>1. \A i \in 1..n : f[i] = IF i = 1 THEN r[i] ELSE f[i - 1] \o r[i]
  BY DEF Running
<1>2. 0 \in T OBVIOUS
<1>3. ASSUME NEW m \in Nat, m \in T PROVE m + 1 \in T
  <2> SUFFICES ASSUME m + 1 <= n PROVE \A i \in 1..m + 1 : f[i] \in Seq(S)
    OBVIOUS
  <2>1. \A i \in 1..m : f[i] \in Seq(S) BY <1>0, <1>3
  <2>2. f[m + 1] \in Seq(S)
    <3>1. m + 1 \in 1..n /\ (m + 1) - 1 = m /\ (m = 0 <=> m + 1 = 1)
      BY <1>0
    <3>2. CASE m = 0
      <4>1. f[m + 1] = r[m + 1] BY <1>1, <3>1, <3>2
      <4> QED BY <1>0, <3>1, <4>1
    <3>3. CASE m # 0
      <4>1. f[m] \in Seq(S) BY <2>1, <3>3
      <4>2. f[m + 1] = f[m] \o r[m + 1] BY <1>1, <3>1, <3>3
      <4>3. r[m + 1] \in Seq(S) BY <1>0, <3>1
      <4> QED BY <4>1, <4>2, <4>3, ConcatProperties
    <3> QED BY <3>2, <3>3
  <2>3. \A i \in 1..m + 1 : i \in 1..m \/ i = m + 1 OBVIOUS
  <2> QED BY <2>1, <2>2, <2>3
<1>4. Nat \subseteq T
  <2> HIDE DEF T
  <2> QED BY <1>2, <1>3, SetInduction
<1>5. \A i \in 1..n : f[i] \in Seq(S) BY <1>0, <1>4
<1> DEFINE i == e
<1>e. i \in 1..n OBVIOUS
<1> HIDE DEF i
<1>6. HowMany(f[i], A) \in Nat BY <1>e, <1>5, CountConcat
<1>7. ASSUME i # 1 PROVE HowMany(f[i], A) = HowMany(f[i - 1], A) + HowMany(r[i], A)
  <2> DEFINE u == f[i - 1]
             w == r[i]
  <2>1. i - 1 \in 1..n BY <1>e, <1>0, <1>7
  <2>2. u \in Seq(S) /\ w \in Seq(S) /\ f[i] = u \o w
    BY <1>e, <1>0, <1>1, <1>5, <1>7, <2>1
  <2> HIDE DEF u, w
  <2>3. HowMany(u \o w, A) = HowMany(u, A) + HowMany(w, A)
    BY <2>2, CountConcat
  <2> QED BY <2>2, <2>3 DEF u, w
<1> QED BY <1>e, <1>5, <1>6, <1>7 DEF i, CountsOn

\* t is r with the first line of file f taken.
Takes(t, r, f) ==
    /\ Len(t) = Len(r)
    /\ t[f] = Tail(r[f])
    /\ \A g \in 1..Len(r) : g # f => t[g] = r[g]

\* Taking a first line takes one of all.
LEMMA CountTaken ==
    ASSUME NEW S, NEW r \in Seq(Seq(S)), NEW t \in Seq(Seq(S)), NEW f \in 1..Len(r), r[f] # <<>>,
           Takes(t, r, f), NEW A
    PROVE  HowMany(FlattenSeq(r), A) = HowMany(FlattenSeq(t), A) + (IF r[f][1] \in A THEN 1 ELSE 0)
<1> DEFINE n == Len(r)
           d == IF r[f][1] \in A THEN 1 ELSE 0
<1>0. n \in Nat /\ n # 0 /\ Len(t) = n /\ r # <<>> /\ t # <<>>
      /\ \A i \in 1..n : r[i] \in Seq(S) /\ t[i] \in Seq(S)
  <2>1. n \in Nat /\ n # 0 /\ Len(t) = n BY LenProperties DEF Takes
  <2>2. r # <<>> /\ t # <<>> BY <2>1
  <2>3. \A i \in 1..n : r[i] \in Seq(S) /\ t[i] \in Seq(S)
    BY <2>1, ElementOfSeq
  <2> QED BY <2>1, <2>2, <2>3
<1>1. PICK g : Running(r, g) /\ FlattenSeq(r) = g[n] BY <1>0, FlattenIs
<1>2. PICK h : Running(t, h) /\ FlattenSeq(t) = h[n] BY <1>0, FlattenIs
<1>3. \A i \in 1..n : /\ HowMany(g[i], A) \in Nat
                      /\ i # 1 => HowMany(g[i], A) = HowMany(g[i - 1], A) + HowMany(r[i], A)
  <2> SUFFICES ASSUME NEW i \in 1..n
               PROVE  /\ HowMany(g[i], A) \in Nat
                      /\ i # 1 => HowMany(g[i], A) = HowMany(g[i - 1], A) + HowMany(r[i], A)
    OBVIOUS
  <2> QED
    <3>1. r \in Seq(Seq(S)) /\ Running(r, g) /\ i \in 1..Len(r) BY <1>1
    <3>2. CountsOn(S, g, r, A, i) BY ONLY <3>1, CountRunning
    <3> QED BY <3>2 DEF CountsOn
<1>4. \A i \in 1..n : /\ HowMany(h[i], A) \in Nat
                      /\ i # 1 => HowMany(h[i], A) = HowMany(h[i - 1], A) + HowMany(t[i], A)
  <2> SUFFICES ASSUME NEW i \in 1..n
               PROVE  /\ HowMany(h[i], A) \in Nat
                      /\ i # 1 => HowMany(h[i], A) = HowMany(h[i - 1], A) + HowMany(t[i], A)
    OBVIOUS
  <2>1. i \in 1..Len(t) BY <1>0
  <2> QED
    <3>1. t \in Seq(Seq(S)) /\ Running(t, h) /\ i \in 1..Len(t)
      BY <1>2, <2>1
    <3>2. CountsOn(S, h, t, A, i) BY ONLY <3>1, CountRunning
    <3> QED BY <3>2 DEF CountsOn
<1>5. g[1] = r[1] /\ h[1] = t[1] BY <1>0, <1>1, <1>2 DEF Running
<1>6. \A i \in 1..n : HowMany(r[i], A) \in Nat /\ HowMany(t[i], A) \in Nat
  BY <1>0, CountConcat
<1>7. HowMany(r[f], A) = HowMany(t[f], A) + d
  <2> DEFINE s == r[f]
  <2>1. s \in Seq(S) /\ s # <<>> BY <1>0
  <2> HIDE DEF s
  <2>2. HowMany(s, A) = HowMany(Tail(s), A) + (IF s[1] \in A THEN 1 ELSE 0)
    BY <2>1, CountTail
  <2>3. t[f] = Tail(s) BY DEF Takes, s
  <2> QED BY <2>2, <2>3 DEF s
<1>8. \A i \in 1..n : i # f => HowMany(r[i], A) = HowMany(t[i], A)
  BY DEF Takes
<1>9. d \in Nat OBVIOUS
<1> DEFINE G(i) == HowMany(g[i], A)
           H(i) == HowMany(h[i], A)
           R(i) == HowMany(r[i], A)
           U(i) == HowMany(t[i], A)
           T == {m \in Nat : m + 1 <= n => G(m + 1) = H(m + 1) + (IF f <= m + 1 THEN d ELSE 0)}
<1>10. /\ \A i \in 1..n : G(i) \in Nat /\ H(i) \in Nat /\ R(i) \in Nat /\ U(i) \in Nat
       /\ \A i \in 1..n : i # 1 => G(i) = G(i - 1) + R(i) /\ H(i) = H(i - 1) + U(i)
       /\ \A i \in 1..n : i # f => R(i) = U(i)
       /\ R(f) = U(f) + d /\ G(1) = R(1) /\ H(1) = U(1) /\ f \in 1..n
  BY <1>3, <1>4, <1>5, <1>6, <1>7, <1>8
<1> HIDE DEF G, H, R, U, d, n
<1>11. 0 \in T
  <2>1. 1 \in 1..n BY <1>0
  <2>2. CASE f = 1 BY <1>9, <1>10, <2>1, <2>2
  <2>3. CASE f # 1 BY <1>9, <1>10, <2>1, <2>3
  <2> QED BY <2>2, <2>3
<1>12. ASSUME NEW m \in Nat, m \in T PROVE m + 1 \in T
  <2> SUFFICES ASSUME m + 1 + 1 <= n
               PROVE  G(m + 1 + 1) = H(m + 1 + 1) + (IF f <= m + 1 + 1 THEN d ELSE 0)
    OBVIOUS
  <2> DEFINE j == m + 1
             k == m + 1 + 1
  <2>1. j \in 1..n /\ k \in 1..n /\ k # 1 /\ k - 1 = j BY <1>0
  <2>2. G(j) = H(j) + (IF f <= j THEN d ELSE 0) BY <1>0, <1>12
  <2>3. G(k) = G(j) + R(k) /\ H(k) = H(j) + U(k) BY <1>10, <2>1
  <2>4. G(j) \in Nat /\ H(j) \in Nat /\ R(k) \in Nat /\ U(k) \in Nat /\ G(k) \in Nat /\ H(k) \in Nat
    BY <1>10, <2>1
  <2>5. CASE f = k
    <3>1. ~(f <= j) /\ R(k) = U(k) + d BY <1>10, <2>1, <2>5
    <3>2. G(k) = H(k) + d BY <1>9, <2>2, <2>3, <2>4, <3>1
    <3> QED BY <2>1, <2>5, <3>2
  <2>6. CASE f # k
    <3>0. f \in Int /\ j \in Int /\ k = j + 1 BY <1>10, <2>1
    <3>1. (f <= j <=> f <= k) /\ R(k) = U(k)
      <4>1. R(k) = U(k) BY <1>10, <2>1, <2>6
      <4>2. f <= j <=> f <= k BY ONLY <3>0, <2>6
      <4> QED BY <4>1, <4>2
    <3>2. G(k) = H(k) + (IF f <= k THEN d ELSE 0)
      BY <1>9, <2>2, <2>3, <2>4, <3>1, SMTT(30)
    <3> QED BY <3>2
  <2> QED BY <2>5, <2>6
<1>13. Nat \subseteq T
  <2> HIDE DEF T
  <2> QED BY <1>11, <1>12, SetInduction
<1>14. G(n) = H(n) + d
  <2>1. n - 1 \in Nat /\ n - 1 + 1 = n /\ f <= n BY <1>0, <1>10
  <2> DEFINE m == n - 1
  <2>2. m \in T
    <3> HIDE DEF T, m
    <3>1. m \in Nat BY <2>1 DEF m
    <3> QED BY <1>13, <3>1
  <2>3. m + 1 = n /\ m + 1 <= n BY <1>0
  <2> QED BY <2>1, <2>2, <2>3
<1> QED BY <1>1, <1>2, <1>14 DEF G, H, d, n

\* What merge_sorted has after k lines: those lines, sorted, and files that are still
\* sorted and hold no line that should have come before them, nothing lost.
MergedSoFar(cfg, files, s, k) ==
    /\ s.out \in Seq(Comparable) /\ Len(s.out) = k
    /\ s.rest \in Seq(Seq(Comparable)) /\ Len(s.rest) = Len(files)
    /\ Ascending(cfg, s.out)
    /\ \A g \in 1..Len(files) : Ascending(cfg, s.rest[g])
    /\ \A i \in 1..k : \A g \in 1..Len(files) : \A j \in 1..Len(s.rest[g]) :
         UpTo(cfg, s.out[i], s.rest[g][j])
    /\ \A A : HowMany(s.out, A) + HowMany(FlattenSeq(s.rest), A) = HowMany(FlattenSeq(files), A)

\* The least first line comes before every line that is left.
LEMMA LeastOfAll ==
    ASSUME NEW cfg \in SortConfig, NEW rest \in Seq(Seq(Comparable)),
           \A g \in 1..Len(rest) : Ascending(cfg, rest[g]),
           NEW f \in 1..Len(rest), rest[f] # <<>>,
           \A g \in DOMAIN rest : rest[g] # <<>> => UpTo(cfg, rest[f][1], rest[g][1])
    PROVE  /\ rest[f][1] \in Comparable
           /\ \A g \in 1..Len(rest) : \A j \in 1..Len(rest[g]) : UpTo(cfg, rest[f][1], rest[g][j])
<1> DEFINE x == rest[f][1]
<1>1. \A g \in 1..Len(rest) : rest[g] \in Seq(Comparable) /\ Len(rest[g]) \in Nat
  BY ElementOfSeq, LenProperties
<1>2. \A g \in 1..Len(rest) : \A j \in 1..Len(rest[g]) : rest[g][j] \in Comparable
  BY <1>1, ElementOfSeq
<1>3. x \in Comparable
  <2>1. Len(rest[f]) # 0 BY <1>1, EmptySeq
  <2>2. 1 \in 1..Len(rest[f]) BY <1>1, <2>1
  <2> QED BY <1>2, <2>2
<1>4. ASSUME NEW g \in 1..Len(rest), NEW j \in 1..Len(rest[g]) PROVE UpTo(cfg, x, rest[g][j])
  <2> DEFINE y == rest[g][1]
             z == rest[g][j]
  <2>1. 1 \in 1..Len(rest[g]) /\ (j = 1 \/ 1 < j) /\ Len(rest[g]) # 0
    BY <1>1
  <2>2. rest[g] # <<>> BY <2>1
  <2>3. UpTo(cfg, x, y) BY <2>2, LenProperties
  <2>4. y \in Comparable /\ z \in Comparable BY <1>2, <2>1
  <2>5. CASE 1 < j
    <3>1. UpTo(cfg, y, z)
      BY <1>1, <2>1, <2>5, LenProperties DEF Ascending
    <3> HIDE DEF x, y, z
    <3>2. ~Before(cfg, y, x) /\ ~Before(cfg, z, y) => ~Before(cfg, z, x)
      BY <1>3, <2>4, BeforeOrders
    <3> QED BY <2>3, <3>1, <3>2 DEF UpTo, z
  <2> QED BY <2>1, <2>3, <2>5
<1> QED BY <1>3, <1>4

\* One line more.
LEMMA MergeGoesOn ==
    ASSUME NEW cfg \in SortConfig, NEW files \in Seq(Seq(Comparable)), NEW s, NEW k \in Nat,
           k < Len(FlattenSeq(files)), MergedSoFar(cfg, files, s, k)
    PROVE  MergedSoFar(cfg, files, MergeStep(cfg, s), k + 1)
<1> DEFINE o == s.out
           r == s.rest
           n == Len(files)
           f == LeastOf(cfg, r)
           x == r[f][1]
           t == [r EXCEPT ![f] = Tail(@)]
           p == Append(o, x)
<1>1. /\ o \in Seq(Comparable) /\ Len(o) = k
      /\ r \in Seq(Seq(Comparable)) /\ Len(r) = n /\ n \in Nat
      /\ Ascending(cfg, o)
      /\ \A g \in 1..n : Ascending(cfg, r[g])
      /\ \A i \in 1..k : \A g \in 1..n : \A j \in 1..Len(r[g]) : UpTo(cfg, o[i], r[g][j])
      /\ \A A : HowMany(o, A) + HowMany(FlattenSeq(r), A) = HowMany(FlattenSeq(files), A)
  BY LenProperties DEF MergedSoFar
<1>2. MergeStep(cfg, s) = [out |-> p, rest |-> t] BY DEF MergeStep
<1> HIDE DEF o, r
<1>3. \A g \in 1..n : r[g] \in Seq(Comparable) /\ Len(r[g]) \in Nat
  BY <1>1, ElementOfSeq, LenProperties
<1>4. DOMAIN r = 1..n /\ DOMAIN o = 1..k BY <1>1, LenProperties
<1>5. PICK e \in 1..n : r[e] # <<>>
  <2> SUFFICES ASSUME \A g \in 1..n : r[g] = <<>> PROVE FALSE OBVIOUS
  <2> DEFINE a == FlattenSeq(r)
             b == FlattenSeq(files)
             C == Comparable
             z == <<>>
  <2>1. a = <<>> BY <1>1, <1>4, FlattenAllEmpty
  <2>2. b \in Seq(C) BY FlattenType
  <2>3. z \in Seq(C) /\ Len(z) = 0 BY EmptySeq
  <2> HIDE DEF b, z
  <2>4. In(o, C) = o /\ In(b, C) = b /\ In(z, C) = z
    BY <1>1, <2>2, <2>3, InAll
  <2>5. HowMany(o, C) = k /\ HowMany(z, C) = 0 /\ HowMany(b, C) = Len(b) /\ Len(b) \in Nat
    BY <1>1, <2>2, <2>3, <2>4, LenProperties DEF HowMany
  <2>6. HowMany(o, C) + HowMany(a, C) = HowMany(b, C) BY <1>1 DEF b
  <2>7. HowMany(a, C) = 0 BY <2>1, <2>5 DEF z
  <2>8. k < Len(b) BY DEF b
  <2> HIDE DEF C, a
  <2> QED BY <2>5, <2>6, <2>7, <2>8
<1>6. f \in 1..n /\ r[f] # <<>> /\ \A g \in DOMAIN r : r[g] # <<>> => UpTo(cfg, x, r[g][1])
  <2>1. LET m == LeastOf(cfg, r)
        IN  /\ m \in DOMAIN r /\ r[m] # <<>>
            /\ \A g \in DOMAIN r : r[g] # <<>> => UpTo(cfg, r[m][1], r[g][1])
    BY <1>1, <1>4, <1>5, LeastExists
  <2> QED BY <1>4, <2>1
<1> HIDE DEF f
<1>7. x \in Comparable /\ \A g \in 1..n : \A j \in 1..Len(r[g]) : UpTo(cfg, x, r[g][j])
  <2>1. /\ cfg \in SortConfig /\ r \in Seq(Seq(Comparable)) /\ f \in 1..Len(r)
        /\ \A g \in 1..Len(r) : Ascending(cfg, r[g])
        /\ r[f] # <<>> /\ \A g \in DOMAIN r : r[g] # <<>> => UpTo(cfg, r[f][1], r[g][1])
    BY <1>1, <1>6
  <2>2. /\ r[f][1] \in Comparable
        /\ \A g \in 1..Len(r) : \A j \in 1..Len(r[g]) : UpTo(cfg, r[f][1], r[g][j])
    BY ONLY <2>1, LeastOfAll
  <2> QED BY <1>1, <2>2
<1>8. /\ Tail(r[f]) \in Seq(Comparable) /\ Len(Tail(r[f])) = Len(r[f]) - 1
      /\ \A j \in 1..Len(Tail(r[f])) : Tail(r[f])[j] = r[f][j + 1]
  <2> DEFINE w == r[f]
  <2>1. w \in Seq(Comparable) /\ w # <<>> BY <1>3, <1>6
  <2> HIDE DEF w
  <2>2. /\ Tail(w) \in Seq(Comparable) /\ Len(Tail(w)) = Len(w) - 1
        /\ \A j \in 1..Len(Tail(w)) : Tail(w)[j] = w[j + 1]
    BY <2>1, TailIs
  <2> QED BY <2>2 DEF w
<1>9. /\ DOMAIN t = 1..n /\ t[f] = Tail(r[f]) /\ \A g \in 1..n : g # f => t[g] = r[g]
  BY <1>4, <1>6
<1>10. t \in Seq(Seq(Comparable)) /\ Len(t) = n
  <2>1. t = [g \in 1..n |-> t[g]] BY <1>4
  <2>2. \A g \in 1..n : t[g] \in Seq(Comparable) BY <1>3, <1>8, <1>9
  <2> HIDE DEF t
  <2> DEFINE C == Seq(Comparable)
  <2>3. \A g \in 1..n : t[g] \in C BY <2>2
  <2> HIDE DEF C
  <2>4. t \in Seq(C) /\ Len(t) = n
    BY ONLY <1>1, <2>1, <2>3, SeqOfFunction
  <2> QED BY <2>4 DEF C
<1> HIDE DEF t
<1>11. \A g \in 1..n : \A j \in 1..Len(t[g]) : \E i \in 1..Len(r[g]) : t[g][j] = r[g][i] /\ i \in {j, j + 1}
                                                                    /\ (g = f <=> i = j + 1)
  <2> SUFFICES ASSUME NEW g \in 1..n, NEW j \in 1..Len(t[g])
               PROVE  \E i \in 1..Len(r[g]) : t[g][j] = r[g][i] /\ i \in {j, j + 1} /\ (g = f <=> i = j + 1)
    OBVIOUS
  <2>1. CASE g = f
    <3> DEFINE w == r[f]
               u == Tail(r[f])
    <3>1. Len(w) \in Nat /\ Len(u) = Len(w) - 1 /\ t[g] = u /\ r[g] = w
          /\ \A i \in 1..Len(u) : u[i] = w[i + 1]
      BY <1>3, <1>6, <1>8, <1>9, <2>1
    <3> HIDE DEF w, u
    <3>2. j + 1 \in 1..Len(w) /\ u[j] = w[j + 1] BY <3>1
    <3> QED BY <2>1, <3>1, <3>2
  <2>2. CASE g # f
    <3>1. j \in 1..Len(r[g]) /\ t[g][j] = r[g][j] BY <1>9, <2>2
    <3>2. j # j + 1 BY <1>3, <3>1
    <3> QED BY <2>2, <3>1, <3>2
  <2> QED BY <2>1, <2>2
<1>12. \A g \in 1..n : Ascending(cfg, t[g])
  <2> SUFFICES ASSUME NEW g \in 1..n PROVE Ascending(cfg, t[g]) OBVIOUS
  <2>1. CASE g # f BY <1>1, <1>9, <2>1
  <2>2. CASE g = f
    <3> DEFINE w == r[g]
               u == t[g]
    <3>1. Ascending(cfg, w) /\ DOMAIN w = 1..Len(w) /\ Len(w) \in Nat
      BY <1>1, <1>3, LenProperties
    <3>2. Len(u) = Len(w) - 1 /\ DOMAIN u = 1..Len(u) /\ \A j \in 1..Len(u) : u[j] = w[j + 1]
      BY <1>8, <1>9, <2>2, LenProperties
    <3> HIDE DEF w, u
    <3>3. ASSUME NEW i \in DOMAIN u, NEW j \in DOMAIN u, i < j PROVE UpTo(cfg, u[i], u[j])
      <4>1. i + 1 \in DOMAIN w /\ j + 1 \in DOMAIN w /\ i + 1 < j + 1
        BY <3>1, <3>2, <3>3, SMTT(30)
      <4>2. u[i] = w[i + 1] /\ u[j] = w[j + 1] BY <3>2, <3>3
      <4> QED BY <3>1, <4>1, <4>2 DEF Ascending
    <3> QED BY <3>3 DEF Ascending, u
  <2> QED BY <2>1, <2>2
<1> HIDE DEF x
<1>13. /\ p \in Seq(Comparable) /\ Len(p) = k + 1
       /\ DOMAIN p = 1..k + 1 /\ p[k + 1] = x /\ \A i \in 1..k : p[i] = o[i]
  <2>1. p \in Seq(Comparable) /\ Len(p) = k + 1 /\ p[k + 1] = x /\ \A i \in 1..k : p[i] = o[i]
    BY <1>1, <1>7, AppendProperties
  <2> HIDE DEF p
  <2> QED BY <2>1, LenProperties
<1>14. \A i \in 1..k + 1 : \A g \in 1..n : \A j \in 1..Len(r[g]) : UpTo(cfg, p[i], r[g][j])
  <2> HIDE DEF p
  <2>1. \A i \in 1..k + 1 : i \in 1..k \/ i = k + 1 OBVIOUS
  <2> QED BY <1>1, <1>7, <1>13, <2>1
<1>15. \A i \in 1..k + 1 : \A g \in 1..n : \A j \in 1..Len(t[g]) : UpTo(cfg, p[i], t[g][j])
  <2> HIDE DEF p
  <2> QED BY <1>11, <1>14
<1>16. Ascending(cfg, p)
  <2> HIDE DEF p
  <2> SUFFICES ASSUME NEW i \in 1..k + 1, NEW j \in 1..k + 1, i < j PROVE UpTo(cfg, p[i], p[j])
    BY <1>13 DEF Ascending
  <2>1. CASE j \in 1..k
    <3>1. i \in 1..k BY <2>1
    <3> QED BY <1>1, <1>4, <1>13, <2>1, <3>1 DEF Ascending
  <2>2. CASE j = k + 1
    <3>1. i \in 1..k BY <2>2
    <3>2. 1 \in 1..Len(r[f])
      <4> DEFINE w == r[f]
      <4>1. w \in Seq(Comparable) /\ w # <<>> BY <1>3, <1>6
      <4> HIDE DEF w
      <4>2. Len(w) \in Nat /\ Len(w) >= 1 BY <4>1, TailIs
      <4>3. 1 \in 1..Len(w) BY <4>2
      <4> QED BY <4>3 DEF w
    <3>3. UpTo(cfg, o[i], r[f][1]) BY <1>1, <1>6, <3>1, <3>2
    <3> QED BY <1>13, <2>2, <3>1, <3>3 DEF x
  <2> QED BY <2>1, <2>2
<1>17. ASSUME NEW A PROVE HowMany(p, A) + HowMany(FlattenSeq(t), A) = HowMany(FlattenSeq(files), A)
  <2> DEFINE d == IF x \in A THEN 1 ELSE 0
             a == FlattenSeq(t)
             b == FlattenSeq(r)
  <2>1. HowMany(p, A) = HowMany(o, A) + d BY <1>1, <1>7, CountAppend
  <2>2. HowMany(b, A) = HowMany(a, A) + d
    <3>1. Takes(t, r, f) BY <1>1, <1>9, <1>10 DEF Takes
    <3>2. r \in Seq(Seq(Comparable)) /\ t \in Seq(Seq(Comparable)) /\ f \in 1..Len(r) /\ r[f] # <<>>
      BY <1>1, <1>6, <1>10
    <3>3. HowMany(FlattenSeq(r), A) = HowMany(FlattenSeq(t), A) + (IF r[f][1] \in A THEN 1 ELSE 0)
      BY ONLY <3>1, <3>2, CountTaken
    <3> QED BY <3>3 DEF x
  <2>3. HowMany(o, A) \in Nat /\ HowMany(a, A) \in Nat /\ HowMany(b, A) \in Nat
    <3>1. a \in Seq(Comparable) /\ b \in Seq(Comparable)
      BY <1>1, <1>10, FlattenType
    <3> HIDE DEF a, b
    <3> QED BY <1>1, <3>1, CountConcat
  <2>4. d \in Nat OBVIOUS
  <2>5. HowMany(o, A) + HowMany(b, A) = HowMany(FlattenSeq(files), A)
    BY <1>1
  <2> HIDE DEF a, b, p, d
  <2>6. HowMany(p, A) + HowMany(a, A) = HowMany(FlattenSeq(files), A)
    BY <2>1, <2>2, <2>3, <2>4, <2>5
  <2> QED BY <2>6 DEF a
<1> HIDE DEF p
<1>18. \A A : HowMany(p, A) + HowMany(FlattenSeq(t), A) = HowMany(FlattenSeq(files), A)
  BY <1>17
<1> DEFINE m == [out |-> p, rest |-> t]
<1>19. m.out = p /\ m.rest = t OBVIOUS
<1> HIDE DEF m
<1>20. MergedSoFar(cfg, files, m, k + 1)
  BY <1>10, <1>12, <1>13, <1>15, <1>16, <1>18, <1>19 DEF MergedSoFar
<1> QED BY <1>2, <1>20 DEF m

\* merge_sorted sorts what sorted files hold, and loses none of it.
LEMMA MergeSorts ==
    ASSUME NEW cfg \in SortConfig, NEW files \in Seq(Seq(Comparable)),
           \A g \in 1..Len(files) : Ascending(cfg, files[g])
    PROVE  /\ merge_sorted(cfg, files) \in Seq(Comparable)
           /\ Ascending(cfg, merge_sorted(cfg, files))
           /\ \A A : HowMany(merge_sorted(cfg, files), A) = HowMany(FlattenSeq(files), A)
<1> DEFINE all == FlattenSeq(files)
           n == Len(all)
           z == <<>>
           C == Comparable
<1>1. all \in Seq(C) /\ n \in Nat /\ z \in Seq(C) /\ Len(z) = 0
  <2>1. all \in Seq(C) /\ z \in Seq(C) /\ Len(z) = 0
    BY FlattenType, EmptySeq
  <2> HIDE DEF all, z
  <2> QED BY <2>1, LenProperties
<1>2. PICK h : Merging(h, cfg, files, n) /\ merge_sorted(cfg, files) = h[n].out
  <2>1. n = Len(FlattenSeq(files)) OBVIOUS
  <2> HIDE DEF n
  <2> QED BY <1>1, <2>1, MergeIs
<1> HIDE DEF n, z
<1>3. \A A : HowMany(z, A) = 0
  <2> TAKE A
  <2>1. In(z, A) = z
    <3>1. In(<<>>, A) = <<>>
      <4>1. z \in Seq(C) BY <1>1
      <4> QED BY <4>1, InNothing
    <3> QED BY <3>1 DEF z
  <2> QED BY <1>1, <2>1 DEF HowMany
<1> DEFINE T == {k \in Nat : k <= n => MergedSoFar(cfg, files, h[k], k)}
<1>4. 0 \in T
  <2> DEFINE s == [out |-> z, rest |-> files]
  <2>1. h[0] = s BY <1>1, <1>2 DEF Merging, z
  <2>2. s.out = z /\ s.rest = files OBVIOUS
  <2>3. Ascending(cfg, z) BY DEF Ascending, z
  <2>4. \A A : HowMany(all, A) \in Nat
    <3> TAKE A
    <3> HIDE DEF all
    <3> QED BY <1>1, CountConcat
  <2>5. \A A : HowMany(z, A) + HowMany(all, A) = HowMany(all, A)
    <3> HIDE DEF all
    <3> QED BY <1>3, <2>4
  <2> HIDE DEF s
  <2>6. MergedSoFar(cfg, files, s, 0)
    <3>1. /\ s.out \in Seq(Comparable) /\ Len(s.out) = 0 /\ Ascending(cfg, s.out)
          /\ s.rest \in Seq(Seq(Comparable)) /\ Len(s.rest) = Len(files)
      BY <1>1, <2>2, <2>3
    <3>2. \A g \in 1..Len(files) : Ascending(cfg, s.rest[g]) BY <2>2
    <3>3. \A i \in 1..0 : FALSE OBVIOUS
    <3>4. \A A : HowMany(s.out, A) + HowMany(FlattenSeq(s.rest), A) = HowMany(FlattenSeq(files), A)
      BY <2>2, <2>5
    <3> QED BY <3>1, <3>2, <3>3, <3>4 DEF MergedSoFar
  <2> QED BY <2>1, <2>6
<1>5. ASSUME NEW k \in Nat, k \in T PROVE k + 1 \in T
  <2> SUFFICES ASSUME k + 1 <= n PROVE MergedSoFar(cfg, files, h[k + 1], k + 1)
    OBVIOUS
  <2> DEFINE s == h[k]
             j == k + 1
  <2>1. MergedSoFar(cfg, files, s, k) /\ k < n /\ j \in 0..n /\ j # 0 /\ j - 1 = k
    BY <1>1, <1>5
  <2>2. h[j] = MergeStep(cfg, s)
    <3> HIDE DEF j
    <3> QED BY <1>2, <2>1 DEF Merging
  <2>3. k < Len(FlattenSeq(files)) BY <2>1 DEF n
  <2> HIDE DEF s
  <2>4. MergedSoFar(cfg, files, MergeStep(cfg, s), k + 1)
    BY <2>1, <2>3, MergeGoesOn
  <2> QED BY <2>2, <2>4
<1>6. Nat \subseteq T
  <2> HIDE DEF T
  <2> QED BY <1>4, <1>5, SetInduction
<1> DEFINE s == h[n]
           o == s.out
           a == FlattenSeq(s.rest)
<1>7. MergedSoFar(cfg, files, s, n)
  <2>1. n \in T
    <3> HIDE DEF T
    <3> QED BY <1>1, <1>6
  <2> QED BY <1>1, <2>1
<1>8. /\ o \in Seq(C) /\ Len(o) = n /\ Ascending(cfg, o) /\ s.rest \in Seq(Seq(Comparable))
      /\ \A A : HowMany(o, A) + HowMany(a, A) = HowMany(all, A)
  <2> HIDE DEF s
  <2> QED BY <1>7 DEF MergedSoFar
<1>9. a \in Seq(C) BY <1>8, FlattenType
<1> HIDE DEF s, o, a, all
<1>10. \A A : HowMany(o, A) \in Nat /\ HowMany(a, A) \in Nat
  BY <1>8, <1>9, CountConcat
<1>11. a = z
  <2> HIDE DEF C
  <2>1. In(o, C) = o /\ In(all, C) = all /\ In(a, C) = a
    BY <1>1, <1>8, <1>9, InAll
  <2>2. HowMany(o, C) = n /\ HowMany(all, C) = n /\ HowMany(a, C) = Len(a)
    BY <1>8, <2>1 DEF HowMany, n
  <2>3. Len(a) = 0
    <3>1. HowMany(o, C) + HowMany(a, C) = HowMany(all, C) BY <1>8
    <3>2. Len(a) \in Nat BY <1>9, LenProperties
    <3> QED BY <1>1, <2>2, <3>1, <3>2
  <2> QED BY <1>9, <2>3, EmptySeq DEF z
<1>12. \A A : HowMany(o, A) = HowMany(all, A)
  BY <1>3, <1>8, <1>10, <1>11
<1> QED BY <1>2, <1>8, <1>12 DEF all, o, s

\* Lines none of which comes before the one before it are sorted.
LEMMA NeighboursOrder ==
    ASSUME NEW cfg \in SortConfig, NEW s \in Seq(Comparable),
           \A i \in 2..Len(s) : ~Before(cfg, s[i], s[i - 1])
    PROVE  Ascending(cfg, s)
<1> DEFINE n == Len(s)
           T == {j \in Nat : j <= n => \A i \in 1..j : UpTo(cfg, s[i], s[j])}
<1>1. n \in Nat /\ DOMAIN s = 1..n /\ \A i \in 1..n : s[i] \in Comparable
  BY LenProperties, ElementOfSeq
<1>2. 0 \in T OBVIOUS
<1>3. ASSUME NEW j \in Nat, j \in T PROVE j + 1 \in T
  <2> DEFINE m == j + 1
  <2> SUFFICES ASSUME m <= n, NEW i \in 1..m PROVE UpTo(cfg, s[i], s[m])
    OBVIOUS
  <2>1. m \in 1..n /\ i \in 1..n /\ (i = m \/ i \in 1..j) /\ (i \in 1..j => j \in 1..n /\ m \in 2..n /\ m - 1 = j)
    BY <1>1
  <2> HIDE DEF m
  <2> DEFINE x == s[i]
             y == s[j]
             v == s[m]
  <2>2. CASE i = m
    <3>1. v \in Comparable BY <1>1, <2>1
    <3> HIDE DEF v
    <3>2. ~Before(cfg, v, v) BY <3>1, BeforeOrders
    <3> QED BY <2>2, <3>2 DEF UpTo, v
  <2>3. CASE i \in 1..j
    <3>1. x \in Comparable /\ y \in Comparable /\ v \in Comparable
      BY <1>1, <2>1, <2>3
    <3>2. ~Before(cfg, y, x) BY <1>1, <1>3, <2>1, <2>3 DEF UpTo
    <3>3. ~Before(cfg, v, y) BY <2>1, <2>3
    <3> HIDE DEF x, y, v
    <3>4. ~Before(cfg, y, x) /\ ~Before(cfg, v, y) => ~Before(cfg, v, x)
      BY <3>1, BeforeOrders
    <3> QED BY <3>2, <3>3, <3>4 DEF UpTo, x, v
  <2> QED BY <2>1, <2>2, <2>3
<1>4. Nat \subseteq T
  <2> HIDE DEF T
  <2> QED BY <1>2, <1>3, SetInduction
<1>5. \A i, j \in 1..n : i < j => UpTo(cfg, s[i], s[j]) BY <1>1, <1>4
<1> QED BY <1>1, <1>5 DEF Ascending

\* All elements of s are in A.
Within(s, A) == \A j \in 1..Len(s) : s[j] \in A

\* What two sequences in a row hold, each holds.
LEMMA WithinConcat ==
    ASSUME NEW S, NEW s \in Seq(S), NEW t \in Seq(S), NEW A, Within(s \o t, A)
    PROVE  Within(s, A) /\ Within(t, A)
<1> DEFINE c == s \o t
<1>1. /\ Len(s) \in Nat /\ Len(t) \in Nat /\ Len(c) = Len(s) + Len(t)
      /\ \A i \in 1..Len(s) : c[i] = s[i]
      /\ \A i \in 1..Len(t) : c[Len(s) + i] = t[i]
  OBVIOUS
<1>2. \A i \in 1..Len(c) : c[i] \in A BY DEF Within
<1> HIDE DEF c
<1> QED BY <1>1, <1>2 DEF Within

\* What all files together hold, each of them holds.
LEMMA FilesWithin ==
    ASSUME NEW S, NEW r \in Seq(Seq(S)), NEW A, Within(FlattenSeq(r), A), NEW g \in 1..Len(r)
    PROVE  Within(r[g], A)
<1> DEFINE n == Len(r)
<1>0. n \in Nat /\ n # 0 /\ r # <<>> /\ \A i \in 1..n : r[i] \in Seq(S)
  <2>1. n \in Nat /\ n # 0 BY LenProperties
  <2> QED BY <2>1, ElementOfSeq
<1>1. PICK f : Running(r, f) /\ FlattenSeq(r) = f[n] BY <1>0, FlattenIs
<1>2. \A i \in 1..n : f[i] \in Seq(S)
  <2> TAKE i \in 1..n
  <2>1. r \in Seq(Seq(S)) /\ Running(r, f) /\ i \in 1..Len(r) BY <1>1
  <2>2. CountsOn(S, f, r, A, i) BY ONLY <2>1, CountRunning
  <2> QED BY <2>2 DEF CountsOn
<1>3. \A i \in 1..n : f[i] = IF i = 1 THEN r[i] ELSE f[i - 1] \o r[i]
  BY <1>1 DEF Running
<1> DEFINE T == {m \in Nat : m + 1 <= n => (Within(f[m + 1], A) => \A i \in 1..m + 1 : Within(r[i], A))}
<1> HIDE DEF n
<1>4. 0 \in T
  <2>1. f[1] = r[1] BY <1>0, <1>3
  <2>2. \A i \in 1..0 + 1 : i = 1 OBVIOUS
  <2> QED BY <2>1, <2>2
<1>5. ASSUME NEW m \in Nat, m \in T PROVE m + 1 \in T
  <2> DEFINE j == m + 1
             k == j + 1
             u == f[j]
             w == r[k]
  <2> SUFFICES ASSUME k <= n, Within(f[k], A) PROVE \A i \in 1..k : Within(r[i], A)
    OBVIOUS
  <2>1. j \in 1..n /\ k \in 1..n /\ k # 1 /\ k - 1 = j /\ \A i \in 1..k : i \in 1..j \/ i = k
    BY <1>0
  <2> HIDE DEF k
  <2>2. u \in Seq(S) /\ w \in Seq(S) /\ f[k] = u \o w
    BY <1>0, <1>2, <1>3, <2>1
  <2> HIDE DEF w
  <2>3. Within(u, A) /\ Within(w, A)
    <3> HIDE DEF u
    <3>1. Within(u \o w, A) BY <2>2
    <3> QED BY <2>2, <3>1, WithinConcat
  <2>4. \A i \in 1..j : Within(r[i], A) BY <1>0, <1>5, <2>1, <2>3
  <2> HIDE DEF j
  <2> QED BY <2>1, <2>3, <2>4 DEF w
<1>6. Nat \subseteq T
  <2> HIDE DEF T
  <2> QED BY <1>4, <1>5, SetInduction
<1>7. Within(f[n], A) => \A i \in 1..n : Within(r[i], A)
  <2> DEFINE m == n - 1
  <2>1. m \in Nat /\ m + 1 = n BY <1>0
  <2>2. m \in T
    <3> HIDE DEF T, m
    <3> QED BY <1>6, <2>1
  <2>3. m + 1 <= n BY <1>0
  <2>4. Within(f[m + 1], A) => \A i \in 1..m + 1 : Within(r[i], A)
    BY <2>2, <2>3
  <2> HIDE DEF m, T
  <2> QED BY <2>1, <2>4
<1> QED BY <1>1, <1>7 DEF n

\* Files without NaN are files of lines that can be compared.
LEMMA NoNaN ==
    ASSUME NEW files \in Seq(Seq(Line)), \A l \in ToSet(FlattenSeq(files)) : l.general # NaN
    PROVE  /\ FlattenSeq(files) \in Seq(Comparable)
           /\ files \in Seq(Seq(Comparable))
<1> DEFINE all == FlattenSeq(files)
           L == Line
           C == Comparable
<1>1. all \in Seq(L) BY FlattenType
<1>2. Within(all, C)
  <2> SUFFICES ASSUME NEW j \in 1..Len(all) PROVE all[j] \in C
    BY DEF Within
  <2>1. j \in DOMAIN all
    <3> HIDE DEF all
    <3> QED BY <1>1, LenProperties
  <2>2. all[j] \in L
    <3> HIDE DEF all
    <3> QED BY <1>1, ElementOfSeq
  <2>3. all[j] \in ToSet(all) BY <2>1 DEF ToSet
  <2>4. all[j].general # NaN BY <2>3
  <2> HIDE DEF all
  <2> QED BY <2>2, <2>4 DEF Comparable
<1>3. ASSUME NEW s \in Seq(L), Within(s, C) PROVE s \in Seq(C)
  <2>1. Len(s) \in Nat /\ s = [j \in 1..Len(s) |-> s[j]]
    BY LenProperties
  <2>2. \A j \in 1..Len(s) : s[j] \in C BY <1>3 DEF Within
  <2> HIDE DEF C
  <2> QED BY ONLY <2>1, <2>2, SeqOfFunction
<1>4. all \in Seq(C)
  <2> HIDE DEF all, C, L
  <2> QED BY <1>1, <1>2, <1>3
<1>5. files \in Seq(Seq(C))
  <2>1. \A g \in 1..Len(files) : files[g] \in Seq(C)
    <3> TAKE g \in 1..Len(files)
    <3> DEFINE s == files[g]
    <3>1. s \in Seq(L) BY ElementOfSeq
    <3>2. Within(s, C)
      <4>1. files \in Seq(Seq(L)) /\ Within(FlattenSeq(files), C) /\ g \in 1..Len(files)
        BY <1>2
      <4> HIDE DEF L, C
      <4> QED BY ONLY <4>1, FilesWithin DEF s
    <3> HIDE DEF L, C, s
    <3>3. s \in Seq(C) BY <1>3, <3>1, <3>2
    <3> QED BY <3>3 DEF s
  <2> DEFINE D == Seq(C)
  <2>2. Len(files) \in Nat /\ files = [g \in 1..Len(files) |-> files[g]]
    BY LenProperties
  <2> HIDE DEF D
  <2>3. \A g \in 1..Len(files) : files[g] \in D BY <2>1 DEF D
  <2>4. files \in Seq(D) BY ONLY <2>2, <2>3, SeqOfFunction
  <2> QED BY <2>4 DEF D
<1> QED BY <1>4, <1>5

\* The lines that compare equal to r are those of its kin.
LEMMA GroupIs ==
    ASSUME NEW cfg \in SortConfig, NEW s \in Seq(Comparable), NEW r
    PROVE  Those(s, {k \in DOMAIN s : compare_records(cfg, s[k], r) = 0}) = In(s, Kin(cfg, r))
<1> DEFINE K == {k \in DOMAIN s : compare_records(cfg, s[k], r) = 0}
           M == {k \in DOMAIN s : s[k] \in Kin(cfg, r)}
<1>1. \A k \in DOMAIN s : k \in K <=> k \in M
  <2> TAKE k \in DOMAIN s
  <2>1. s[k] \in Comparable BY LenProperties, ElementOfSeq
  <2> QED BY <2>1 DEF Kin, Same
<1> HIDE DEF K, M
<1>2. Those(s, K) = Those(s, M) BY <1>1, ThoseAgree
<1> QED BY <1>2 DEF K, M, In

\* What sort prints is sorted and has of the lines that compare equal what it has to.
SortedRight(cfg, files, v) ==
    /\ v \in Seq(Comparable)
    /\ Ascending(cfg, v)
    /\ \A r \in ToSet(FlattenSeq(files)) :
         LET was == In(FlattenSeq(files), Kin(cfg, r))
             is  == In(v, Kin(cfg, r))
         IN  IF cfg.unique THEN Len(is) = 1 /\ (cfg.merge \/ is = First(was))
             ELSE IF cfg.merge THEN Len(is) = Len(was) ELSE is = was

\* sort prints that.
LEMMA SortPrints ==
    ASSUME NEW cfg \in SortConfig, NEW files \in Seq(Seq(Comparable)), ~cfg.check,
           cfg.merge => \A g \in 1..Len(files) : Ascending(cfg, files[g])
    PROVE  SortedRight(cfg, files, sort(cfg, files).out)
<1> DEFINE all == FlattenSeq(files)
           sorted == IF cfg.merge THEN merge_sorted(cfg, files) ELSE stable_sort(cfg, all)
           v == IF cfg.unique THEN Unique(cfg, sorted) ELSE sorted
           C == Comparable
<1>1. sort(cfg, files).out = v BY DEF sort
<1>2. all \in Seq(Comparable) BY FlattenType
<1> HIDE DEF all
<1>3. /\ sorted \in Seq(C) /\ Ascending(cfg, sorted)
      /\ cfg.merge => \A A : HowMany(sorted, A) = HowMany(all, A)
      /\ ~cfg.merge => \A q \in C : In(sorted, Kin(cfg, q)) = In(all, Kin(cfg, q))
  <2>1. CASE cfg.merge
    <3>1. sorted = merge_sorted(cfg, files) BY <2>1
    <3>2. /\ merge_sorted(cfg, files) \in Seq(Comparable)
          /\ Ascending(cfg, merge_sorted(cfg, files))
          /\ \A A : HowMany(merge_sorted(cfg, files), A) = HowMany(FlattenSeq(files), A)
      BY <2>1, MergeSorts
    <3> HIDE DEF sorted
    <3> QED BY <2>1, <3>1, <3>2 DEF all
  <2>2. CASE ~cfg.merge
    <3>1. sorted = stable_sort(cfg, all) BY <2>2
    <3> HIDE DEF sorted
    <3>2. sorted \in Seq(Comparable) /\ Ascending(cfg, sorted) /\ SameKin(cfg, sorted, all)
      BY <1>2, <3>1, StableSorts
    <3> QED BY <2>2, <3>2 DEF SameKin
  <2> QED BY <2>1, <2>2
<1> HIDE DEF sorted
<1>4. \A r \in ToSet(all) : r \in C /\ HowMany(all, Kin(cfg, r)) > 0 /\ In(all, Kin(cfg, r)) # <<>>
  <2> SUFFICES ASSUME NEW r \in ToSet(all)
               PROVE  r \in C /\ HowMany(all, Kin(cfg, r)) > 0 /\ In(all, Kin(cfg, r)) # <<>>
    OBVIOUS
  <2>1. PICK k \in 1..Len(all) : all[k] = r
    BY <1>2, LenProperties DEF ToSet
  <2>2. r \in C BY <1>2, <2>1, ElementOfSeq
  <2>3. r \in Kin(cfg, r) BY <2>2, KinFacts
  <2> DEFINE A == Kin(cfg, r)
  <2>4. all[k] \in A BY <2>1, <2>3
  <2> HIDE DEF A
  <2>5. HowMany(all, A) > 0 /\ In(all, A) # <<>> BY <1>2, <2>4, InSome
  <2> QED BY <2>2, <2>5 DEF A
<1>5. CASE ~cfg.unique
  <2>1. v = sorted BY <1>5
  <2>2. ASSUME NEW r \in ToSet(all)
        PROVE  IF cfg.merge THEN Len(In(sorted, Kin(cfg, r))) = Len(In(all, Kin(cfg, r)))
               ELSE In(sorted, Kin(cfg, r)) = In(all, Kin(cfg, r))
    <3>1. r \in C BY <1>4
    <3>2. cfg.merge => HowMany(sorted, Kin(cfg, r)) = HowMany(all, Kin(cfg, r))
      BY <1>3
    <3> QED BY <1>3, <3>1, <3>2 DEF HowMany
  <2> HIDE DEF v
  <2>3. SortedRight(cfg, files, v)
    BY <1>3, <1>5, <2>1, <2>2 DEF SortedRight, all
  <2> QED BY <1>1, <2>3
<1>6. CASE cfg.unique
  <2>1. v = Unique(cfg, sorted) BY <1>6
  <2> HIDE DEF v
  <2>2. /\ v \in Seq(Comparable) /\ Rising(cfg, v)
        /\ \A q \in Comparable : In(v, Kin(cfg, q)) = First(In(sorted, Kin(cfg, q)))
    <3> HIDE DEF C
    <3> QED BY <1>3, <2>1, UniqueKeepsFirst DEF C
  <2>3. Ascending(cfg, v)
    <3> SUFFICES ASSUME NEW i \in DOMAIN v, NEW j \in DOMAIN v, i < j PROVE UpTo(cfg, v[i], v[j])
      BY DEF Ascending
    <3> DEFINE x == v[i]
               y == v[j]
    <3>1. Before(cfg, x, y) BY <2>2 DEF Rising
    <3>2. x \in Comparable /\ y \in Comparable
      BY <2>2, LenProperties, ElementOfSeq
    <3> HIDE DEF x, y
    <3>3. Before(cfg, x, y) => ~Before(cfg, y, x) BY <3>2, BeforeOrders
    <3> QED BY <3>1, <3>3 DEF UpTo, x, y
  <2>4. ASSUME NEW r \in ToSet(all)
        PROVE  Len(In(v, Kin(cfg, r))) = 1 /\ (cfg.merge \/ In(v, Kin(cfg, r)) = First(In(all, Kin(cfg, r))))
    <3> DEFINE A == Kin(cfg, r)
               w == In(sorted, A)
    <3>1. r \in C /\ In(v, A) = First(w) BY <1>4, <2>2
    <3>2. w \in Seq(C)
      <4> HIDE DEF A, C
      <4> QED BY <1>3, InType DEF w
    <3>3. ~cfg.merge => w = In(all, A) BY <1>3, <3>1
    <3>4. w # <<>>
      <4>1. CASE cfg.merge
        <5>1. HowMany(sorted, A) > 0
          <6>1. HowMany(sorted, A) = HowMany(all, A) BY <1>3, <4>1
          <6>2. HowMany(all, A) > 0 BY <1>4
          <6> QED BY <6>1, <6>2
        <5>2. Len(w) > 0 BY <5>1 DEF HowMany
        <5> HIDE DEF w
        <5>3. Len(<<>>) = 0 OBVIOUS
        <5> QED BY <5>2, <5>3
      <4>2. CASE ~cfg.merge BY <1>4, <3>3, <4>2
      <4> QED BY <4>1, <4>2
    <3> HIDE DEF w
    <3>5. Len(First(w)) = 1 BY <3>1, <3>2, <3>4, FirstFacts
    <3> QED BY <3>1, <3>3, <3>5
  <2>5. SortedRight(cfg, files, v)
    BY <1>6, <2>2, <2>3, <2>4 DEF SortedRight, all
  <2> QED BY <1>1, <2>5
<1> QED BY <1>5, <1>6

\* -c accepts what sort leaves as it is.
LEMMA CheckIs ==
    ASSUME NEW cfg \in SortConfig, NEW s \in Seq(Comparable), ~cfg.reverse
    PROVE  check(cfg, s) <=> sort([cfg EXCEPT !.check = FALSE, !.merge = FALSE], <<s>>).out = s
<1> DEFINE one == [cfg EXCEPT !.check = FALSE]
           c == [one EXCEPT !.merge = FALSE]
           d == [cfg EXCEPT !.check = FALSE, !.merge = FALSE]
           sorted == stable_sort(c, s)
           v == IF c.unique THEN Unique(c, sorted) ELSE sorted
           n == Len(s)
<1>1. d = c OBVIOUS
<1>2. one \in SortConfig BY DEF SortConfig
<1>3. c \in SortConfig
  <2> HIDE DEF one
  <2> QED BY <1>2 DEF SortConfig
<1>4. /\ ~c.check /\ ~c.merge /\ c.unique = cfg.unique /\ c.reverse = cfg.reverse
      /\ c.keys = cfg.keys /\ c.mode = cfg.mode /\ c.stable = cfg.stable /\ c.ignoreCase = cfg.ignoreCase
  BY DEF SortConfig
<1>5. \A x, y : compare_records(c, x, y) = compare_records(cfg, x, y)
  <2> HIDE DEF c
  <2> QED BY <1>4 DEF compare_records
<1> HIDE DEF c, d, one
<1>6. \A x, y : Before(c, x, y) <=> Before(cfg, x, y)
  BY <1>4, <1>5 DEF Before
<1>7. FlattenSeq(<<s>>) = s
  <2> DEFINE t == <<s>>
  <2>1. t \in Seq(Seq(Comparable)) /\ t # <<>> /\ Len(t) = 1 /\ t[1] = s
    OBVIOUS
  <2> HIDE DEF t
  <2>2. PICK f : Running(t, f) /\ FlattenSeq(t) = f[Len(t)]
    BY <2>1, FlattenIs
  <2>3. f[1] = t[1] BY <2>1, <2>2 DEF Running
  <2> QED BY <2>1, <2>2, <2>3 DEF t
<1>8. sort(c, <<s>>).out = v BY <1>4, <1>7 DEF sort
<1>9. n \in Nat /\ DOMAIN s = 1..n /\ \A i \in 1..n : s[i] \in Comparable
  BY LenProperties, ElementOfSeq
<1>10. ASSUME NEW i \in 2..n
       PROVE  LET x == s[i - 1]
                  y == s[i]
                  r == compare_records(cfg, x, y)
              IN  /\ i - 1 \in 1..n /\ i \in 1..n /\ i - 1 < i
                  /\ r < 0 <=> Before(c, x, y)
                  /\ r = 0 <=> ~Before(c, x, y) /\ ~Before(c, y, x)
                  /\ Before(c, x, y) => ~Before(c, y, x)
                  /\ Same(c, x, y) <=> r = 0
                  /\ r < 0 => r # 0
  <2> DEFINE x == s[i - 1]
             y == s[i]
             r == compare_records(cfg, x, y)
  <2>1. i - 1 \in 1..n /\ i \in 1..n /\ i - 1 < i BY <1>9
  <2>2. x \in Comparable /\ y \in Comparable BY <1>9, <2>1
  <2> HIDE DEF x, y
  <2>3. /\ Before(c, x, y) => ~Before(c, y, x)
        /\ compare_records(c, x, y) = 0 <=> ~Before(c, x, y) /\ ~Before(c, y, x)
    BY <1>3, <2>2, BeforeOrders
  <2>4. r < 0 <=> Before(c, x, y) BY <1>6 DEF Before, Turned
  <2>5. Same(c, x, y) <=> r = 0 BY <1>5 DEF Same
  <2> QED BY <1>5, <2>1, <2>3, <2>4, <2>5 DEF x, y
<1>11. check(cfg, s) <=>
         \A i \in 2..n :
           \/ Before(c, s[i - 1], s[i])
           \/ ~Before(c, s[i - 1], s[i]) /\ ~Before(c, s[i], s[i - 1]) /\ ~c.unique
  <2>1. check(cfg, s) <=>
          \A i \in 2..n :
            \/ compare_records(cfg, s[i - 1], s[i]) < 0
            \/ compare_records(cfg, s[i - 1], s[i]) = 0 /\ ~cfg.unique
    BY DEF check
  <2> QED BY <1>4, <1>10, <2>1
<1>12. ASSUME check(cfg, s) PROVE v = s
  <2>1. \A i \in 2..n : ~Before(c, s[i], s[i - 1])
    BY <1>10, <1>11, <1>12
  <2>2. Ascending(c, s) BY <1>3, <2>1, NeighboursOrder
  <2>3. sorted = s BY <1>3, <2>2, StableStays
  <2>4. CASE c.unique
    <3>1. \A i \in 2..Len(s) : ~Same(c, s[i - 1], s[i])
      BY <1>10, <1>11, <1>12, <2>4
    <3>2. Unique(c, s) = s BY <1>3, <3>1, UniqueStays
    <3> QED BY <2>3, <2>4, <3>2
  <2>5. CASE ~c.unique BY <2>3, <2>5
  <2> QED BY <2>4, <2>5
<1>13. ASSUME v = s PROVE check(cfg, s)
  <2>1. sorted \in Seq(Comparable) /\ Ascending(c, sorted)
    BY <1>3, StableSorts
  <2> HIDE DEF sorted
  <2>2. CASE c.unique
    <3>1. Rising(c, s) BY <1>3, <1>13, <2>1, <2>2, UniqueKeepsFirst
    <3>2. \A i \in 2..n : Before(c, s[i - 1], s[i])
      BY <1>9, <1>10, <3>1 DEF Rising
    <3> QED BY <1>11, <3>2
  <2>3. CASE ~c.unique
    <3>1. Ascending(c, s) BY <1>13, <2>1, <2>3
    <3>2. \A i \in 2..n : ~Before(c, s[i], s[i - 1])
      BY <1>9, <1>10, <3>1 DEF Ascending, UpTo
    <3> QED BY <1>11, <2>3, <3>2
  <2> QED BY <2>2, <2>3
<1> QED BY <1>1, <1>8, <1>12, <1>13 DEF d

\* What a run of sort is about to print or has printed.
SortRun ==
    cmd = "sort" =>
      /\ task \in TasksOf("sort")
      /\ done => out = sort(task.cfg, task.files)

\* A run of sort prints what sort makes of the task's files.
LEMMA SortRunHolds == FilterSpec => []SortRun
<1>1. Begin(LineCommands) => SortRun BY DEF Begin, SortRun, TasksOf
<1>2. SortRun /\ [FilterNext]_filterVars => SortRun'
  <2> SUFFICES ASSUME SortRun, [FilterNext]_filterVars, cmd' = "sort"
               PROVE  SortRun'
    BY DEF SortRun
  <2>1. CASE UNCHANGED filterVars BY <2>1 DEF SortRun, filterVars
  <2>2. CASE RunSort BY <2>2 DEF SortRun, RunSort, Run
  <2>3. CASE FilterNext /\ ~RunSort
    BY <2>3 DEF FilterNext, RunComm, RunUniq, RunJoin, RunGrep, RunDiff, RunSplit, RunCsplit, RunCut,
         RunOptions, RunHead, RunGlob, Run
  <2> QED BY <2>1, <2>2, <2>3
<1> QED BY <1>1, <1>2, PTL DEF FilterSpec

\* sort's comparison orders whatever lines it reads, what it prints is sorted and
\* holds what it has to, and -c accepts exactly what it leaves as it is.
THEOREM SortIsSoundAlways == FilterSpec => []SortIsSound
<1>1. SortRun => SortIsSound
  <2> SUFFICES ASSUME SortRun, done, cmd = "sort" PROVE SortIsSound
    BY DEF SortIsSound, SortComparesSoundly, SortSorts, CheckAgrees, Ran
  <2> DEFINE cfg == task.cfg
             files == task.files
             all == FlattenSeq(files)
             v == sort(cfg, files)
  <2>1. cfg \in SortConfig /\ files \in Seq(Seq(Line)) /\ out = v
    BY SortReadsLines DEF SortRun
  <2> HIDE DEF cfg, files, v
  <2>2. ASSUME \A l \in ToSet(all) : l.general # NaN
        PROVE  all \in Seq(Comparable) /\ files \in Seq(Seq(Comparable))
    BY <2>1, <2>2, NoNaN
  <2>3. SortComparesSoundly
    <3>1. ASSUME \A l \in ToSet(all) : l.general # NaN PROVE WeakOrder(cfg, ToSet(all))
      <4>1. all \in Seq(Comparable) BY <2>2, <3>1
      <4> HIDE DEF all
      <4> DEFINE L == ToSet(all)
      <4>2. L \subseteq Comparable
        BY <4>1, LenProperties, ElementOfSeq DEF ToSet
      <4> HIDE DEF L
      <4>3. WeakOrder(cfg, L) BY <2>1, <4>2, WeakOrderHolds
      <4> QED BY <4>3 DEF L
    <3> QED BY <3>1 DEF SortComparesSoundly, cfg, files
  <2>4. SortSorts
    <3> DEFINE group(s, r) == Those(s, {k \in DOMAIN s : compare_records(cfg, s[k], r) = 0})
    <3> SUFFICES
          ASSUME ~cfg.check,
                 cfg.merge => \A f \in ToSet(files) : \A i \in 2..Len(f) : ~Before(cfg, f[i], f[i - 1]),
                 \A l \in ToSet(all) : l.general # NaN
          PROVE  /\ \A i, j \in DOMAIN v.out : i < j => ~Before(cfg, v.out[j], v.out[i])
                 /\ \A r \in ToSet(all) :
                      LET was == group(all, r)
                          is  == group(v.out, r)
                      IN  IF cfg.unique THEN Len(is) = 1 /\ (cfg.merge \/ is = SubSeq(was, 1, 1))
                          ELSE IF cfg.merge THEN Len(is) = Len(was) ELSE is = was
      BY <2>1 DEF SortSorts, cfg, files
    <3>1. all \in Seq(Comparable) /\ files \in Seq(Seq(Comparable))
      BY <2>2
    <3>2. ASSUME cfg.merge, NEW g \in 1..Len(files) PROVE Ascending(cfg, files[g])
      <4> DEFINE f == files[g]
      <4>1. f \in ToSet(files) BY <3>1, LenProperties DEF ToSet
      <4>2. \A i \in 2..Len(f) : ~Before(cfg, f[i], f[i - 1])
        BY <3>2, <4>1
      <4>3. f \in Seq(Comparable) BY <3>1, ElementOfSeq
      <4> HIDE DEF f
      <4>4. Ascending(cfg, f) BY <2>1, <4>2, <4>3, NeighboursOrder
      <4> QED BY <4>4 DEF f
    <3> HIDE DEF all
    <3>3. SortedRight(cfg, files, v.out)
      <4>1. cfg.merge => \A g \in 1..Len(files) : Ascending(cfg, files[g])
        BY <3>2
      <4>2. SortedRight(cfg, files, sort(cfg, files).out)
        BY <2>1, <3>1, <4>1, SortPrints
      <4> QED BY <4>2 DEF v
    <3> DEFINE o == v.out
    <3>4. /\ o \in Seq(Comparable) /\ Ascending(cfg, o)
          /\ \A r \in ToSet(all) :
               LET was == In(all, Kin(cfg, r))
                   is  == In(o, Kin(cfg, r))
               IN  IF cfg.unique THEN Len(is) = 1 /\ (cfg.merge \/ is = First(was))
                   ELSE IF cfg.merge THEN Len(is) = Len(was) ELSE is = was
      BY <3>3 DEF SortedRight, all
    <3> HIDE DEF o
    <3>5. \A r : group(all, r) = In(all, Kin(cfg, r)) /\ group(o, r) = In(o, Kin(cfg, r))
      BY <2>1, <3>1, <3>4, GroupIs
    <3>6. \A i, j \in DOMAIN o : i < j => ~Before(cfg, o[j], o[i])
      BY <3>4 DEF Ascending, UpTo
    <3> HIDE DEF group
    <3> QED BY <3>4, <3>5, <3>6 DEF First, o
  <2>5. CheckAgrees
    <3> SUFFICES
          ASSUME cfg.check, ~cfg.reverse, \A l \in ToSet(all) : l.general # NaN
          PROVE  v.status = 0 <=> sort([cfg EXCEPT !.check = FALSE, !.merge = FALSE], <<all>>).out = all
      BY <2>1 DEF CheckAgrees, cfg, files
    <3>1. all \in Seq(Comparable) BY <2>2
    <3>2. v.status = 0 <=> check(cfg, all) BY DEF v, sort
    <3> HIDE DEF all
    <3> QED BY <2>1, <3>1, <3>2, CheckIs
  <2> QED BY <2>3, <2>4, <2>5 DEF SortIsSound
<1> QED BY <1>1, SortRunHolds, PTL

------------------------------------------------------------------------------
(***************************************************************************)
(* The runs of the other filters: what each of them works on is a task of  *)
(* the command, and what FilterFacts says of its functions is then so of   *)
(* what the run leaves behind.                                             *)
(***************************************************************************)
\* What a run of split, csplit or cut is about to make or has made.
PiecesRun ==
    /\ cmd = "split" => /\ task \in TasksOf("split")
                        /\ done => out = split(task.cfg, task.input)
    /\ cmd = "csplit" => /\ task \in TasksOf("csplit")
                         /\ done => out = csplit(task.cfg, task.input, task.pats)
    /\ cmd = "cut" => /\ task \in TasksOf("cut")
                      /\ done => out = cut(task.cfg, task.n)

\* It makes what the command makes of the task.
LEMMA PiecesRunHolds == FilterSpec => []PiecesRun
<1>1. Begin(LineCommands) => PiecesRun BY DEF Begin, PiecesRun, TasksOf
<1>2. PiecesRun /\ [FilterNext]_filterVars => PiecesRun'
  <2> SUFFICES ASSUME PiecesRun, [FilterNext]_filterVars
               PROVE  PiecesRun'
    OBVIOUS
  <2>1. CASE UNCHANGED filterVars BY <2>1 DEF PiecesRun, filterVars
  <2>2. CASE RunSplit BY <2>2 DEF PiecesRun, RunSplit, Run
  <2>3. CASE RunCsplit BY <2>3 DEF PiecesRun, RunCsplit, Run
  <2>4. CASE RunCut BY <2>4 DEF PiecesRun, RunCut, Run
  <2>5. CASE FilterNext /\ ~RunSplit /\ ~RunCsplit /\ ~RunCut
    BY <2>5 DEF PiecesRun, FilterNext, RunComm, RunUniq, RunJoin, RunGrep, RunDiff, RunSort,
         RunOptions, RunHead, RunGlob, Run
  <2> QED BY <2>1, <2>2, <2>3, <2>4, <2>5
<1> QED BY <1>1, <1>2, PTL DEF FilterSpec

\* split loses no line of an input while it does not run out of suffixes, csplit no
\* line but those it is told to suppress, and cut prints the positions its list names.
THEOREM PiecesCoverInputAlways == FilterSpec => []PiecesCoverInput
<1>1. PiecesRun => PiecesCoverInput
  <2> SUFFICES ASSUME PiecesRun PROVE PiecesCoverInput OBVIOUS
  <2>1. SplitLosesNothing
    <3> SUFFICES ASSUME done, cmd = "split", task.cfg.numeric \/ Len(out) <= Letters
                 PROVE  SplitRight(task.cfg, task.input, OnDisk(out))
      BY DEF SplitLosesNothing, SplitRight, Fits, Ran
    <3> DEFINE cfg == task.cfg
               input == task.input
               S == ToSet(input)
    <3>1. /\ input \in Seq(S) /\ cfg.size \in Nat \ {0} /\ cfg.length \in Nat \ {0}
          /\ out = split(cfg, input)
      BY SplitReadsLines DEF PiecesRun, IsSequence
    <3> HIDE DEF cfg, input, S
    <3>2. SplitRight(cfg, input, OnDisk(split(cfg, input)))
      <4>1. cfg.numeric \/ Len(split(cfg, input)) <= Letters
        BY <3>1 DEF cfg
      <4> QED BY <3>1, <4>1, SplitHolds
    <3> QED BY <3>1, <3>2 DEF cfg, input
  <2>2. CsplitCovers
    <3> SUFFICES ASSUME done, cmd = "csplit"
                 PROVE  CsplitRight(task.cfg, task.input, task.pats, out)
      BY DEF CsplitCovers, CsplitRight, Ran
    <3> DEFINE cfg == task.cfg
               input == task.input
               pats == task.pats
               S == ToSet(input)
               R == ToSet(pats)
    <3>1. /\ input \in Seq(S) /\ pats \in Seq(R) /\ \A p \in ToSet(pats) : IsPattern(p)
          /\ out = csplit(cfg, input, pats)
      BY CsplitReadsLines DEF PiecesRun, IsSequence
    <3> HIDE DEF cfg, input, pats, S, R
    <3>2. CsplitRight(cfg, input, pats, csplit(cfg, input, pats))
      BY <3>1, CsplitHolds
    <3> QED BY <3>1, <3>2 DEF cfg, input, pats
  <2>3. CutSelects
    <3> SUFFICES ASSUME done, cmd = "cut"
                 PROVE  CutRight(task.cfg, task.n, out)
      BY DEF CutSelects, CutRight, Ran
    <3> DEFINE cfg == task.cfg
               n == task.n
    <3>1. /\ cfg.ranges \in Seq([first : Nat \ {0}, last : Nat])
          /\ \A k \in DOMAIN cfg.ranges : cfg.ranges[k].first <= cfg.ranges[k].last
          /\ cfg.complement \in BOOLEAN /\ n \in 0..IntMax - 1
          /\ out = cut(cfg, n)
      BY CutReadsRecords DEF PiecesRun
    <3> HIDE DEF cfg, n
    <3>2. CutRight(cfg, n, cut(cfg, n)) BY <3>1, CutHolds
    <3> QED BY <3>1, <3>2 DEF cfg, n
  <2> QED BY <2>1, <2>2, <2>3 DEF PiecesCoverInput
<1> QED BY <1>1, PiecesRunHolds, PTL

\* A command that chooses lines runs on one of its tasks, and when it has ended it has
\* printed what it makes of it.
LinesRun ==
    /\ cmd = "comm" => /\ task \in TasksOf("comm")
                       /\ done => out = comm(task.cfg, task.a, task.b)
    /\ cmd = "uniq" => task \in TasksOf("uniq")
    /\ cmd = "join" => /\ task \in TasksOf("join")
                       /\ done => out = join(task.cfg, task.a, task.b)
    /\ cmd = "grep" => /\ task \in TasksOf("grep")
                       /\ done => out = grep(task.cfg, task.files)

\* It prints what the command makes of the task.
LEMMA LinesRunHolds == FilterSpec => []LinesRun
<1>1. Begin(LineCommands) => LinesRun BY DEF Begin, LinesRun, TasksOf
<1>2. LinesRun /\ [FilterNext]_filterVars => LinesRun'
  <2> SUFFICES ASSUME LinesRun, [FilterNext]_filterVars
               PROVE  LinesRun'
    OBVIOUS
  <2>1. CASE UNCHANGED filterVars BY <2>1 DEF LinesRun, filterVars
  <2>2. CASE RunComm BY <2>2 DEF LinesRun, RunComm, Run
  <2>3. CASE RunUniq BY <2>3 DEF LinesRun, RunUniq, Run
  <2>4. CASE RunJoin BY <2>4 DEF LinesRun, RunJoin, Run
  <2>5. CASE RunGrep BY <2>5 DEF LinesRun, RunGrep, Run
  <2>6. CASE FilterNext /\ ~RunComm /\ ~RunUniq /\ ~RunJoin /\ ~RunGrep
    BY <2>6 DEF LinesRun, FilterNext, RunSort, RunSplit, RunCsplit, RunCut, RunDiff,
         RunOptions, RunHead, RunGlob, Run
  <2> QED BY <2>1, <2>2, <2>3, <2>4, <2>5, <2>6
<1> QED BY <1>1, <1>2, PTL DEF FilterSpec

\* A file of lines, each a sequence, is a sequence of sequences.
LEMMA LinesOfLines ==
    ASSUME NEW a, IsSequence(a), NEW S, \A line \in ToSet(a) : IsSequence(line) /\ ToSet(line) \subseteq S
    PROVE  a \in Seq(Seq(S))
<1>1. a \in Seq(ToSet(a)) BY DEF IsSequence
<1>2. ASSUME NEW line \in ToSet(a) PROVE line \in Seq(S)
  BY SeqMonotonic DEF IsSequence
<1> QED BY <1>1, <1>2, SeqMonotonic

\* comm, uniq, join and grep lose, double and invent no line that their options do not
\* tell them to.
THEOREM LinesAccountedForAlways == FilterSpec => []LinesAccountedFor
<1>1. LinesRun => LinesAccountedFor
  <2> SUFFICES ASSUME LinesRun PROVE LinesAccountedFor OBVIOUS
  <2>1. CommPartitions
    <3> SUFFICES ASSUME done, cmd = "comm"
                 PROVE  CommRight(task.cfg, task.a, task.b, out)
      BY DEF CommPartitions, CommRight, Ran
    <3> DEFINE cfg == task.cfg
               a == task.a
               b == task.b
    <3>1. /\ a \in Seq(Int) /\ b \in Seq(Int)
          /\ cfg.hide \subseteq 1..3 /\ cfg.checkOrder \in BOOLEAN
          /\ out = comm(cfg, a, b)
      BY CommReadsFiles DEF LinesRun
    <3> HIDE DEF cfg, a, b
    <3>2. CommRight(cfg, a, b, comm(cfg, a, b)) BY <3>1, CommHolds
    <3> QED BY <3>1, <3>2 DEF cfg, a, b
  <2>2. UniqSplits
    <3> SUFFICES ASSUME done, cmd = "uniq"
                 PROVE  UniqRight(task.records)
      BY DEF UniqSplits, UniqRight, Ran
    <3> DEFINE records == task.records
               S == ToSet(records)
    <3>1. records \in Seq(S) /\ \A i, j \in DOMAIN records : i # j => records[i] # records[j]
      BY UniqReadsRecords DEF LinesRun, IsSequence
    <3> HIDE DEF records, S
    <3>2. UniqRight(records) BY <3>1, UniqHolds
    <3> QED BY <3>2 DEF records
  <2>3. JoinIsRelational
    <3> SUFFICES ASSUME done, cmd = "join"
                 PROVE  JoinRight(task.cfg, task.a, task.b, out)
      BY DEF JoinIsRelational, JoinRight, JoinField, JoinFull, Ran
    <3> DEFINE cfg == task.cfg
               a == task.a
               b == task.b
               S == UNION {ToSet(line) : line \in ToSet(a) \cup ToSet(b)}
    <3>1. /\ IsSequence(a) /\ IsSequence(b)
          /\ \A line \in ToSet(a) \cup ToSet(b) : IsSequence(line)
          /\ cfg.field1 \in Nat /\ cfg.field2 \in Nat /\ cfg.only \subseteq {1, 2}
          /\ out = join(cfg, a, b)
      BY JoinReadsFiles DEF LinesRun
    <3> HIDE DEF cfg, a, b
    <3>2. \A line \in ToSet(a) \cup ToSet(b) : ToSet(line) \subseteq S
      OBVIOUS
    <3> HIDE DEF S
    <3>3. a \in Seq(Seq(S)) /\ b \in Seq(Seq(S))
      BY <3>1, <3>2, LinesOfLines
    <3>4. JoinRight(cfg, a, b, join(cfg, a, b)) BY <3>1, <3>3, JoinHolds
    <3> QED BY <3>1, <3>4 DEF cfg, a, b
  <2>4. GrepShowsContext
    <3> SUFFICES ASSUME done, cmd = "grep"
                 PROVE  GrepRight(task.cfg, task.files, out)
      BY DEF GrepShowsContext, GrepRight, FileShown, Numbers, HitsAt, HitsOf, Hits, FirstOf, Tidy, IsLine, Leaves, Ran
    <3> DEFINE cfg == task.cfg
               files == task.files
               S == ToSet(files)
    <3>1. files \in Seq(S) /\ (\A f \in S : IsFile(f)) /\ IsCommand(cfg) /\ out = grep(cfg, files)
      BY GrepReadsFiles DEF LinesRun, IsSequence, IsFile, IsCommand
    <3> HIDE DEF cfg, files, S
    <3>2. AreFiles(files)
      <4>1. DOMAIN files = 1..Len(files) /\ \A k \in 1..Len(files) : files[k] \in S
        BY <3>1, LenProperties, ElementOfSeq
      <4> QED BY <3>1, <4>1 DEF AreFiles
    <3>3. GrepRight(cfg, files, grep(cfg, files))
      BY <3>1, <3>2, GrepHolds
    <3> QED BY <3>1, <3>3 DEF cfg, files
  <2> QED BY <2>1, <2>2, <2>3, <2>4 DEF LinesAccountedFor
<1> QED BY <1>1, LinesRunHolds, PTL

------------------------------------------------------------------------------
(***************************************************************************)
(* What the parser and the dispatcher make of a command line is what is    *)
(* written there.  Find, Valued, Cluster and Option are read on their own; *)
(* parse_command goes from argument to argument, so that what it returns   *)
(* from a place on agrees with the roles the arguments have from there on, *)
(* which is shown from the end of the line to its beginning.               *)
(***************************************************************************)

\* The options of a command have names over S.
OptionTable(metas, S) ==
    /\ DOMAIN metas = 1..Len(metas) /\ Len(metas) \in Nat
    /\ \A k \in DOMAIN metas :
         metas[k].short \in Seq(S) /\ metas[k].long \in Seq(S) /\ metas[k].type \in Types

\* The first of some places.
LEMMA ForemostIs ==
    ASSUME NEW A, A \subseteq Nat, NEW k \in A, \A l \in A : k <= l
    PROVE  Foremost(A) = {k}
<1>1. \A x \in Foremost(A) : x = k
  <2>1. ASSUME NEW x \in Foremost(A) PROVE x = k
    <3>1. x \in A /\ x <= k BY DEF Foremost
    <3>2. x \in Nat /\ k \in Nat /\ k <= x BY <3>1
    <3> QED BY <3>1, <3>2
  <2> QED BY <2>1
<1>2. k \in Foremost(A) BY DEF Foremost
<1> QED BY <1>1, <1>2

\* k is the first of A, or 0 when there is none.
FirstIn(k, A) ==
    \/ A = {} /\ k = 0 /\ Foremost(A) = {}
    \/ k \in A /\ k # 0 /\ Foremost(A) = {k}

\* Find gives the foremost entry of that name, or none.
LEMMA FindIs ==
    ASSUME NEW entries, NEW name, name # <<>>, DOMAIN entries \subseteq Nat \ {0}
    PROVE  FirstIn(Find(entries, name), {k \in DOMAIN entries : entries[k] = name})
<1> DEFINE A == {k \in DOMAIN entries : entries[k] = name}
           f == Find(entries, name)
<1>1. A \subseteq Nat \ {0} OBVIOUS
<1>2. f = IF A = {} \/ name = <<>> THEN 0 ELSE CHOOSE k \in A : \A l \in A : k <= l
  BY DEF Find
<1> HIDE DEF A, f
<1>3. CASE A = {}
  <2>1. Foremost(A) = {} BY <1>3 DEF Foremost
  <2> QED BY <1>2, <1>3, <2>1 DEF FirstIn, A, f
<1>4. CASE A # {}
  <2>1. A \subseteq Nat BY <1>1
  <2>2. \E k \in A : \A l \in A : k <= l BY <1>4, <2>1, LeastNat
  <2>3. f \in A /\ \A l \in A : f <= l BY <1>2, <1>4, <2>2
  <2>4. Foremost(A) = {f} BY <2>1, <2>3, ForemostIs
  <2>5. f # 0 BY <1>1, <2>3
  <2> QED BY <2>3, <2>4, <2>5 DEF FirstIn, A, f
<1> QED BY <1>3, <1>4

\* The option a character names, as the parser finds it.
LEMMA FlagIs ==
    ASSUME NEW metas, NEW S, OptionTable(metas, S), NEW c, NEW k, k = Find(ShortNames(metas), <<"-", c>>)
    PROVE  IF k = 0 THEN Flag(metas, c) = {}
           ELSE /\ k \in DOMAIN metas /\ metas[k].short = <<"-", c>>
                /\ Flag(metas, c) = {k}
<1> DEFINE entries == ShortNames(metas)
           A == {l \in DOMAIN entries : entries[l] = <<"-", c>>}
           B == {l \in DOMAIN metas : metas[l].short = <<"-", c>>}
<1>1. /\ DOMAIN entries = DOMAIN metas /\ DOMAIN entries \subseteq Nat \ {0}
      /\ \A l \in DOMAIN metas : entries[l] = metas[l].short
  BY DEF ShortNames, OptionTable
<1>2. <<"-", c>> # <<>> OBVIOUS
<1>3. FirstIn(k, A)
  <2> HIDE DEF entries
  <2>1. FirstIn(Find(entries, <<"-", c>>), {l \in DOMAIN entries : entries[l] = <<"-", c>>})
    BY <1>1, <1>2, FindIs
  <2> QED BY <2>1 DEF entries
<1>4. A = B BY <1>1
<1>5. Flag(metas, c) = Foremost(B) BY DEF Flag
<1>6. k \in B => k \in DOMAIN metas /\ metas[k].short = <<"-", c>>
  OBVIOUS
<1> HIDE DEF A, B
<1> QED BY <1>3, <1>4, <1>5, <1>6 DEF FirstIn

\* An option's argument begins with a dash; its name is not empty.
LEMMA NameIs ==
    ASSUME NEW S, NEW a \in Seq(S), LongArg(a) \/ ShortArg(a)
    PROVE  /\ Len(a) \in Nat /\ Len(a) >= 2 /\ a # <<>> /\ (LongArg(a) => ~ShortArg(a))
           /\ NameOf(a) \in Seq(S) /\ NameOf(a) # <<>> /\ ValueOf(a) \in Seq(S)
           /\ Equals(a) = {} => NameOf(a) = a /\ ValueOf(a) = <<>>
<1>1. Len(a) \in Nat /\ Len(a) >= 2 /\ a # <<>> /\ a[1] = "-" /\ DOMAIN a = 1..Len(a) /\ (LongArg(a) => ~ShortArg(a))
  BY DEF LongArg, ShortArg
<1>2. CASE Equals(a) = {} BY <1>1, <1>2 DEF NameOf, ValueOf
<1>3. CASE Equals(a) # {}
  <2>1. Equals(a) \subseteq Nat /\ Equals(a) \subseteq 2..Len(a)
    <3>1. 1 \notin Equals(a) BY <1>1 DEF Equals
    <3> QED BY <1>1, <3>1 DEF Equals
  <2>2. FirstEq(a) \in Equals(a) BY <1>3, <2>1, LeastNat DEF FirstEq
  <2> DEFINE e == FirstEq(a)
  <2>3. e \in 2..Len(a) BY <2>1, <2>2
  <2> HIDE DEF e
  <2>4. /\ SubSeq(a, 1, e - 1) \in Seq(S) /\ Len(SubSeq(a, 1, e - 1)) = e - 1
        /\ SubSeq(a, e + 1, Len(a)) \in Seq(S)
    BY <1>1, <2>3, SubSeqProperties
  <2>5. SubSeq(a, 1, e - 1) # <<>> BY <2>3, <2>4
  <2> QED BY <1>1, <1>3, <2>4, <2>5 DEF NameOf, ValueOf, e
<1> QED BY <1>1, <1>2, <1>3

------------------------------------------------------------------------------
\* What an option with a value of its own or without one takes.
Needs(metas, k, value) == value = <<>> /\ metas[k].type \in {"Int", "String"}
Numeric(metas, k) == metas[k].type \in {"Int", "OptionalInt"}

LEMMA ValuedIs ==
    ASSUME NEW metas, NEW k, metas[k].type \in Types \ {"TerminatedString"},
           NEW has, NEW value, NEW args, NEW i \in Nat
    PROVE  LET o == Valued(metas, k, has, value, args, i)
           IN  IF o.ok
               THEN /\ o.next = IF Needs(metas, k, value) THEN i + 2 ELSE i + 1
                    /\ Needs(metas, k, value) => i # Len(args) /\ o.set = <<[opt |-> k, value |-> args[i + 1]]>>
               ELSE (Needs(metas, k, value) /\ i = Len(args)) \/ Numeric(metas, k)
<1> DEFINE o == Valued(metas, k, has, value, args, i)
           type == metas[k].type
<1>1. type \in {"Bool", "Int", "String", "OptionalInt", "OptionalString"}
  BY DEF Types
<1>2. CASE type = "Bool"
  <2>1. o = Occurrence(k, <<>>, i + 1) BY <1>2 DEF Valued
  <2> QED BY <1>2, <2>1 DEF Needs, Occurrence
<1>3. CASE type \in {"Int", "String"}
  <2>1. type # "Bool" BY <1>3
  <2>2. CASE value # <<>>
    <3>1. o = Checked(metas, k, value, i + 1)
      BY <1>3, <2>1, <2>2 DEF Valued
    <3> QED BY <2>2, <3>1 DEF Needs, Checked, Occurrence, NoOccurrence, Numeric
  <2>3. CASE value = <<>> /\ i = Len(args)
    <3>1. o = NoOccurrence(i) BY <1>3, <2>1, <2>3 DEF Valued
    <3> QED BY <1>3, <2>3, <3>1 DEF Needs, NoOccurrence
  <2>4. CASE value = <<>> /\ i # Len(args)
    <3>1. o = Checked(metas, k, args[i + 1], i + 2)
      BY <1>3, <2>1, <2>4 DEF Valued
    <3> QED
      BY <1>3, <2>4, <3>1 DEF Needs, Checked, Occurrence, NoOccurrence, Numeric
  <2> QED BY <2>2, <2>3, <2>4
<1>4. CASE type \in {"OptionalInt", "OptionalString"}
  <2>1. type \notin {"Bool", "Int", "String"} BY <1>4
  <2>2. o = IF has THEN Checked(metas, k, value, i + 1)
            ELSE Occurrence(k, IF type = "OptionalInt" THEN <<"-", "1">> ELSE <<>>, i + 1)
    BY <1>4, <2>1 DEF Valued
  <2> QED BY <2>1, <2>2 DEF Needs, Checked, Occurrence, NoOccurrence, Numeric
<1> HIDE DEF o
<1> QED BY <1>1, <1>2, <1>3, <1>4 DEF o

\* The values options may have, and what an option may come to.
ValuesOf(args, S) ==
    Seq(S \cup {"-", "1"}) \cup {take_terminated_string(args, i) : i \in DOMAIN args}
Occurrences(args, S) == [opt : Nat, value : ValuesOf(args, S)]
TakenOf(args, S) == [ok : BOOLEAN, set : Seq(Occurrences(args, S)), next : Nat]

\* It goes on behind the option.
GoesOn(o, args, S, i) == o \in TakenOf(args, S) /\ (o.ok => o.next \in i + 1..Len(args) + 1)

\* An option that is refused, and one that is taken.
LEMMA NoneTaken ==
    ASSUME NEW S, NEW args, NEW i, NEW next \in Nat
    PROVE  GoesOn(NoOccurrence(next), args, S, i)
BY DEF NoOccurrence, TakenOf, GoesOn

LEMMA OneTaken ==
    ASSUME NEW S, NEW args, NEW i, NEW next \in i + 1..Len(args) + 1, next \in Nat,
           NEW k \in Nat, NEW value \in ValuesOf(args, S)
    PROVE  GoesOn(Occurrence(k, value, next), args, S, i)
<1>1. [opt |-> k, value |-> value] \in Occurrences(args, S)
  BY DEF Occurrences
<1>2. <<[opt |-> k, value |-> value]>> \in Seq(Occurrences(args, S))
  <2> HIDE DEF Occurrences
  <2> QED BY <1>1
<1>3. Occurrence(k, value, next) \in TakenOf(args, S) /\ Occurrence(k, value, next).next = next
  BY <1>2 DEF Occurrence, TakenOf
<1> QED BY <1>3 DEF GoesOn

LEMMA TerminatedEndIs ==
    ASSUME NEW args, Len(args) \in Nat, NEW i \in 1..Len(args)
    PROVE  TerminatedEnd(args, i) \in i..Len(args)
<1> DEFINE A == Terminators(args, i)
<1>1. A \subseteq Nat /\ A \subseteq i..Len(args)
  <2>1. A \subseteq i + 1..Len(args) BY DEF Terminators
  <2>2. i + 1..Len(args) \subseteq Nat /\ i + 1..Len(args) \subseteq i..Len(args)
    OBVIOUS
  <2> HIDE DEF A
  <2> QED BY <2>1, <2>2
<1>2. TerminatedEnd(args, i) = IF A = {} THEN Len(args) ELSE CHOOSE j \in A : \A l \in A : j <= l
  BY DEF TerminatedEnd
<1> HIDE DEF A
<1>3. A # {} => \E j \in A : \A l \in A : j <= l BY <1>1, LeastNat
<1>4. A # {} => TerminatedEnd(args, i) \in A BY <1>2, <1>3
<1>5. Len(args) \in i..Len(args) OBVIOUS
<1> QED BY <1>1, <1>2, <1>4, <1>5

\* Behind a place that is not the last there is another.
LEMMA NotLast ==
    ASSUME NEW n \in Nat, NEW i \in 1..n
    PROVE  i # n => i + 1 \in 1..n /\ i + 2 \in i + 1..n + 1
OBVIOUS

LEMMA ValuedGoesOn ==
    ASSUME NEW S, NEW metas, OptionTable(metas, S), NEW k \in DOMAIN metas,
           NEW has, NEW value \in Seq(S), NEW args \in Seq(Seq(S)), NEW i \in 1..Len(args)
    PROVE  GoesOn(Valued(metas, k, has, value, args, i), args, S, i)
<1> DEFINE o == Valued(metas, k, has, value, args, i)
           type == metas[k].type
           V == ValuesOf(args, S)
<1>1. /\ k \in Nat /\ type \in Types /\ DOMAIN args = 1..Len(args) /\ Len(args) \in Nat
      /\ \A j \in DOMAIN args : args[j] \in Seq(S)
  BY ElementOfSeq DEF OptionTable
<1>2. /\ value \in V /\ <<>> \in V /\ <<"-", "1">> \in V /\ take_terminated_string(args, i) \in V
      /\ \A j \in DOMAIN args : args[j] \in V
  <2>1. Seq(S) \subseteq Seq(S \cup {"-", "1"}) BY SeqMonotonic
  <2>2. <<"-", "1">> \in Seq(S \cup {"-", "1"}) /\ <<>> \in Seq(S \cup {"-", "1"})
    OBVIOUS
  <2> QED BY <1>1, <2>1, <2>2 DEF ValuesOf
<1> HIDE DEF V
<1>3. ASSUME NEW w \in V, NEW next \in i + 1..Len(args) + 1
      PROVE  GoesOn(Occurrence(k, w, next), args, S, i) /\ GoesOn(Checked(metas, k, w, next), args, S, i)
  <2>1. next \in Nat /\ k \in Nat /\ w \in ValuesOf(args, S)
    BY <1>1 DEF V
  <2>2. GoesOn(Occurrence(k, w, next), args, S, i) BY <2>1, OneTaken
  <2>3. GoesOn(NoOccurrence(next), args, S, i) BY <2>1, NoneTaken
  <2> QED BY <2>2, <2>3 DEF Checked
<1>4. ASSUME NEW next \in Nat PROVE GoesOn(NoOccurrence(next), args, S, i)
  BY NoneTaken
<1>5. i + 1 \in i + 1..Len(args) + 1 /\ i \in DOMAIN args /\ i \in Nat
  BY <1>1
<1>6. CASE type = "Bool"
  <2>1. o = Occurrence(k, <<>>, i + 1) BY <1>6 DEF Valued
  <2> QED BY <1>2, <1>3, <1>5, <2>1
<1>7. CASE type \in {"Int", "String"}
  <2>1. o = IF value # <<>> THEN Checked(metas, k, value, i + 1)
            ELSE IF i = Len(args) THEN NoOccurrence(i)
            ELSE Checked(metas, k, args[i + 1], i + 2)
    <3>1. type # "Bool" BY <1>7
    <3> QED BY <1>7, <3>1 DEF Valued
  <2>2. i # Len(args) => i + 1 \in DOMAIN args /\ i + 2 \in i + 1..Len(args) + 1
    <3>1. Len(args) \in Nat /\ i \in 1..Len(args) BY <1>1
    <3>2. i # Len(args) => i + 1 \in 1..Len(args) /\ i + 2 \in i + 1..Len(args) + 1
      BY ONLY <3>1, NotLast
    <3> QED BY <1>1, <3>2
  <2> HIDE DEF o
  <2>3. CASE value # <<>> BY <1>2, <1>3, <1>5, <2>1, <2>3 DEF o
  <2>4. CASE value = <<>> /\ i = Len(args)
    BY <1>4, <1>5, <2>1, <2>4 DEF o
  <2>5. CASE value = <<>> /\ i # Len(args)
    BY <1>2, <1>3, <2>1, <2>2, <2>5 DEF o
  <2> QED BY <2>3, <2>4, <2>5
<1>8. CASE type \in {"OptionalInt", "OptionalString"}
  <2>1. o = IF has THEN Checked(metas, k, value, i + 1)
            ELSE Occurrence(k, IF type = "OptionalInt" THEN <<"-", "1">> ELSE <<>>, i + 1)
    <3>1. type \notin {"Bool", "Int", "String"} BY <1>8
    <3> QED BY <1>8, <3>1 DEF Valued
  <2>2. (IF type = "OptionalInt" THEN <<"-", "1">> ELSE <<>>) \in V
    BY <1>2
  <2> HIDE DEF o
  <2> QED BY <1>2, <1>3, <1>5, <2>1, <2>2 DEF o
<1>9. CASE type = "TerminatedString"
  <2>1. o = IF value # <<>> THEN Occurrence(k, value, i + 1)
            ELSE Occurrence(k, take_terminated_string(args, i), TerminatedEnd(args, i) + 1)
    <3>1. type \notin {"Bool", "Int", "String", "OptionalInt", "OptionalString"}
      BY <1>9
    <3> QED BY <1>9, <3>1 DEF Valued
  <2>2. TerminatedEnd(args, i) + 1 \in i + 1..Len(args) + 1
    BY <1>1, TerminatedEndIs
  <2> HIDE DEF o
  <2> QED BY <1>2, <1>3, <1>5, <2>1, <2>2 DEF o
<1> QED BY <1>1, <1>6, <1>7, <1>8, <1>9 DEF Types

------------------------------------------------------------------------------
\* What the equation of Cluster says of a character.
ClusterAt(go, metas, args, i, pos) ==
    IF pos > Len(args[i]) THEN [ok |-> TRUE, set |-> <<>>, next |-> i + 1]
    ELSE LET k    == Find(ShortNames(metas), <<"-", args[i][pos]>>)
             rest == SubSeq(args[i], pos + 1, Len(args[i]))
         IN  IF k = 0 THEN NoOccurrence(i)
             ELSE IF metas[k].type = "Bool"
             THEN [go[pos + 1] EXCEPT !.set = <<[opt |-> k, value |-> <<>>]>> \o @]
             ELSE Valued(metas, k, rest # <<>>, rest, args, i)

FlagByFlag(go, metas, args, S, i) ==
    \A pos \in 2..Len(args[i]) + 1 :
      go[pos] = ClusterAt(go, metas, args, i, pos) /\ GoesOn(go[pos], args, S, i)

\* A cluster taken apart from each character on.
LEMMA ClusterIs ==
    ASSUME NEW S, NEW metas, OptionTable(metas, S), NEW args \in Seq(Seq(S)), NEW i \in 1..Len(args),
           Len(args[i]) >= 2
    PROVE  \E go : FlagByFlag(go, metas, args, S, i) /\ Cluster(metas, args, i) = go[2]
<1> DEFINE a == args[i]
           n == Len(a)
           D == 2..n + 1
           V == {o \in TakenOf(args, S) : GoesOn(o, args, S, i)}
           rank == [pos \in D |-> n + 1 - pos]
           Step == [g \in [D -> V] |-> [pos \in D |-> ClusterAt(g, metas, args, i, pos)]]
<1>1. a \in Seq(S) /\ n \in Nat /\ n >= 2 /\ i \in Nat /\ Len(args) \in Nat /\ i \in DOMAIN args
  BY ElementOfSeq
<1>2. NoOccurrence(i) \in V
  <2>1. GoesOn(NoOccurrence(i), args, S, i) BY <1>1, NoneTaken
  <2> QED BY <2>1 DEF GoesOn
<1>3. rank \in [D -> 0..n] BY <1>1
<1>4. ASSUME NEW pos \in D, ~(pos > n)
      PROVE  pos + 1 \in D /\ rank[pos + 1] < rank[pos] /\ pos \in 1..n
  BY <1>1, <1>4
<1>5. ASSUME NEW g \in [D -> V], NEW pos \in D
      PROVE  ClusterAt(g, metas, args, i, pos) \in V
  <2>1. CASE pos > n
    <3>1. [ok |-> TRUE, set |-> <<>>, next |-> i + 1] \in TakenOf(args, S)
      <4>1. <<>> \in Seq(Occurrences(args, S)) /\ i + 1 \in Nat BY <1>1
      <4> QED BY <4>1 DEF TakenOf
    <3>2. i + 1 \in i + 1..Len(args) + 1 BY <1>1
    <3> QED BY <2>1, <3>1, <3>2 DEF ClusterAt, GoesOn
  <2>2. CASE ~(pos > n)
    <3> DEFINE k == Find(ShortNames(metas), <<"-", a[pos]>>)
               rest == SubSeq(a, pos + 1, n)
    <3>1. k = 0 \/ k \in DOMAIN metas BY FlagIs
    <3>2. rest \in Seq(S) BY <1>1, <1>4, <2>2, SubSeqProperties
    <3>3. ClusterAt(g, metas, args, i, pos) =
            IF k = 0 THEN NoOccurrence(i)
            ELSE IF metas[k].type = "Bool"
            THEN [g[pos + 1] EXCEPT !.set = <<[opt |-> k, value |-> <<>>]>> \o @]
            ELSE Valued(metas, k, rest # <<>>, rest, args, i)
      BY <2>2 DEF ClusterAt
    <3> HIDE DEF k, rest
    <3>4. CASE k = 0 BY <1>2, <3>3, <3>4
    <3>5. CASE k # 0 /\ metas[k].type = "Bool"
      <4> DEFINE o == g[pos + 1]
                 one == <<[opt |-> k, value |-> <<>>]>>
      <4>1. o \in V BY <1>4, <2>2
      <4>2. one \in Seq(Occurrences(args, S))
        <5>1. [opt |-> k, value |-> <<>>] \in Occurrences(args, S)
          <6>1. <<>> \in ValuesOf(args, S) /\ k \in Nat
            BY <3>1, <3>5 DEF ValuesOf, OptionTable
          <6> QED BY <6>1 DEF Occurrences
        <5> QED BY <5>1
      <4> HIDE DEF o, one
      <4>3. one \o o.set \in Seq(Occurrences(args, S))
        BY <4>1, <4>2, ConcatProperties DEF TakenOf
      <4>4. [o EXCEPT !.set = one \o @] \in V
        BY <4>1, <4>3 DEF TakenOf, GoesOn
      <4> QED BY <3>3, <3>5, <4>4 DEF o, one
    <3>6. CASE k # 0 /\ metas[k].type # "Bool"
      <4>1. k \in DOMAIN metas BY <3>1, <3>6
      <4>2. GoesOn(Valued(metas, k, rest # <<>>, rest, args, i), args, S, i)
        BY <3>2, <4>1, ValuedGoesOn
      <4> QED BY <3>3, <3>6, <4>2 DEF GoesOn
    <3> QED BY <3>4, <3>5, <3>6
  <2> QED BY <2>1, <2>2
<1>6. Step \in [[D -> V] -> [D -> V]]
  <2> HIDE DEF D, V
  <2> QED BY <1>5
<1>7. Founded(Step, rank, D, V)
  <2>1. ASSUME NEW g \in [D -> V], NEW h \in [D -> V], NEW pos \in D,
               \A y \in D : rank[y] < rank[pos] => g[y] = h[y]
        PROVE  Step[g][pos] = Step[h][pos]
    <3>1. ~(pos > n) => g[pos + 1] = h[pos + 1] BY <1>4, <2>1
    <3>2. ClusterAt(g, metas, args, i, pos) = ClusterAt(h, metas, args, i, pos)
      BY <3>1 DEF ClusterAt
    <3> HIDE DEF D, V
    <3> QED BY <3>2
  <2> HIDE DEF Step, rank, D, V
  <2> QED BY <2>1 DEF Founded
<1>8. PICK g \in [D -> V] : FixedPoint(Step, g)
  <2> HIDE DEF Step, rank, D, V, n
  <2> QED BY <1>1, <1>2, <1>3, <1>6, <1>7, Recursion
<1>9. g = [pos \in D |-> ClusterAt(g, metas, args, i, pos)]
  BY <1>8 DEF FixedPoint
<1> DEFINE C == CHOOSE go : go = [pos \in 2..Len(args[i]) + 1 |-> ClusterAt(go, metas, args, i, pos)]
<1>10. C = [pos \in 2..Len(args[i]) + 1 |-> ClusterAt(C, metas, args, i, pos)]
  BY <1>9
<1>11. Cluster(metas, args, i) = C[2] BY DEF Cluster, ClusterAt
<1> HIDE DEF C
<1>12. \A pos \in D : C[pos] \in V
  <2> DEFINE T == {pos \in 1..n + 1 : pos \in D => C[pos] = g[pos]}
  <2>1. ASSUME NEW pos \in 1..n + 1, \A j \in pos + 1..n + 1 : j \in T PROVE pos \in T
    <3> SUFFICES ASSUME pos \in D PROVE C[pos] = g[pos] OBVIOUS
    <3>1. ~(pos > n) => C[pos + 1] = g[pos + 1] BY <1>4, <2>1
    <3>2. ClusterAt(C, metas, args, i, pos) = ClusterAt(g, metas, args, i, pos)
      BY <3>1 DEF ClusterAt
    <3>3. C[pos] = ClusterAt(C, metas, args, i, pos) /\ g[pos] = ClusterAt(g, metas, args, i, pos)
      BY <1>9, <1>10
    <3> QED BY <3>2, <3>3
  <2>2. n + 1 \in Nat BY <1>1
  <2>3. 1..n + 1 \subseteq T
    <3> HIDE DEF T
    <3> QED BY <2>1, <2>2, BackwardInduction
  <2>4. \A pos \in D : pos \in 1..n + 1 BY <1>1
  <2>5. \A pos \in D : g[pos] \in V BY <1>8
  <2> QED BY <2>3, <2>4, <2>5
<1>13. \A pos \in D : C[pos] = ClusterAt(C, metas, args, i, pos)
  BY <1>10
<1>14. FlagByFlag(C, metas, args, S, i) BY <1>12, <1>13 DEF FlagByFlag
<1> QED BY <1>11, <1>14

\* The character of a cluster is a flag without a value.
IsBool(metas, c) == OfType(metas, Flag(metas, c), {"Bool"})

\* The last character the parser looks at: the one LastFlag names.
LEMMA LastFlagIs ==
    ASSUME NEW metas, NEW a, Len(a) \in Nat, Len(a) >= 2
    PROVE  /\ LastFlag(metas, a) \in 2..Len(a)
           /\ \A p \in 2..LastFlag(metas, a) - 1 : IsBool(metas, a[p])
           /\ LastFlag(metas, a) = Len(a) \/ ~IsBool(metas, a[LastFlag(metas, a)])
<1> DEFINE A == {p \in 2..Len(a) : p = Len(a) \/ ~IsBool(metas, a[p])}
<1>1. A \subseteq Nat /\ Len(a) \in A OBVIOUS
<1>2. PICK q \in A : \A l \in A : q <= l
  <2> HIDE DEF A
  <2> QED BY <1>1, LeastNat
<1>3. ASSUME NEW p \in 2..q - 1 PROVE IsBool(metas, a[p])
  <2>1. p \in 2..Len(a) /\ ~(q <= p) OBVIOUS
  <2> QED BY <1>2, <2>1
<1>4. /\ q \in 2..Len(a) /\ \A p \in 2..q - 1 : IsBool(metas, a[p])
      /\ q = Len(a) \/ ~IsBool(metas, a[q])
  BY <1>3
<1> QED BY <1>4 DEF LastFlag, IsBool

\* Behind flags without values it is the first that is none, or the last.
LEMMA LastFlagHere ==
    ASSUME NEW metas, NEW a, Len(a) \in Nat, Len(a) >= 2, NEW pos \in 2..Len(a),
           \A p \in 2..pos - 1 : IsBool(metas, a[p]),
           pos = Len(a) \/ ~IsBool(metas, a[pos])
    PROVE  LastFlag(metas, a) = pos
<1> DEFINE q == LastFlag(metas, a)
<1>1. /\ q \in 2..Len(a) /\ \A p \in 2..q - 1 : IsBool(metas, a[p])
      /\ q = Len(a) \/ ~IsBool(metas, a[q])
  BY LastFlagIs
<1> HIDE DEF q
<1>2. ~(q < pos)
  <2>1. q < pos => q \in 2..pos - 1 /\ q # Len(a) BY <1>1
  <2> QED BY <1>1, <2>1
<1>3. ~(pos < q)
  <2>1. pos < q => pos \in 2..q - 1 /\ pos # Len(a) BY <1>1
  <2> QED BY <1>1, <2>1
<1> QED BY <1>1, <1>2, <1>3 DEF q

\* What may be wrong with an option that is refused.
Wrong(metas, args, i) ==
    \/ ~KnownOption(metas, args[i])
    \/ NeedsNext(metas, args[i]) /\ i = Len(args)
    \/ TakesNumber(metas, args[i])

\* An option takes the next argument when it needs one, and what is refused is wrong.
Reads(o, metas, args, i) ==
    IF o.ok
    THEN /\ o.next = IF NeedsNext(metas, args[i]) THEN i + 2 ELSE i + 1
         /\ NeedsNext(metas, args[i]) =>
              i # Len(args) /\ \E s \in ToSet(o.set) : s.value = args[i + 1]
    ELSE Wrong(metas, args, i)

LEMMA FoundInOne ==
    ASSUME NEW x
    PROVE  ToSet(<<x>>) = {x}
BY DEF ToSet

\* A value option in its place in the argument.
LEMMA ValuedReads ==
    ASSUME NEW metas, NEW k, metas[k].type \in Types \ {"TerminatedString"},
           NEW has, NEW value, NEW args, NEW i \in Nat,
           Needs(metas, k, value) <=> NeedsNext(metas, args[i]),
           k \in Mentioned(metas, args[i])
    PROVE  Reads(Valued(metas, k, has, value, args, i), metas, args, i)
<1> DEFINE o == Valued(metas, k, has, value, args, i)
<1>1. IF o.ok
      THEN /\ o.next = IF Needs(metas, k, value) THEN i + 2 ELSE i + 1
           /\ Needs(metas, k, value) => i # Len(args) /\ o.set = <<[opt |-> k, value |-> args[i + 1]]>>
      ELSE (Needs(metas, k, value) /\ i = Len(args)) \/ Numeric(metas, k)
  BY ValuedIs
<1> HIDE DEF o
<1>2. Numeric(metas, k) => TakesNumber(metas, args[i])
  BY DEF Numeric, TakesNumber, OfType
<1>3. CASE ~o.ok BY <1>1, <1>2, <1>3 DEF Reads, Wrong, o
<1>4. CASE o.ok
  <2>1. o.next = IF NeedsNext(metas, args[i]) THEN i + 2 ELSE i + 1
    BY <1>1, <1>4
  <2>2. ASSUME NeedsNext(metas, args[i])
        PROVE  i # Len(args) /\ \E s \in ToSet(o.set) : s.value = args[i + 1]
    <3> DEFINE x == [opt |-> k, value |-> args[i + 1]]
    <3>1. i # Len(args) /\ o.set = <<x>> BY <1>1, <1>4, <2>2
    <3>2. x.value = args[i + 1] OBVIOUS
    <3> HIDE DEF x
    <3>3. x \in ToSet(o.set) BY <3>1, FoundInOne
    <3> QED BY <3>1, <3>2, <3>3
  <2> QED BY <1>4, <2>1, <2>2 DEF Reads, o
<1> QED BY <1>3, <1>4

------------------------------------------------------------------------------
\* A cluster is read flag by flag.
LEMMA ClusterReads ==
    ASSUME NEW S, NEW metas, OptionTable(metas, S), NEW args \in Seq(Seq(S)), NEW i \in 1..Len(args),
           ShortArg(args[i]), Named(metas, args[i]) = {}, ~Odd(metas, args[i])
    PROVE  Reads(Cluster(metas, args, i), metas, args, i)
<1> DEFINE a == args[i]
           n == Len(a)
           Behind(pos) == \A p \in 2..pos - 1 : IsBool(metas, a[p])
<1>1. a \in Seq(S) /\ n \in Nat /\ n >= 2 /\ i \in Nat
  BY ElementOfSeq DEF ShortArg
<1>2. PICK go : FlagByFlag(go, metas, args, S, i) /\ Cluster(metas, args, i) = go[2]
  BY <1>1, ClusterIs
<1>3. \A pos \in 2..n : Flag(metas, a[pos]) \subseteq Mentioned(metas, a)
  BY DEF Mentioned
<1>4. /\ NeedsNext(metas, a) <=> /\ LastFlag(metas, a) = n
                                 /\ OfType(metas, Flag(metas, a[n]), {"Int", "String"})
      /\ KnownOption(metas, a) <=> \A pos \in 2..LastFlag(metas, a) : Flag(metas, a[pos]) # {}
  BY DEF NeedsNext, KnownOption
<1>5. ASSUME NEW k \in Mentioned(metas, a) PROVE metas[k].type # "TerminatedString"
  BY DEF Odd, OfType
<1> DEFINE T == {pos \in 1..n + 1 : pos >= 2 /\ Behind(pos) => Reads(go[pos], metas, args, i)}
<1>6. ASSUME NEW pos \in 1..n + 1, \A j \in pos + 1..n + 1 : j \in T
      PROVE  pos \in T
  <2> SUFFICES ASSUME pos >= 2, Behind(pos) PROVE Reads(go[pos], metas, args, i)
    OBVIOUS
  <2>1. go[pos] = ClusterAt(go, metas, args, i, pos) /\ pos \in 2..n + 1
    <3>1. pos \in 2..n + 1
      <4>1. n \in Nat /\ pos \in 1..n + 1 /\ pos >= 2 BY <1>1
      <4> HIDE DEF n
      <4> QED BY ONLY <4>1
    <3> QED BY <1>2, <3>1 DEF FlagByFlag
  <2>2. CASE pos > n
    <3>1. go[pos] = [ok |-> TRUE, set |-> <<>>, next |-> i + 1]
      BY <2>1, <2>2 DEF ClusterAt
    <3>2. n \in 2..pos - 1 /\ pos = n + 1 BY <1>1, <2>2
    <3>3. IsBool(metas, a[n]) BY <3>2
    <3>4. ~OfType(metas, Flag(metas, a[n]), {"Int", "String"})
      <4> DEFINE k == Find(ShortNames(metas), <<"-", a[n]>>)
      <4>1. Flag(metas, a[n]) = {} \/ Flag(metas, a[n]) = {k} BY FlagIs
      <4> HIDE DEF k
      <4> QED BY <3>3, <4>1 DEF IsBool, OfType
    <3> QED BY <1>4, <3>1, <3>4 DEF Reads
  <2>3. CASE ~(pos > n)
    <3> DEFINE c == a[pos]
               k == Find(ShortNames(metas), <<"-", c>>)
               rest == SubSeq(a, pos + 1, n)
    <3>1. go[pos] = IF k = 0 THEN NoOccurrence(i)
                    ELSE IF metas[k].type = "Bool"
                    THEN [go[pos + 1] EXCEPT !.set = <<[opt |-> k, value |-> <<>>]>> \o @]
                    ELSE Valued(metas, k, rest # <<>>, rest, args, i)
      BY <2>1, <2>3 DEF ClusterAt
    <3>2. IF k = 0 THEN Flag(metas, c) = {}
          ELSE k \in DOMAIN metas /\ Flag(metas, c) = {k}
      BY FlagIs
    <3>3. pos \in 2..n BY <1>1, <2>1, <2>3
    <3>4. rest = <<>> <=> pos = n
      <4>1. rest \in Seq(S) /\ Len(rest) = n - pos
        BY <1>1, <3>3, SubSeqProperties
      <4> QED
        <5> HIDE DEF rest, n
        <5>1. rest = <<>> <=> Len(rest) = 0 BY <4>1, EmptySeq
        <5>2. n - pos = 0 <=> pos = n BY <1>1, <3>3
        <5> QED BY <4>1, <5>1, <5>2
    <3> HIDE DEF k, rest
    <3>5. CASE k = 0
      <4>1. ~IsBool(metas, c) BY <3>2, <3>5 DEF IsBool, OfType
      <4>2. LastFlag(metas, a) = pos BY <1>1, <3>3, <4>1, LastFlagHere
      <4>3. ~KnownOption(metas, a) BY <1>4, <3>2, <3>3, <3>5, <4>2
      <4>4. ~go[pos].ok BY <3>1, <3>5 DEF NoOccurrence
      <4> QED BY <4>3, <4>4 DEF Reads, Wrong
    <3>6. CASE k # 0 /\ metas[k].type = "Bool"
      <4>1. IsBool(metas, c) BY <3>2, <3>6 DEF IsBool, OfType
      <4>2. Behind(pos + 1)
        <5>1. \A p \in 2..pos + 1 - 1 : p \in 2..pos - 1 \/ p = pos
          BY <3>3
        <5> QED BY <4>1, <5>1
      <4>3. pos + 1 \in pos + 1..n + 1 /\ pos + 1 >= 2 /\ pos + 1 \in 2..n + 1
        BY <1>1, <3>3
      <4>4. Reads(go[pos + 1], metas, args, i) /\ GoesOn(go[pos + 1], args, S, i)
        <5> HIDE DEF Behind
        <5> QED BY <1>2, <1>6, <4>2, <4>3 DEF FlagByFlag
      <4> DEFINE o == go[pos + 1]
                 one == <<[opt |-> k, value |-> <<>>]>>
      <4>5. o.set \in Seq(Occurrences(args, S)) /\ o \in TakenOf(args, S)
        BY <4>4 DEF GoesOn, TakenOf
      <4>6. go[pos] = [o EXCEPT !.set = one \o o.set] BY <3>1, <3>6
      <4>7. ToSet(o.set) \subseteq ToSet(one \o o.set)
        <5>1. k \in Nat /\ <<>> \in ValuesOf(args, S)
          BY <3>2, <3>6 DEF OptionTable, ValuesOf
        <5>2. one \in Seq(Occurrences(args, S))
          <6>1. [opt |-> k, value |-> <<>>] \in Occurrences(args, S)
            BY <5>1 DEF Occurrences
          <6> QED BY <6>1
        <5> HIDE DEF one, o
        <5>3. ASSUME NEW s \in ToSet(o.set) PROVE s \in ToSet(one \o o.set)
          BY <4>5, <5>2, ToSetConcat
        <5> QED BY <5>3
      <4> HIDE DEF o, one
      <4>8. go[pos].ok = o.ok /\ go[pos].next = o.next /\ go[pos].set = one \o o.set
        BY <4>5, <4>6 DEF TakenOf
      <4> QED BY <4>4, <4>7, <4>8 DEF Reads, o
    <3>7. CASE k # 0 /\ metas[k].type # "Bool"
      <4>1. ~IsBool(metas, c) BY <3>2, <3>7 DEF IsBool, OfType
      <4>2. LastFlag(metas, a) = pos BY <1>1, <3>3, <4>1, LastFlagHere
      <4>3. k \in Mentioned(metas, a) BY <1>3, <3>2, <3>3, <3>7
      <4>4. metas[k].type \in Types \ {"TerminatedString"}
        BY <1>5, <3>2, <3>7, <4>3 DEF OptionTable
      <4>5. Needs(metas, k, rest) <=> NeedsNext(metas, a)
        <5>1. pos = n => (OfType(metas, Flag(metas, a[n]), {"Int", "String"}) <=> metas[k].type \in {"Int", "String"})
          BY <3>2, <3>7 DEF OfType
        <5> HIDE DEF c, n
        <5> QED BY <1>4, <3>4, <4>2, <5>1 DEF Needs
      <4>6. Reads(Valued(metas, k, rest # <<>>, rest, args, i), metas, args, i)
        BY <1>1, <4>3, <4>4, <4>5, ValuedReads
      <4> QED BY <3>1, <3>7, <4>6
    <3> QED BY <3>5, <3>6, <3>7
  <2> QED BY <2>2, <2>3
<1>7. 2 \in T
  <2>1. n + 1 \in Nat /\ 2 \in 1..n + 1 BY <1>1
  <2>2. 1..n + 1 \subseteq T
    <3> HIDE DEF T, n
    <3> QED BY <1>6, <2>1, BackwardInduction
  <2> HIDE DEF T
  <2> QED BY <2>1, <2>2
<1>8. Behind(2) OBVIOUS
<1> QED BY <1>2, <1>7, <1>8

------------------------------------------------------------------------------
(* An argument that is an option.                                           *)

\* The foremost option of a long or of a short name.
LEMMA LongIs ==
    ASSUME NEW metas, NEW S, OptionTable(metas, S), NEW name, name # <<>>
    PROVE  /\ FirstIn(Find(LongNames(metas), name), {k \in DOMAIN metas : metas[k].long = name})
           /\ name \in ToSet(LongNames(metas)) <=> Find(LongNames(metas), name) # 0
<1> DEFINE entries == LongNames(metas)
           A == {k \in DOMAIN entries : entries[k] = name}
           B == {k \in DOMAIN metas : metas[k].long = name}
<1>1. /\ DOMAIN entries = DOMAIN metas /\ DOMAIN entries \subseteq Nat \ {0}
      /\ \A l \in DOMAIN metas : entries[l] = metas[l].long
  BY DEF LongNames, OptionTable
<1>2. FirstIn(Find(entries, name), A)
  <2> HIDE DEF entries
  <2> QED BY <1>1, FindIs
<1>3. A = B BY <1>1
<1>4. name \in ToSet(entries) <=> A # {} BY DEF ToSet
<1> HIDE DEF A, B
<1> QED BY <1>2, <1>3, <1>4 DEF FirstIn, B

LEMMA ShortIs ==
    ASSUME NEW metas, NEW S, OptionTable(metas, S), NEW name, name # <<>>
    PROVE  FirstIn(Find(ShortNames(metas), name), {k \in DOMAIN metas : metas[k].short = name})
<1> DEFINE entries == ShortNames(metas)
           A == {k \in DOMAIN entries : entries[k] = name}
           B == {k \in DOMAIN metas : metas[k].short = name}
<1>1. /\ DOMAIN entries = DOMAIN metas /\ DOMAIN entries \subseteq Nat \ {0}
      /\ \A l \in DOMAIN metas : entries[l] = metas[l].short
  BY DEF ShortNames, OptionTable
<1>2. FirstIn(Find(entries, name), A)
  <2> HIDE DEF entries
  <2> QED BY <1>1, FindIs
<1>3. A = B BY <1>1
<1> HIDE DEF A
<1> QED BY <1>2, <1>3

\* The value an argument brings along.
OwnValue(metas, a) == IF Inline(metas, a) THEN ValueOf(a) ELSE <<>>

\* What Option comes to.
OptionForms(metas, args, i) ==
    \/ \E k \in DOMAIN metas :
         /\ Named(metas, args[i]) = {k}
         /\ Option(metas, args, i) =
              Valued(metas, k, Inline(metas, args[i]), OwnValue(metas, args[i]), args, i)
    \/ /\ Named(metas, args[i]) = {} /\ LongArg(args[i])
       /\ Option(metas, args, i) = NoOccurrence(i)
    \/ /\ Named(metas, args[i]) = {} /\ ShortArg(args[i])
       /\ Option(metas, args, i) = Cluster(metas, args, i)

LEMMA OptionIs ==
    ASSUME NEW S, NEW metas, OptionTable(metas, S), NEW args \in Seq(Seq(S)), NEW i \in 1..Len(args),
           LongArg(args[i]) \/ ShortArg(args[i])
    PROVE  OptionForms(metas, args, i)
<1> DEFINE a == args[i]
<1>1. /\ a \in Seq(S) /\ a # <<>> /\ (LongArg(a) => ~ShortArg(a))
      /\ NameOf(a) \in Seq(S) /\ NameOf(a) # <<>> /\ ValueOf(a) \in Seq(S)
      /\ Equals(a) = {} => NameOf(a) = a /\ ValueOf(a) = <<>>
  BY ElementOfSeq, NameIs
<1>2. CASE LongArg(a)
  <2> DEFINE whole == Find(LongNames(metas), a)
             name == IF Whole(metas, a) THEN a ELSE NameOf(a)
             k == Find(LongNames(metas), name)
  <2>1. Whole(metas, a) <=> whole # 0 BY <1>1, <1>2, LongIs DEF Whole
  <2>2. k = IF whole # 0 THEN whole ELSE Find(LongNames(metas), NameOf(a))
    BY <2>1
  <2>3. name # <<>> BY <1>1
  <2>4. Inline(metas, a) <=> whole = 0 /\ Equals(a) # {}
    BY <2>1 DEF Inline
  <2>5. OwnValue(metas, a) = IF whole = 0 THEN ValueOf(a) ELSE <<>>
    BY <1>1, <2>4 DEF OwnValue
  <2> HIDE DEF k, name, whole
  <2>6. Option(metas, args, i) =
          IF k # 0 THEN Valued(metas, k, whole = 0 /\ Equals(a) # {}, OwnValue(metas, a), args, i)
          ELSE NoOccurrence(i)
    BY <1>2, <2>2, <2>5 DEF Option, whole
  <2>7. Option(metas, args, i) =
          IF k # 0 THEN Valued(metas, k, Inline(metas, a), OwnValue(metas, a), args, i)
          ELSE NoOccurrence(i)
    <3>1. Inline(metas, a) = (whole = 0 /\ Equals(a) # {})
      BY <2>4 DEF Inline
    <3> QED BY <2>6, <3>1
  <2>8. Named(metas, a) = Foremost({l \in DOMAIN metas : metas[l].long = name})
    BY <1>1, <1>2 DEF Named, name
  <2>9. FirstIn(k, {l \in DOMAIN metas : metas[l].long = name})
    BY <2>3, LongIs DEF k
  <2>10. CASE k = 0
    BY <1>2, <2>7, <2>8, <2>9, <2>10 DEF FirstIn, OptionForms
  <2>11. CASE k # 0
    <3>1. k \in DOMAIN metas /\ Named(metas, a) = {k}
      BY <2>8, <2>9, <2>11 DEF FirstIn
    <3> QED BY <2>7, <2>11, <3>1 DEF OptionForms
  <2> QED BY <2>10, <2>11
<1>3. CASE ShortArg(a)
  <2> DEFINE k == Find(ShortNames(metas), NameOf(a))
             A == {l \in DOMAIN metas : metas[l].short = NameOf(a)}
             B == {l \in DOMAIN metas : metas[l].short = NameOf(a) /\ Len(NameOf(a)) > 2}
  <2>1. ~LongArg(a) /\ (Inline(metas, a) <=> Equals(a) # {}) /\ OwnValue(metas, a) = ValueOf(a)
    BY <1>1, <1>3 DEF Inline, Whole, OwnValue
  <2>2. Option(metas, args, i) =
          IF k # 0 /\ Len(metas[k].short) > 2
          THEN Valued(metas, k, Inline(metas, a), OwnValue(metas, a), args, i)
          ELSE Cluster(metas, args, i)
    <3>1. Inline(metas, a) = (0 = 0 /\ Equals(a) # {})
      BY <2>1 DEF Inline
    <3>2. Option(metas, args, i) =
            IF k # 0 /\ Len(metas[k].short) > 2
            THEN Valued(metas, k, 0 = 0 /\ Equals(a) # {}, ValueOf(a), args, i)
            ELSE Cluster(metas, args, i)
      BY <2>1 DEF Option
    <3> QED BY <2>1, <3>1, <3>2
  <2>3. FirstIn(k, A) BY <1>1, ShortIs
  <2>4. Named(metas, a) = Foremost(B) BY <1>3, <2>1 DEF Named
  <2>5. \A l \in A : metas[l].short = NameOf(a) OBVIOUS
  <2>6. (Len(NameOf(a)) > 2 => B = A) /\ (~(Len(NameOf(a)) > 2) => B = {}) /\ A \subseteq DOMAIN metas
    OBVIOUS
  <2>7. Foremost({}) = {} BY DEF Foremost
  <2> HIDE DEF A, B, k
  <2>8. CASE k # 0 /\ Len(metas[k].short) > 2
    <3>1. k \in A /\ Foremost(A) = {k} BY <2>3, <2>8 DEF FirstIn
    <3>2. Named(metas, a) = {k} /\ k \in DOMAIN metas
      BY <2>4, <2>5, <2>6, <2>8, <3>1
    <3> QED BY <2>2, <2>8, <3>2 DEF OptionForms
  <2>9. CASE ~(k # 0 /\ Len(metas[k].short) > 2)
    <3>1. B = {} BY <2>3, <2>5, <2>6, <2>9 DEF FirstIn
    <3> QED BY <1>3, <2>2, <2>4, <2>7, <2>9, <3>1 DEF OptionForms
  <2> QED BY <2>8, <2>9
<1> QED BY <1>2, <1>3

\* An option goes on behind itself and what it takes.
LEMMA OptionGoesOn ==
    ASSUME NEW S, NEW metas, OptionTable(metas, S), NEW args \in Seq(Seq(S)), NEW i \in 1..Len(args),
           LongArg(args[i]) \/ ShortArg(args[i])
    PROVE  GoesOn(Option(metas, args, i), args, S, i)
<1>1. OptionForms(metas, args, i) BY OptionIs
<1>2. args[i] \in Seq(S) /\ i \in Nat BY ElementOfSeq
<1>3. OwnValue(metas, args[i]) \in Seq(S)
  <2>1. ValueOf(args[i]) \in Seq(S) BY <1>2, NameIs
  <2> QED BY <2>1, EmptySeq DEF OwnValue
<1>4. ASSUME NEW k \in DOMAIN metas
      PROVE  GoesOn(Valued(metas, k, Inline(metas, args[i]), OwnValue(metas, args[i]), args, i), args, S, i)
  BY <1>3, ValuedGoesOn
<1>5. GoesOn(NoOccurrence(i), args, S, i) BY <1>2, NoneTaken
<1>6. ASSUME ShortArg(args[i]) PROVE GoesOn(Cluster(metas, args, i), args, S, i)
  <2>1. Len(args[i]) >= 2 /\ Len(args[i]) \in Nat
    BY <1>2, <1>6 DEF ShortArg
  <2>2. PICK go : FlagByFlag(go, metas, args, S, i) /\ Cluster(metas, args, i) = go[2]
    BY <2>1, ClusterIs
  <2>3. 2 \in 2..Len(args[i]) + 1 BY <2>1
  <2> QED BY <2>2, <2>3 DEF FlagByFlag
<1> QED BY <1>1, <1>4, <1>5, <1>6 DEF OptionForms

\* An option is read as it is written, unless it is one of the odd ones.
LEMMA OptionReads ==
    ASSUME NEW S, NEW metas, OptionTable(metas, S), NEW args \in Seq(Seq(S)), NEW i \in 1..Len(args),
           LongArg(args[i]) \/ ShortArg(args[i]), ~Odd(metas, args[i])
    PROVE  Reads(Option(metas, args, i), metas, args, i)
<1> DEFINE a == args[i]
<1>1. OptionForms(metas, args, i) BY OptionIs
<1>2. a \in Seq(S) /\ i \in Nat BY ElementOfSeq
<1>3. LongArg(a) => ~ShortArg(a) BY <1>2, NameIs
<1>4. ASSUME NEW k \in DOMAIN metas, Named(metas, a) = {k}
      PROVE  Reads(Valued(metas, k, Inline(metas, a), OwnValue(metas, a), args, i), metas, args, i)
  <2>1. k \in Mentioned(metas, a) BY <1>4 DEF Mentioned
  <2>2. metas[k].type \in Types \ {"TerminatedString"}
    BY <2>1 DEF Odd, OfType, OptionTable
  <2>3. Needs(metas, k, OwnValue(metas, a)) <=> NeedsNext(metas, a)
    <3>1. NeedsNext(metas, a) <=> ~Inline(metas, a) /\ metas[k].type \in {"Int", "String"}
      BY <1>4 DEF NeedsNext, OfType
    <3>2. ~(Inline(metas, a) /\ ValueOf(a) = <<>> /\ metas[k].type \in {"Int", "String", "TerminatedString"})
      BY <1>4 DEF Odd, OfType
    <3> QED BY <3>1, <3>2 DEF Needs, OwnValue
  <2> QED BY <1>2, <2>1, <2>2, <2>3, ValuedReads
<1>5. ASSUME Named(metas, a) = {}, LongArg(a)
      PROVE  Reads(NoOccurrence(i), metas, args, i)
  <2>1. ~KnownOption(metas, a) BY <1>3, <1>5 DEF KnownOption
  <2> QED BY <2>1 DEF Reads, Wrong, NoOccurrence
<1>6. ASSUME Named(metas, a) = {}, ShortArg(a)
      PROVE  Reads(Cluster(metas, args, i), metas, args, i)
  BY <1>6, ClusterReads
<1> QED BY <1>1, <1>4, <1>5, <1>6 DEF OptionForms

------------------------------------------------------------------------------
(* The command line, from every argument on.                                *)

\* What the equation of Roles says of an argument.
RoleAt(role, metas, args, i) ==
    IF i > 1 /\ role[i - 1] = "option" /\ NeedsNext(metas, args[i - 1]) THEN "value"
    ELSE IF \E j \in 1..i - 1 : role[j] = "end" THEN "operand"
    ELSE IF args[i] = EndMark THEN "end"
    ELSE IF LongArg(args[i]) \/ ShortArg(args[i]) THEN "option"
    ELSE "operand"

LEMMA RolesAre ==
    ASSUME NEW metas, NEW args, Len(args) \in Nat
    PROVE  \A i \in 1..Len(args) : Roles(metas, args)[i] = RoleAt(Roles(metas, args), metas, args, i)
<1> DEFINE n == Len(args)
           D == 1..n
           V == {"value", "operand", "end", "option"}
           rank == [i \in D |-> i]
           Step == [g \in [D -> V] |-> [i \in D |-> RoleAt(g, metas, args, i)]]
<1>1. rank \in [D -> 0..n] /\ "end" \in V OBVIOUS
<1>2. Step \in [[D -> V] -> [D -> V]] BY DEF RoleAt
<1>3. Founded(Step, rank, D, V)
  <2>1. ASSUME NEW g \in [D -> V], NEW h \in [D -> V], NEW i \in D,
               \A j \in D : rank[j] < rank[i] => g[j] = h[j]
        PROVE  Step[g][i] = Step[h][i]
    <3>1. \A j \in 1..i - 1 : g[j] = h[j] BY <2>1
    <3>2. i > 1 => i - 1 \in 1..i - 1 OBVIOUS
    <3>3. RoleAt(g, metas, args, i) = RoleAt(h, metas, args, i)
      BY <3>1, <3>2 DEF RoleAt
    <3> QED BY <3>3
  <2> HIDE DEF Step, rank, D, V
  <2> QED BY <2>1 DEF Founded
<1>4. PICK g \in [D -> V] : FixedPoint(Step, g)
  <2> HIDE DEF Step, rank, D, V, n
  <2> QED BY <1>1, <1>2, <1>3, Recursion DEF n
<1>5. g = [i \in D |-> RoleAt(g, metas, args, i)] BY <1>4 DEF FixedPoint
<1> DEFINE R == CHOOSE r : r = [i \in 1..Len(args) |-> RoleAt(r, metas, args, i)]
<1>6. R = [i \in 1..Len(args) |-> RoleAt(R, metas, args, i)] BY <1>5
<1>7. Roles(metas, args) = R BY DEF Roles, RoleAt
<1> HIDE DEF R
<1>8. \A i \in 1..n : R[i] = RoleAt(R, metas, args, i) BY <1>6
<1> QED BY <1>7, <1>8

------------------------------------------------------------------------------
\* What the equation of parse_command says of an argument.
ParseAt(f, metas, args, i) ==
    IF i > Len(args) THEN [ok |-> TRUE, set |-> <<>>, operands |-> <<>>]
    ELSE IF args[i] = EndMark
    THEN [ok |-> TRUE, set |-> <<>>, operands |-> SubSeq(args, i + 1, Len(args))]
    ELSE IF LongArg(args[i]) \/ ShortArg(args[i])
    THEN LET o == Option(metas, args, i)
             r == IF o.ok THEN f[o.next] ELSE Failed
         IN  IF r.ok THEN [r EXCEPT !.set = o.set \o @] ELSE Failed
    ELSE LET r == f[i + 1]
         IN  IF r.ok THEN [r EXCEPT !.operands = <<args[i]>> \o @] ELSE Failed

ParsedOf(args, S) ==
    [ok : BOOLEAN, set : Seq(Occurrences(args, S)), operands : Seq(Seq(S))]

ArgByArg(f, metas, args, S) ==
    \A i \in 1..Len(args) + 1 : f[i] = ParseAt(f, metas, args, i) /\ f[i] \in ParsedOf(args, S)

\* What is read at an argument goes on behind it.
LEMMA ParseStep ==
    ASSUME NEW S, NEW metas, OptionTable(metas, S), NEW args \in Seq(Seq(S)),
           NEW f, NEW i \in 1..Len(args) + 1,
           \A j \in i + 1..Len(args) + 1 : f[j] \in ParsedOf(args, S)
    PROVE  /\ ParseAt(f, metas, args, i) \in ParsedOf(args, S)
           /\ \A h : (\A j \in i + 1..Len(args) + 1 : h[j] = f[j]) =>
                       ParseAt(h, metas, args, i) = ParseAt(f, metas, args, i)
<1> DEFINE V == ParsedOf(args, S)
           Q == Seq(Occurrences(args, S))
<1>1. Len(args) \in Nat /\ DOMAIN args = 1..Len(args) /\ <<>> \in Q /\ <<>> \in Seq(Seq(S))
  BY EmptySeq, LenProperties
<1>2. Failed \in V BY <1>1 DEF Failed, ParsedOf
<1>3. CASE i > Len(args)
  <2>1. [ok |-> TRUE, set |-> <<>>, operands |-> <<>>] \in V
    BY <1>1 DEF ParsedOf
  <2> QED BY <1>3, <2>1 DEF ParseAt
<1>4. CASE ~(i > Len(args)) /\ args[i] = EndMark
  <2>1. SubSeq(args, i + 1, Len(args)) \in Seq(Seq(S))
    <3>1. i + 1 \in Int /\ \A j \in i + 1..Len(args) : j \in 1..Len(args)
      BY <1>1
    <3> QED BY <1>1, <3>1, SubSeqProperties
  <2>2. [ok |-> TRUE, set |-> <<>>, operands |-> SubSeq(args, i + 1, Len(args))] \in V
    BY <1>1, <2>1 DEF ParsedOf
  <2> QED BY <1>4, <2>2 DEF ParseAt
<1>5. CASE ~(i > Len(args)) /\ args[i] # EndMark /\ (LongArg(args[i]) \/ ShortArg(args[i]))
  <2> DEFINE o == Option(metas, args, i)
             r == IF o.ok THEN f[o.next] ELSE Failed
  <2>1. i \in 1..Len(args) BY <1>1, <1>5
  <2>2. GoesOn(o, args, S, i) BY <1>5, <2>1, OptionGoesOn
  <2> HIDE DEF o
  <2>3. o.set \in Q /\ (o.ok => o.next \in i + 1..Len(args) + 1)
    BY <2>2 DEF GoesOn, TakenOf
  <2>4. r \in V BY <1>2, <2>3
  <2>5. ParseAt(f, metas, args, i) = IF r.ok THEN [r EXCEPT !.set = o.set \o @] ELSE Failed
    BY <1>5 DEF ParseAt, o
  <2>6. [r EXCEPT !.set = o.set \o @] \in V
    <3> HIDE DEF r
    <3>1. r.set \in Q BY <2>4 DEF ParsedOf
    <3>2. o.set \o r.set \in Q BY <2>3, <3>1, ConcatProperties
    <3> QED BY <2>4, <3>2 DEF ParsedOf
  <2>7. ASSUME NEW h, \A j \in i + 1..Len(args) + 1 : h[j] = f[j]
        PROVE  ParseAt(h, metas, args, i) = ParseAt(f, metas, args, i)
    <3>1. (IF o.ok THEN h[o.next] ELSE Failed) = r BY <2>3, <2>7
    <3> DEFINE q == IF o.ok THEN h[o.next] ELSE Failed
    <3>2. ParseAt(h, metas, args, i) = IF q.ok THEN [q EXCEPT !.set = o.set \o @] ELSE Failed
      BY <1>5 DEF ParseAt, o
    <3>3. q = r BY <3>1
    <3> HIDE DEF r, q
    <3> QED BY <2>5, <3>2, <3>3
  <2> HIDE DEF r
  <2> QED BY <1>2, <2>5, <2>6, <2>7
<1>6. CASE ~(i > Len(args)) /\ args[i] # EndMark /\ ~(LongArg(args[i]) \/ ShortArg(args[i]))
  <2> DEFINE r == f[i + 1]
  <2>1. i + 1 \in i + 1..Len(args) + 1 /\ i \in 1..Len(args)
    BY <1>1, <1>6
  <2>2. r \in V BY <2>1
  <2>3. ParseAt(f, metas, args, i) = IF r.ok THEN [r EXCEPT !.operands = <<args[i]>> \o @] ELSE Failed
    BY <1>6 DEF ParseAt
  <2>4. [r EXCEPT !.operands = <<args[i]>> \o @] \in V
    <3> HIDE DEF r
    <3>1. r.operands \in Seq(Seq(S)) /\ <<args[i]>> \in Seq(Seq(S))
      BY <2>1, <2>2, ElementOfSeq DEF ParsedOf
    <3>2. <<args[i]>> \o r.operands \in Seq(Seq(S))
      BY <3>1, ConcatProperties
    <3> QED BY <2>2, <3>2 DEF ParsedOf
  <2>5. ASSUME NEW h, \A j \in i + 1..Len(args) + 1 : h[j] = f[j]
        PROVE  ParseAt(h, metas, args, i) = ParseAt(f, metas, args, i)
    <3>1. h[i + 1] = r BY <2>1, <2>5
    <3>2. ParseAt(h, metas, args, i) =
            LET q == h[i + 1] IN IF q.ok THEN [q EXCEPT !.operands = <<args[i]>> \o @] ELSE Failed
      BY <1>6 DEF ParseAt
    <3> HIDE DEF r
    <3> QED BY <2>3, <3>1, <3>2
  <2> HIDE DEF r
  <2> QED BY <1>2, <2>3, <2>4, <2>5
<1> QED BY <1>3, <1>4, <1>5, <1>6

\* parse_command reads a command line from every argument on.
LEMMA ParseIs ==
    ASSUME NEW S, NEW metas, OptionTable(metas, S), NEW args \in Seq(Seq(S))
    PROVE  \E f : ArgByArg(f, metas, args, S) /\ parse_command(metas, args) = f[1]
<1> DEFINE n == Len(args) + 1
           D == 1..n
           V == ParsedOf(args, S)
           Step == [g \in [D -> V] |-> [i \in D |-> ParseAt(g, metas, args, i)]]
<1>1. n \in Nat /\ Failed \in V BY EmptySeq DEF Failed, ParsedOf
<1>2. ASSUME NEW g \in [D -> V], NEW i \in D
      PROVE  /\ ParseAt(g, metas, args, i) \in V
             /\ \A h : (\A j \in i + 1..n : h[j] = g[j]) =>
                         ParseAt(h, metas, args, i) = ParseAt(g, metas, args, i)
  <2>1. \A j \in i + 1..n : j \in D OBVIOUS
  <2>2. \A j \in i + 1..Len(args) + 1 : g[j] \in V BY <2>1
  <2> HIDE DEF V
  <2> QED BY <2>2, ParseStep DEF V
<1>3. Step \in [[D -> V] -> [D -> V]]
  <2> HIDE DEF D, V
  <2> QED BY <1>2
<1>4. FromBehind(Step, n, V)
  <2>1. ASSUME NEW g \in [D -> V], NEW h \in [D -> V], NEW i \in D,
               \A j \in i + 1..n : g[j] = h[j]
        PROVE  Step[g][i] = Step[h][i]
    <3>1. ParseAt(g, metas, args, i) = ParseAt(h, metas, args, i)
      BY <1>2, <2>1
    <3> HIDE DEF V
    <3> QED BY <3>1
  <2> HIDE DEF Step, V
  <2> QED BY <2>1 DEF FromBehind
<1>5. PICK g \in [D -> V] : FixedPoint(Step, g)
  <2> HIDE DEF Step, n, V
  <2> QED BY <1>1, <1>3, <1>4, BackwardRecursion
<1>6. g = [i \in D |-> ParseAt(g, metas, args, i)]
  <2> HIDE DEF V
  <2> QED BY <1>5 DEF FixedPoint
<1> DEFINE C == CHOOSE f : f = [i \in 1..Len(args) + 1 |-> ParseAt(f, metas, args, i)]
<1>7. C = [i \in 1..Len(args) + 1 |-> ParseAt(C, metas, args, i)]
  BY <1>6
<1>8. parse_command(metas, args) = C[1] BY DEF parse_command, ParseAt
<1> HIDE DEF C, V
<1>9. \A i \in D : C[i] = ParseAt(C, metas, args, i) /\ g[i] = ParseAt(g, metas, args, i) /\ g[i] \in V
  BY <1>5, <1>6, <1>7
<1>10. \A i \in D : C[i] = g[i]
  <2> DEFINE T == {i \in D : C[i] = g[i]}
  <2>1. ASSUME NEW i \in 1..n, \A j \in i + 1..n : j \in T PROVE i \in T
    <3>1. \A j \in i + 1..n : C[j] = g[j] BY <2>1
    <3>2. ParseAt(C, metas, args, i) = ParseAt(g, metas, args, i)
      <4> HIDE DEF n
      <4> QED BY <1>2, <3>1
    <3> QED BY <1>9, <3>2
  <2>2. 1..n \subseteq T
    <3> HIDE DEF T, n
    <3> QED BY <1>1, <2>1, BackwardInduction
  <2> QED BY <2>2
<1> QED BY <1>8, <1>9, <1>10 DEF ArgByArg, V

\* Places about one argument.
LEMMA Beside ==
    ASSUME NEW n \in Nat, NEW i \in 1..n
    PROVE  /\ i # n => i + 1 \in 1..n /\ n \in i + 1..n /\ i + 1 > 1
           /\ i + 1 <= n => i # n
           /\ i + 2 <= n => i # n /\ i + 2 \in 1..n
           /\ i + 1 - 1 = i /\ i + 2 - 1 = i + 1 /\ i + 1 \in 1..n + 1 /\ i \in i..n
           /\ \A j \in i..n : j = i \/ j \in i + 1..n
           /\ \A j \in i..n : j = i \/ j = i + 1 \/ j \in i + 2..n
           /\ \A j \in i + 1..n : j \in i..n /\ j \in 1..n /\ i < j
           /\ \A j \in i + 2..n : j \in i..n /\ j \in 1..n
           /\ \A j \in 1..i : j \in 1..i - 1 \/ j = i
           /\ \A j \in 1..i + 1 : j \in 1..i - 1 \/ j = i \/ j = i + 1
OBVIOUS

\* Places about an option, which may take the argument behind it.
LEMMA Beyond ==
    ASSUME NEW n \in Nat, NEW i \in 1..n, NEW b, NEW next, next = IF b THEN i + 2 ELSE i + 1,
           b => i # n
    PROVE  /\ \A j \in i..n : j = i \/ j \in next..n \/ (b /\ j = i + 1)
           /\ \A j \in next..n : j \in i..n
           /\ \A j \in 1..next - 1 : j \in 1..i - 1 \/ j = i \/ (b /\ j = i + 1)
<1>1. CASE b BY <1>1, Beside
<1>2. CASE ~b
  <2>1. next = i + 1 BY <1>2
  <2> QED BY <1>2, <2>1, Beside
<1> QED BY <1>1, <1>2

\* Each argument has its role.
RolesOf(role, metas, args) == \A i \in 1..Len(args) : role[i] = RoleAt(role, metas, args, i)

\* Behind "--" there are only operands.
LEMMA AfterEnd ==
    ASSUME NEW metas, NEW args, Len(args) \in Nat, NEW role, RolesOf(role, metas, args),
           NEW i \in 1..Len(args), role[i] = "end"
    PROVE  \A j \in i + 1..Len(args) : role[j] = "operand"
<1> DEFINE n == Len(args)
           T == {m \in Nat : \A l \in i + 1..i + m : l <= n => role[l] = "operand"}
<1>1. 0 \in T OBVIOUS
<1>2. ASSUME NEW m \in Nat, m \in T PROVE m + 1 \in T
  <2> DEFINE l == i + m + 1
  <2> SUFFICES ASSUME l <= n PROVE role[l] = "operand"
    <3>1. \A x \in i + 1..i + (m + 1) : x \in i + 1..i + m \/ x = l
      OBVIOUS
    <3> QED BY <1>2, <3>1
  <2>1. l \in 1..n /\ i \in 1..l - 1 /\ (l - 1 = i \/ l - 1 \in i + 1..i + m) /\ l - 1 <= n
    OBVIOUS
  <2> HIDE DEF l
  <2>2. role[l - 1] # "option" BY <1>2, <2>1
  <2>3. role[l] = RoleAt(role, metas, args, l) BY <2>1 DEF RolesOf
  <2> QED BY <2>1, <2>2, <2>3 DEF RoleAt
<1>3. Nat \subseteq T
  <2> HIDE DEF T
  <2> QED BY <1>1, <1>2, SetInduction
<1>4. ASSUME NEW j \in i + 1..n PROVE role[j] = "operand"
  <2>1. n \in T /\ j \in i + 1..i + n /\ j <= n BY <1>3
  <2> QED BY <2>1
<1> QED BY <1>4

\* The parser comes to an argument that is no value, and has met no "--".
Reached(role, args, i) ==
    /\ i <= Len(args) => role[i] # "value"
    /\ \A j \in 1..i - 1 : role[j] # "end"

\* What it makes of the arguments from there on.
OperandsFrom(role, args, i) == {j \in i..Len(args) : role[j] = "operand"}

ReadFrom(q, metas, args, role, i) ==
    IF q.ok
    THEN /\ q.operands = Those(args, OperandsFrom(role, args, i))
         /\ \A j \in i..Len(args) : role[j] = "value" => \E s \in ToSet(q.set) : s.value = args[j]
    ELSE \E j \in i..Len(args) : role[j] = "option" /\ Wrong(metas, args, j)

LEMMA ReadsOn ==
    ASSUME NEW S, NEW metas, OptionTable(metas, S), NEW args \in Seq(Seq(S)),
           NEW role, RolesOf(role, metas, args),
           \A j \in 1..Len(args) : role[j] = "option" => ~Odd(metas, args[j]),
           NEW f, ArgByArg(f, metas, args, S), NEW i \in 1..Len(args) + 1, Reached(role, args, i),
           \A j \in i + 1..Len(args) + 1 : Reached(role, args, j) => ReadFrom(f[j], metas, args, role, j)
    PROVE  ReadFrom(f[i], metas, args, role, i)
<1> DEFINE n == Len(args)
<1>1. n \in Nat /\ DOMAIN args = 1..n /\ args \in Seq(Seq(S)) /\ \A j \in 1..n : args[j] \in Seq(S)
  BY LenProperties, ElementOfSeq
<1>2. f[i] = ParseAt(f, metas, args, i) /\ f[i] \in ParsedOf(args, S)
  BY DEF ArgByArg
<1> HIDE DEF n
<1>8. ASSUME i \in 1..n
      PROVE  /\ i # n => i + 1 \in 1..n /\ n \in i + 1..n /\ i + 1 > 1
             /\ i + 1 <= n => i # n
             /\ i + 2 <= n => i # n /\ i + 2 \in 1..n
             /\ i + 1 - 1 = i /\ i + 2 - 1 = i + 1 /\ i + 1 \in 1..n + 1 /\ i \in i..n
             /\ \A j \in i..n : j = i \/ j \in i + 1..n
             /\ \A j \in i..n : j = i \/ j = i + 1 \/ j \in i + 2..n
             /\ \A j \in i + 1..n : j \in i..n /\ j \in 1..n /\ i < j
             /\ \A j \in i + 2..n : j \in i..n /\ j \in 1..n
             /\ \A j \in 1..i : j \in 1..i - 1 \/ j = i
             /\ \A j \in 1..i + 1 : j \in 1..i - 1 \/ j = i \/ j = i + 1
  BY <1>1, <1>8, Beside
<1> USE DEF n
<1>3. CASE i > n
  <2>1. f[i] = [ok |-> TRUE, set |-> <<>>, operands |-> <<>>]
    BY <1>2, <1>3 DEF ParseAt
  <2>2. OperandsFrom(role, args, i) = {} /\ \A j \in i..n : FALSE
    BY <1>1, <1>3 DEF OperandsFrom
  <2>3. Those(args, {}) = <<>> BY <1>1, ThoseNone
  <2> QED BY <2>1, <2>2, <2>3 DEF ReadFrom
<1>4. ASSUME ~(i > n)
      PROVE  /\ i \in 1..n /\ i + 1 \in i + 1..n + 1 /\ role[i] # "value"
             /\ role[i] = IF args[i] = EndMark THEN "end"
                          ELSE IF LongArg(args[i]) \/ ShortArg(args[i]) THEN "option" ELSE "operand"
  <2>1. i \in 1..n /\ i + 1 \in i + 1..n + 1 /\ role[i] # "value"
    BY <1>1, <1>4 DEF Reached
  <2>2. role[i] = RoleAt(role, metas, args, i) BY <2>1 DEF RolesOf
  <2> QED BY <2>1, <2>2 DEF RoleAt, Reached
<1>5. CASE ~(i > n) /\ args[i] = EndMark
  <2>1. f[i] = [ok |-> TRUE, set |-> <<>>, operands |-> SubSeq(args, i + 1, n)]
    BY <1>2, <1>5 DEF ParseAt
  <2>2. i \in 1..n /\ role[i] = "end" BY <1>4, <1>5
  <2>3. \A j \in i + 1..n : role[j] = "operand" BY <1>1, <2>2, AfterEnd
  <2>4. \A j \in i..n : j = i \/ j \in i + 1..n BY <1>8, <2>2
  <2>5. OperandsFrom(role, args, i) = i + 1..n
    BY <1>8, <2>2, <2>3, <2>4 DEF OperandsFrom
  <2>6. Those(args, i + 1..n) = SubSeq(args, i + 1, n)
    <3>1. CASE i = n
      <4>1. i + 1..n = {} BY <1>1, <3>1
      <4>2. SubSeq(args, i + 1, n) = <<>>
        <5>1. SubSeq(args, i + 1, n) \in Seq(Seq(S)) /\ Len(SubSeq(args, i + 1, n)) = 0
          <6>1. i + 1 \in Int /\ \A j \in i + 1..n : j \in 1..n BY <1>1
          <6> QED BY <1>1, <3>1, <6>1, SubSeqProperties
        <5> QED BY <5>1, EmptySeq
      <4> QED BY <1>1, <4>1, <4>2, ThoseNone
    <3>2. CASE i # n
      <4>1. i + 1 \in 1..n /\ n \in i + 1..n BY <1>8, <2>2, <3>2
      <4> QED BY <1>1, <4>1, ThoseStretch
    <3> QED BY <3>1, <3>2
  <2>7. \A j \in i..n : role[j] # "value" BY <2>2, <2>3, <2>4
  <2> HIDE DEF n
  <2> QED BY <2>1, <2>5, <2>6, <2>7 DEF ReadFrom, n
<1>6. CASE ~(i > n) /\ args[i] # EndMark /\ (LongArg(args[i]) \/ ShortArg(args[i]))
  <2> DEFINE o == Option(metas, args, i)
             next == o.next
  <2>1. i \in 1..n /\ role[i] = "option" BY <1>4, <1>6
  <2>2. GoesOn(o, args, S, i) /\ Reads(o, metas, args, i)
    BY <1>1, <1>6, <2>1, OptionGoesOn, OptionReads
  <2> HIDE DEF o
  <2>3. f[i] = LET r == IF o.ok THEN f[next] ELSE Failed
               IN  IF r.ok THEN [r EXCEPT !.set = o.set \o @] ELSE Failed
    BY <1>2, <1>6 DEF ParseAt, o
  <2>4. CASE ~o.ok
    <3>1. ~f[i].ok BY <2>3, <2>4 DEF Failed
    <3>2. Wrong(metas, args, i) /\ i \in i..n
      BY <1>1, <2>1, <2>2, <2>4 DEF Reads
    <3> QED BY <2>1, <3>1, <3>2 DEF ReadFrom
  <2>5. CASE o.ok
    <3>1. next \in i + 1..n + 1 /\ o.set \in Seq(Occurrences(args, S))
      BY <2>2, <2>5 DEF GoesOn, TakenOf
    <3>2. /\ next = IF NeedsNext(metas, args[i]) THEN i + 2 ELSE i + 1
          /\ NeedsNext(metas, args[i]) =>
               i # n /\ \E s \in ToSet(o.set) : s.value = args[i + 1]
      BY <2>2, <2>5 DEF Reads
    <3> HIDE DEF next
    <3>11. /\ \A j \in i..n : j = i \/ j \in next..n \/ (NeedsNext(metas, args[i]) /\ j = i + 1)
           /\ \A j \in next..n : j \in i..n
           /\ \A j \in 1..next - 1 : j \in 1..i - 1 \/ j = i \/ (NeedsNext(metas, args[i]) /\ j = i + 1)
      <4> HIDE DEF n
      <4>1. /\ n \in Nat /\ i \in 1..n /\ next = IF NeedsNext(metas, args[i]) THEN i + 2 ELSE i + 1
            /\ NeedsNext(metas, args[i]) => i # n
        BY <1>1, <2>1, <3>2
      <4> QED BY ONLY <4>1, Beyond
    <3>3. ASSUME i # n
          PROVE  /\ i + 1 \in 1..n
                 /\ role[i + 1] = IF NeedsNext(metas, args[i]) THEN "value"
                                  ELSE RoleAt(role, metas, args, i + 1)
                 /\ ~NeedsNext(metas, args[i]) => role[i + 1] # "value"
      <4>1. i + 1 \in 1..n /\ i + 1 > 1 /\ i + 1 - 1 = i
        BY <1>8, <2>1, <3>3
      <4>2. role[i + 1] = RoleAt(role, metas, args, i + 1)
        BY <4>1 DEF RolesOf
      <4>3. role[i + 1] = IF i + 1 > 1 /\ role[i] = "option" /\ NeedsNext(metas, args[i]) THEN "value"
                          ELSE IF \E j \in 1..i + 1 - 1 : role[j] = "end" THEN "operand"
                          ELSE IF args[i + 1] = EndMark THEN "end"
                          ELSE IF LongArg(args[i + 1]) \/ ShortArg(args[i + 1]) THEN "option"
                          ELSE "operand"
        BY <4>1, <4>2 DEF RoleAt
      <4> QED BY <2>1, <4>1, <4>2, <4>3
    <3>4. \A j \in i..n : j = i \/ j \in next..n \/ (NeedsNext(metas, args[i]) /\ j = i + 1)
      BY <3>11
    <3>5. /\ \A j \in next..n : j \in i..n
          /\ NeedsNext(metas, args[i]) => role[i + 1] = "value"
      BY <3>11, <3>2, <3>3
    <3>6. Reached(role, args, next)
      <4>1. ASSUME next <= n PROVE role[next] # "value"
        <5>1. CASE ~NeedsNext(metas, args[i])
          <6>1. next = i + 1 /\ i # n
            <7>1. next = i + 1 BY <3>2, <5>1
            <7>2. i + 1 <= n BY <4>1, <7>1
            <7> QED BY <1>8, <2>1, <7>1, <7>2
          <6> QED BY <3>3, <5>1, <6>1
        <5>2. CASE NeedsNext(metas, args[i])
          <6>1. next = i + 2 /\ next \in 1..n /\ next - 1 = i + 1
            <7>1. next = i + 2 BY <3>2, <5>2
            <7>2. i + 2 <= n BY <4>1, <7>1
            <7> QED BY <1>8, <2>1, <7>1, <7>2
          <6>2. role[next] = RoleAt(role, metas, args, next)
            BY <6>1 DEF RolesOf
          <6>3. role[next - 1] # "option" BY <3>5, <5>2, <6>1
          <6> QED BY <6>2, <6>3 DEF RoleAt
        <5> QED BY <5>1, <5>2
      <4>2. ASSUME NEW j \in 1..next - 1 PROVE role[j] # "end"
        <5>1. j \in 1..i - 1 \/ j = i \/ (NeedsNext(metas, args[i]) /\ j = i + 1)
          BY <3>11
        <5> QED BY <2>1, <3>5, <5>1 DEF Reached
      <4> QED BY <4>1, <4>2 DEF Reached
    <3> DEFINE r == f[next]
    <3>7. ReadFrom(r, metas, args, role, next) /\ r \in ParsedOf(args, S)
      <4>1. next \in 1..n + 1 BY <1>1, <2>1, <3>1
      <4> QED BY <3>1, <3>6, <4>1 DEF ArgByArg
    <3>8. f[i] = IF r.ok THEN [r EXCEPT !.set = o.set \o @] ELSE Failed
      BY <2>3, <2>5
    <3> HIDE DEF r
    <3>9. CASE ~r.ok
      <4>1. PICK j \in next..n : role[j] = "option" /\ Wrong(metas, args, j)
        BY <3>7, <3>9 DEF ReadFrom
      <4>2. ~f[i].ok BY <3>8, <3>9 DEF Failed
      <4> QED BY <3>5, <4>1, <4>2 DEF ReadFrom
    <3>10. CASE r.ok
      <4>1. f[i].ok /\ f[i].operands = r.operands /\ f[i].set = o.set \o r.set
        BY <3>7, <3>8, <3>10 DEF ParsedOf
      <4>2. OperandsFrom(role, args, i) = OperandsFrom(role, args, next)
        BY <2>1, <3>4, <3>5 DEF OperandsFrom
      <4>3. r.set \in Seq(Occurrences(args, S)) BY <3>7 DEF ParsedOf
      <4>4. ASSUME NEW s PROVE s \in ToSet(o.set) \/ s \in ToSet(r.set) => s \in ToSet(f[i].set)
        BY <3>1, <4>1, <4>3, ToSetConcat
      <4>5. ASSUME NEW j \in i..n, role[j] = "value"
            PROVE  \E s \in ToSet(f[i].set) : s.value = args[j]
        <5>1. CASE j \in next..n
          <6>1. PICK s \in ToSet(r.set) : s.value = args[j]
            BY <3>7, <3>10, <4>5, <5>1 DEF ReadFrom
          <6> QED BY <4>4, <6>1
        <5>2. CASE NeedsNext(metas, args[i]) /\ j = i + 1
          <6>1. PICK s \in ToSet(o.set) : s.value = args[j]
            BY <3>2, <5>2
          <6> QED BY <4>4, <6>1
        <5> QED BY <2>1, <3>4, <4>5, <5>1, <5>2
      <4> QED BY <3>7, <3>10, <4>1, <4>2, <4>5 DEF ReadFrom
    <3> QED BY <3>9, <3>10
  <2> QED BY <2>4, <2>5
<1>7. CASE ~(i > n) /\ args[i] # EndMark /\ ~(LongArg(args[i]) \/ ShortArg(args[i]))
  <2> DEFINE next == i + 1
             r == f[next]
  <2>1. i \in 1..n /\ role[i] = "operand" /\ next \in i + 1..n + 1 /\ next \in 1..n + 1
    BY <1>4, <1>7
  <2>2. f[i] = IF r.ok THEN [r EXCEPT !.operands = <<args[i]>> \o @] ELSE Failed
    BY <1>2, <1>7 DEF ParseAt
  <2>3. \A j \in i..n : j = i \/ j \in next..n OBVIOUS
  <2>4. /\ \A j \in next..n : j \in i..n /\ i < j
        /\ \A j \in 1..next - 1 : j \in 1..i - 1 \/ j = i
        /\ next <= n => next \in 1..n /\ next - 1 = i
    BY <1>1, <2>1
  <2> HIDE DEF next
  <2>5. Reached(role, args, next)
    <3>1. ASSUME next <= n PROVE role[next] # "value"
      <4>1. role[next] = RoleAt(role, metas, args, next) /\ role[next - 1] # "option"
        BY <2>1, <2>4, <3>1 DEF RolesOf
      <4> QED BY <4>1 DEF RoleAt
    <3>2. \A j \in 1..next - 1 : role[j] # "end"
      BY <2>1, <2>4 DEF Reached
    <3> QED BY <3>1, <3>2 DEF Reached
  <2>6. ReadFrom(r, metas, args, role, next) /\ r \in ParsedOf(args, S)
    BY <2>1, <2>5 DEF ArgByArg
  <2> HIDE DEF r
  <2>7. CASE ~r.ok
    <3>1. PICK j \in next..n : role[j] = "option" /\ Wrong(metas, args, j)
      BY <2>6, <2>7 DEF ReadFrom
    <3>2. ~f[i].ok BY <2>2, <2>7 DEF Failed
    <3> QED BY <2>4, <3>1, <3>2 DEF ReadFrom
  <2>8. CASE r.ok
    <3> DEFINE A == {i}
               B == OperandsFrom(role, args, next)
    <3>1. f[i].ok /\ f[i].operands = <<args[i]>> \o r.operands /\ f[i].set = r.set
      BY <2>2, <2>6, <2>8 DEF ParsedOf
    <3>2. i \in i..n BY <2>1
    <3>3. OperandsFrom(role, args, i) = A \cup B
      BY <2>1, <2>3, <2>4, <3>2 DEF OperandsFrom
    <3>4. A \subseteq Int /\ B \subseteq Int /\ \A a \in A, b \in B : a < b
      BY <2>1, <2>4 DEF OperandsFrom
    <3> HIDE DEF B
    <3>5. Those(args, A \cup B) = Those(args, A) \o Those(args, B)
      BY <1>1, <3>4, ThoseConcat
    <3>6. Those(args, A) = <<args[i]>> BY <1>1, <2>1, ThoseOne
    <3>7. r.operands = Those(args, B) BY <2>6, <2>8 DEF ReadFrom, B
    <3>8. \A j \in i..n : role[j] = "value" => \E s \in ToSet(r.set) : s.value = args[j]
      BY <2>1, <2>3, <2>6, <2>8 DEF ReadFrom
    <3> QED BY <3>1, <3>3, <3>5, <3>6, <3>7, <3>8 DEF ReadFrom
  <2> QED BY <2>7, <2>8
<1> QED BY <1>3, <1>5, <1>6, <1>7

\* Whatever the command line is, the parser reads it as it is written.
LEMMA ReadsAsWritten ==
    ASSUME NEW S, NEW metas, OptionTable(metas, S), NEW args \in Seq(Seq(S)),
           NEW parsed, parsed.ok = parse_command(metas, args).ok,
           parsed.set = parse_command(metas, args).set,
           parsed.operands = parse_command(metas, args).operands
    PROVE  ReadAsWritten(metas, args, parsed)
<1> DEFINE n == Len(args)
           role == Roles(metas, args)
           options == {i \in DOMAIN args : role[i] = "option"}
<1>1. n \in Nat /\ DOMAIN args = 1..n BY LenProperties
<1>2. RolesOf(role, metas, args) BY <1>1, RolesAre DEF RolesOf
<1>3. PICK f : ArgByArg(f, metas, args, S) /\ parse_command(metas, args) = f[1]
  BY ParseIs
<1>4. ASSUME \A i \in options : ~Odd(metas, args[i])
      PROVE  ReadFrom(f[1], metas, args, role, 1)
  <2> DEFINE T == {i \in 1..n + 1 : Reached(role, args, i) => ReadFrom(f[i], metas, args, role, i)}
  <2>1. \A j \in 1..Len(args) : role[j] = "option" => ~Odd(metas, args[j])
    BY <1>1, <1>4
  <2> HIDE DEF role, options
  <2>2. ASSUME NEW i \in 1..n + 1, \A j \in i + 1..n + 1 : j \in T PROVE i \in T
    <3> SUFFICES ASSUME Reached(role, args, i) PROVE ReadFrom(f[i], metas, args, role, i)
      OBVIOUS
    <3>1. \A j \in i + 1..Len(args) + 1 : Reached(role, args, j) => ReadFrom(f[j], metas, args, role, j)
      BY <2>2
    <3> QED BY <1>2, <1>3, <2>1, <3>1, ReadsOn
  <2>3. 1..n + 1 \subseteq T
    <3>1. n + 1 \in Nat BY <1>1
    <3> HIDE DEF T, n
    <3> QED BY <2>2, <3>1, BackwardInduction
  <2>4. Reached(role, args, 1)
    <3>1. 1 <= Len(args) => role[1] # "value"
      <4> SUFFICES ASSUME 1 <= Len(args) PROVE role[1] # "value" OBVIOUS
      <4>1. role[1] = RoleAt(role, metas, args, 1)
        BY <1>1, <1>2 DEF RolesOf
      <4>2. RoleAt(role, metas, args, 1) \in {"operand", "end", "option"}
        BY DEF RoleAt
      <4> QED BY <4>1, <4>2
    <3> QED BY <3>1 DEF Reached
  <2>5. 1 \in 1..n + 1 BY <1>1
  <2> QED BY <2>3, <2>4, <2>5
<1>5. ASSUME \A i \in options : ~Odd(metas, args[i])
      PROVE  IF parsed.ok
             THEN /\ parsed.operands = Having(args, role, "operand")
                  /\ \A value \in ToSet(Having(args, role, "value")) :
                       \E s \in ToSet(parsed.set) : s.value = value
             ELSE \E i \in options :
                    \/ ~KnownOption(metas, args[i])
                    \/ NeedsNext(metas, args[i]) /\ i = Len(args)
                    \/ TakesNumber(metas, args[i])
  <2>1. ReadFrom(f[1], metas, args, role, 1) BY <1>4, <1>5
  <2>2. parsed.ok = f[1].ok /\ parsed.set = f[1].set /\ parsed.operands = f[1].operands
    BY <1>3
  <2> HIDE DEF role
  <2>3. CASE ~parsed.ok
    <3>1. PICK i \in 1..Len(args) : role[i] = "option" /\ Wrong(metas, args, i)
      BY <2>1, <2>2, <2>3 DEF ReadFrom
    <3>2. i \in options BY <1>1, <3>1
    <3> HIDE DEF options
    <3> QED BY <2>3, <3>1, <3>2 DEF Wrong
  <2>4. CASE parsed.ok
    <3>1. OperandsFrom(role, args, 1) = {i \in DOMAIN args : role[i] = "operand"}
      BY <1>1 DEF OperandsFrom
    <3>2. parsed.operands = Having(args, role, "operand")
      BY <2>1, <2>2, <2>4, <3>1 DEF ReadFrom, Having
    <3>3. ASSUME NEW value \in ToSet(Having(args, role, "value"))
          PROVE  \E s \in ToSet(parsed.set) : s.value = value
      <4> DEFINE keep == {i \in DOMAIN args : role[i] = "value"}
      <4>1. keep \subseteq 1..Len(args) /\ value \in ToSet(Those(args, keep))
        BY <1>1, <3>3 DEF Having
      <4> HIDE DEF keep
      <4>2. PICK i \in keep : value = args[i]
        <5>1. args \in Seq(Seq(S)) /\ keep \subseteq 1..Len(args) /\ value \in ToSet(Those(args, keep))
          BY <4>1
        <5>2. Picked(args, keep, value) BY ONLY <5>1, ThoseSet
        <5> QED BY <5>2 DEF Picked
      <4>3. i \in 1..Len(args) /\ role[i] = "value"
        BY <1>1, <4>2 DEF keep
      <4> QED BY <2>1, <2>2, <2>4, <4>2, <4>3 DEF ReadFrom
    <3> QED BY <2>4, <3>2, <3>3
  <2> QED BY <2>3, <2>4
<1> QED BY <1>5 DEF ReadAsWritten

------------------------------------------------------------------------------
(* What the dispatcher rewrites.                                            *)

\* What is in two sequences joined, and in one without its first element.
LEMMA FoundInConcat ==
    ASSUME NEW S, NEW s \in Seq(S), NEW t \in Seq(S), NEW x
    PROVE  x \in ToSet(s \o t) <=> x \in ToSet(s) \/ x \in ToSet(t)
<1> DEFINE u == s \o t
           m == Len(s)
           n == Len(t)
<1>1. /\ m \in Nat /\ n \in Nat /\ DOMAIN s = 1..m /\ DOMAIN t = 1..n
      /\ DOMAIN u = 1..m + n
      /\ \A k \in 1..m + n : u[k] = IF k <= m THEN s[k] ELSE t[k - m]
  BY ConcatProperties, LenProperties
<1>2. \A k \in 1..m + n : IF k <= m THEN k \in 1..m ELSE k - m \in 1..n
  BY <1>1
<1>3. x \in ToSet(u) => x \in ToSet(s) \/ x \in ToSet(t)
  <2> HIDE DEF u, m, n
  <2> QED BY <1>1, <1>2 DEF ToSet
<1> QED BY <1>3, ToSetConcat

LEMMA FoundInTail ==
    ASSUME NEW S, NEW s \in Seq(S), s # <<>>, NEW x
    PROVE  x \in ToSet(s) <=> x = s[1] \/ x \in ToSet(Tail(s))
<1> DEFINE n == Len(s)
           t == Tail(s)
<1>1. /\ n \in Nat /\ n >= 1 /\ DOMAIN s = 1..n /\ Len(t) = n - 1 /\ DOMAIN t = 1..n - 1
      /\ \A k \in 1..n - 1 : t[k] = s[k + 1]
  OBVIOUS
<1>2. /\ 1 \in 1..n
      /\ \A k \in 1..n : k = 1 \/ (k - 1 \in 1..n - 1 /\ k - 1 + 1 = k)
      /\ \A k \in 1..n - 1 : k + 1 \in 1..n
  BY <1>1
<1> HIDE DEF t, n
<1>3. x \in ToSet(s) => x = s[1] \/ x \in ToSet(t)
  <2> SUFFICES ASSUME NEW k \in 1..n, x = s[k] PROVE x = s[1] \/ x \in ToSet(t)
    BY <1>1 DEF ToSet
  <2>1. CASE k = 1 BY <2>1
  <2>2. CASE k - 1 \in 1..n - 1 /\ k - 1 + 1 = k
    <3>1. t[k - 1] = s[k] BY <1>1, <2>2
    <3> QED BY <1>1, <2>2, <3>1 DEF ToSet
  <2> QED BY <1>2, <2>1, <2>2
<1>4. x \in ToSet(t) => x \in ToSet(s)
  <2> SUFFICES ASSUME NEW k \in 1..n - 1, x = t[k] PROVE x \in ToSet(s)
    BY <1>1 DEF ToSet
  <2>1. x = s[k + 1] /\ k + 1 \in 1..n BY <1>1, <1>2
  <2> QED BY <1>1, <2>1 DEF ToSet
<1>5. s[1] \in ToSet(s) BY <1>1, <1>2 DEF ToSet
<1> QED BY <1>3, <1>4, <1>5 DEF t

\* A text begins with a number, which may be empty, and its suffix begins behind the digits.
NumberEnds(text, n) ==
    /\ Number(text) = SubSeq(text, 1, n)
    /\ \A i \in 1..n : text[i] \in Digits
    /\ n < Len(text) => text[n + 1] \notin Digits

LEMMA NumberIs ==
    ASSUME NEW S, NEW text \in Seq(S)
    PROVE  \E n \in 0..Len(text) : NumberEnds(text, n)
<1> DEFINE m == Len(text)
           A == {n \in 0..m : n = m \/ text[n + 1] \notin Digits}
           Is(n) == IsDigits(SubSeq(text, 1, n)) /\ (n < m => text[n + 1] \notin Digits)
<1>1. m \in Nat /\ DOMAIN text = 1..m BY LenProperties
<1>2. \A n \in 0..m : IsDigits(SubSeq(text, 1, n)) <=> \A i \in 1..n : text[i] \in Digits
  <2> SUFFICES ASSUME NEW n \in 0..m
               PROVE  IsDigits(SubSeq(text, 1, n)) <=> \A i \in 1..n : text[i] \in Digits
    OBVIOUS
  <2>1. DOMAIN SubSeq(text, 1, n) = 1..n /\ \A i \in 1..n : SubSeq(text, 1, n)[i] = text[i]
    BY <1>1
  <2> QED BY <2>1 DEF IsDigits
<1>3. PICK n \in A : \A l \in A : n <= l
  <2>1. A \subseteq Nat /\ m \in A BY <1>1
  <2> HIDE DEF A
  <2> QED BY <2>1, LeastNat
<1>9. n \in 0..m /\ (n = m \/ text[n + 1] \notin Digits) OBVIOUS
<1>4. ASSUME NEW i \in 1..n PROVE text[i] \in Digits
  <2>1. i - 1 \in 0..m /\ ~(n <= i - 1) /\ i - 1 + 1 = i
    <3>1. m \in Nat /\ n \in 0..m /\ i \in 1..n BY <1>1, <1>9
    <3> HIDE DEF m
    <3> QED BY ONLY <3>1
  <2>2. i - 1 \notin A
    <3> HIDE DEF A
    <3> QED BY <1>3, <2>1
  <2> QED BY <2>1, <2>2
<1>5. n \in 0..m /\ Is(n)
  <2>1. IsDigits(SubSeq(text, 1, n)) BY <1>2, <1>4, <1>9
  <2>2. n = m => ~(n < m) BY <1>1
  <2> QED BY <1>9, <2>1, <2>2
<1>6. Number(text) = SubSeq(text, 1, CHOOSE k \in 0..m : Is(k))
  BY DEF Number
<1> DEFINE c == CHOOSE k \in 0..m : Is(k)
<1>7. c \in 0..m /\ Is(c)
  <2> HIDE DEF Is
  <2> QED BY <1>5
<1>8. NumberEnds(text, c)
  <2> HIDE DEF c
  <2> QED BY <1>2, <1>6, <1>7 DEF NumberEnds, c
<1> HIDE DEF c
<1> QED BY <1>7, <1>8

\* A text of digits is its number.
LEMMA NumberOfDigits ==
    ASSUME NEW S, NEW text \in Seq(S), IsDigits(text)
    PROVE  Number(text) = text /\ Suffix(text) = <<>>
<1>1. PICK n \in 0..Len(text) : NumberEnds(text, n) BY NumberIs
<1>2. Len(text) \in Nat /\ DOMAIN text = 1..Len(text) BY LenProperties
<1>3. ~(n < Len(text))
  <2>1. n < Len(text) => n + 1 \in 1..Len(text) BY <1>2
  <2> QED BY <1>1, <1>2, <2>1 DEF NumberEnds, IsDigits
<1>4. n = Len(text)
  <2> DEFINE m == Len(text)
  <2>1. m \in Nat /\ n \in 0..m /\ ~(n < m) BY <1>2, <1>3
  <2> HIDE DEF m
  <2>2. n = m BY ONLY <2>1
  <2> QED BY <2>2 DEF m
<1>5. Number(text) = text
  <2>1. SubSeq(text, 1, Len(text)) = text BY <1>2
  <2> QED BY <1>1, <1>4, <2>1 DEF NumberEnds
<1>6. SubSeq(text, Len(text) + 1, Len(text)) = <<>>
  <2>1. SubSeq(text, Len(text) + 1, Len(text)) \in Seq(S) /\ Len(SubSeq(text, Len(text) + 1, Len(text))) = 0
    BY <1>2, SubSeqProperties
  <2> QED BY <2>1, EmptySeq
<1> QED BY <1>5, <1>6 DEF Suffix

------------------------------------------------------------------------------
\* An argument that asks for no help.
Asking == {Help, <<"-", "h">>}
Unasking(S) == Seq(S) \ Asking

LEMMA DigitsAskNothing ==
    ASSUME NEW S, NEW x \in Seq(S), x[1] \in Digits \cup {"+"}
    PROVE  x \in Unasking(S)
<1>1. Help[1] = "-" /\ <<"-", "h">>[1] = "-" BY DEF Help
<1>2. "-" \notin Digits \cup {"+"} BY DEF Digits
<1> QED BY <1>1, <1>2 DEF Unasking, Asking


LEMMA LettersAskNothing ==
    ASSUME NEW S, {"-", "n", "c", "q", "v", "K", "i", "B"} \subseteq S
    PROVE  /\ <<"-", "n">> \in Unasking(S) /\ <<"-", "c">> \in Unasking(S)
           /\ <<"-", "q">> \in Unasking(S) /\ <<"-", "v">> \in Unasking(S)
<1>1. /\ <<"-", "n">> \in Seq(S) /\ <<"-", "c">> \in Seq(S)
      /\ <<"-", "q">> \in Seq(S) /\ <<"-", "v">> \in Seq(S)
  OBVIOUS
<1>2. \A c \in {"n", "c", "q", "v"} : <<"-", c>> # Help /\ <<"-", c>> # <<"-", "h">>
  <2> SUFFICES ASSUME NEW c \in {"n", "c", "q", "v"} PROVE <<"-", c>> # Help /\ <<"-", c>> # <<"-", "h">>
    OBVIOUS
  <2>1. <<"-", c>>[2] = c /\ Help[2] = "-" /\ <<"-", "h">>[2] = "h"
    BY DEF Help
  <2>2. c # "-" /\ c # "h" OBVIOUS
  <2> QED BY <2>1, <2>2
<1> QED BY <1>1, <1>2 DEF Unasking, Asking

\* -NUM and +NUM are replaced by two or three arguments, none of which asks for help, and
\* do not ask for it themselves.
Rewrites(a, S) ==
    /\ a \in Unasking(S)
    /\ LegacyCount(a) \in Seq(Unasking(S)) /\ Len(LegacyCount(a)) >= 2
    /\ a[1] = "+" => LegacyCount(a) = <<<<"-", "n">>, a>>
    /\ (a[1] = "-" /\ IsDigits(Tail(a))) => LegacyCount(a) = <<<<"-", "n">>, Tail(a)>>

LEMMA LegacyRewrites ==
    ASSUME NEW S, {"-", "n", "c", "q", "v", "K", "i", "B"} \subseteq S, NEW a \in Seq(S),
           is_legacy_line_count(a) \/ is_legacy_tail_from_start_count(a)
    PROVE  Rewrites(a, S)
<1> DEFINE t == Tail(a)
           U == Unasking(S)
           n == Number(t)
           s == Suffix(t)
<1>1. Len(a) \in Nat /\ Len(a) >= 2 /\ a # <<>>
  BY DEF is_legacy_line_count, is_legacy_tail_from_start_count, ShortArg
<1>2. t \in Seq(S) /\ t[1] = a[2] /\ Len(t) = Len(a) - 1 BY <1>1
<1>3. <<"-", "n">> \in U /\ <<"-", "c">> \in U /\ <<"-", "q">> \in U /\ <<"-", "v">> \in U
  BY LettersAskNothing
<1>4. \A x, y \in U : <<x, y>> \in Seq(U) /\ Len(<<x, y>>) = 2
  <2> HIDE DEF U
  <2> QED OBVIOUS
<1>5. \A x, y, z \in U : <<x, y, z>> \in Seq(U) /\ Len(<<x, y, z>>) = 3
  <2> HIDE DEF U
  <2> QED OBVIOUS
<1>6. CASE a[1] = "+"
  <2>1. a \in U BY <1>6, DigitsAskNothing
  <2>2. LegacyCount(a) = <<<<"-", "n">>, a>> BY <1>6 DEF LegacyCount
  <2>3. a[1] # "-" BY <1>6
  <2>4. <<<<"-", "n">>, a>> \in Seq(U) /\ Len(<<<<"-", "n">>, a>>) >= 2
    <3> HIDE DEF U
    <3> QED BY <1>3, <1>4, <2>1
  <2> QED BY <2>1, <2>2, <2>3, <2>4 DEF Rewrites
<1>7. CASE a[1] # "+"
  <2>1. is_legacy_line_count(a) /\ n # <<>> /\ a[1] = "-"
    BY <1>7 DEF is_legacy_line_count, is_legacy_tail_from_start_count, ShortArg
  <2>2. PICK m \in 0..Len(t) : NumberEnds(t, m) BY <1>2, NumberIs
  <2>3. n = SubSeq(t, 1, m) /\ \A i \in 1..m : t[i] \in Digits
    BY <2>2 DEF NumberEnds
  <2>4. Len(t) \in Nat /\ m \in Nat /\ m <= Len(t) BY <1>1, <1>2
  <2> HIDE DEF n, t, U
  <2>5. n \in Seq(S) /\ Len(n) = m /\ \A i \in 1..m : n[i] = t[i]
    BY <1>2, <2>3, <2>4
  <2>6. m >= 1 BY <2>1, <2>4, <2>5, EmptySeq
  <2>7. t[1] \in Digits /\ n[1] \in Digits BY <2>3, <2>5, <2>6
  <2>8. t \in U /\ n \in U BY <1>2, <2>5, <2>7, DigitsAskNothing DEF U
  <2>9. n \o <<"K", "i", "B">> \in U
    <3> DEFINE kib == <<"K", "i", "B">>
    <3>1. kib \in Seq(S) OBVIOUS
    <3> HIDE DEF kib
    <3>2. n \o kib \in Seq(S) /\ (n \o kib)[1] = n[1]
      BY <2>4, <2>5, <2>6, <3>1, ConcatProperties
    <3> QED BY <2>7, <3>2, DigitsAskNothing DEF U, kib
  <2>10. a \in U
    <3>1. a[2] \in Digits BY <1>2, <2>7
    <3>2. Help[2] = "-" /\ <<"-", "h">>[2] = "h" /\ "-" \notin Digits /\ "h" \notin Digits
      BY DEF Help, Digits
    <3> QED BY <3>1, <3>2 DEF U, Unasking, Asking
  <2>11. LegacyCount(a) =
           CASE s = <<"c">> -> <<<<"-", "c">>, n>>
             [] s = <<"b">> -> <<<<"-", "c">>, t>>
             [] s = <<"k">> -> <<<<"-", "c">>, n \o <<"K", "i", "B">>>>
             [] s = <<"q">> -> <<<<"-", "n">>, n, <<"-", "q">>>>
             [] s = <<"v">> -> <<<<"-", "n">>, n, <<"-", "v">>>>
             [] OTHER -> <<<<"-", "n">>, t>>
    BY <1>7 DEF LegacyCount, n, t
  <2> DEFINE x1 == <<<<"-", "c">>, n>>
             x2 == <<<<"-", "c">>, t>>
             x3 == <<<<"-", "c">>, n \o <<"K", "i", "B">>>>
             x4 == <<<<"-", "n">>, n, <<"-", "q">>>>
             x5 == <<<<"-", "n">>, n, <<"-", "v">>>>
             x6 == <<<<"-", "n">>, t>>
  <2>12. \A x \in {x1, x2, x3, x4, x5, x6} : x \in Seq(U) /\ Len(x) >= 2
    <3>1. /\ x1 \in Seq(U) /\ Len(x1) >= 2 /\ x2 \in Seq(U) /\ Len(x2) >= 2
          /\ x3 \in Seq(U) /\ Len(x3) >= 2 /\ x6 \in Seq(U) /\ Len(x6) >= 2
      BY <1>3, <1>4, <2>8, <2>9
    <3>2. x4 \in Seq(U) /\ Len(x4) >= 2 /\ x5 \in Seq(U) /\ Len(x5) >= 2
      BY <1>3, <1>5, <2>8
    <3> HIDE DEF x1, x2, x3, x4, x5, x6
    <3> QED BY <3>1, <3>2
  <2>13. s = <<>> => s # <<"c">> /\ s # <<"b">> /\ s # <<"k">> /\ s # <<"q">> /\ s # <<"v">>
    <3> HIDE DEF s
    <3> QED OBVIOUS
  <2>14. IsDigits(t) => s = <<>> BY <1>2, NumberOfDigits
  <2> HIDE DEF s, x1, x2, x3, x4, x5, x6
  <2>15. LegacyCount(a) \in {x1, x2, x3, x4, x5, x6} /\ (s = <<>> => LegacyCount(a) = x6)
    <3>1. LegacyCount(a) =
            CASE s = <<"c">> -> x1 [] s = <<"b">> -> x2 [] s = <<"k">> -> x3
              [] s = <<"q">> -> x4 [] s = <<"v">> -> x5 [] OTHER -> x6
      BY <2>11 DEF x1, x2, x3, x4, x5, x6
    <3> QED BY <2>13, <3>1
  <2>16. IsDigits(t) => LegacyCount(a) = <<<<"-", "n">>, t>>
    BY <2>14, <2>15 DEF x6
  <2> QED BY <1>7, <2>10, <2>12, <2>15, <2>16 DEF Rewrites, U, t
<1> QED BY <1>6, <1>7

\* An -n in front that takes a string is the first option there is, with the argument
\* behind it.
LEMMA CountComesFirst ==
    ASSUME NEW S, NEW metas, OptionTable(metas, S), NEW args \in Seq(Seq(S)), Len(args) >= 2,
           args[1] = <<"-", "n">>, NEW k \in Flag(metas, "n"), metas[k].type = "String",
           parse_command(metas, args).ok
    PROVE  Head(parse_command(metas, args).set) = [opt |-> k, value |-> args[2]]
<1> DEFINE a == <<"-", "n">>
           one == [opt |-> k, value |-> args[2]]
<1>1. Len(args) \in Nat /\ 1 \in 1..Len(args) /\ 1 # Len(args) /\ a = args[1] /\ 2 \in 1..Len(args)
  <2>1. Len(args) \in Nat BY LenProperties
  <2> DEFINE n == Len(args)
  <2>2. n \in Nat /\ n >= 2 BY <2>1
  <2> HIDE DEF n
  <2>3. 1 \in 1..n /\ 1 # n /\ 2 \in 1..n BY ONLY <2>2
  <2> QED BY <2>1, <2>3 DEF n
<1>2. Len(a) = 2 /\ DOMAIN a = 1..2 /\ a[1] = "-" /\ a[2] = "n" /\ a \in Seq(S)
  <2>1. a \in Seq(S) BY <1>1, ElementOfSeq
  <2>2. Len(a) = 2 /\ DOMAIN a = 1..2 /\ a[1] = "-" /\ a[2] = "n"
    OBVIOUS
  <2> QED BY <2>1, <2>2
<1> HIDE DEF a
<1>3. ShortArg(a) /\ ~LongArg(a) /\ a # EndMark
  <2>1. EndMark[2] = "-" BY DEF EndMark
  <2> QED BY <1>2, <2>1 DEF ShortArg, LongArg
<1>4. Named(metas, a) = {}
  <2>1. Equals(a) = {} BY <1>2 DEF Equals
  <2>2. NameOf(a) = a BY <2>1 DEF NameOf
  <2>3. {k1 \in DOMAIN metas :
           \/ LongArg(a) /\ metas[k1].long = (IF Whole(metas, a) THEN a ELSE NameOf(a))
           \/ ShortArg(a) /\ metas[k1].short = NameOf(a) /\ Len(NameOf(a)) > 2} = {}
    <3>1. ~(Len(NameOf(a)) > 2)
      <4>1. Len(NameOf(a)) = 2 BY <1>2, <2>2
      <4> QED BY ONLY <4>1
    <3> QED BY <1>3, <3>1
  <2>4. Foremost({}) = {} BY DEF Foremost
  <2> QED BY <2>3, <2>4 DEF Named
<1>5. Option(metas, args, 1) = Cluster(metas, args, 1)
  <2>1. OptionForms(metas, args, 1) BY <1>1, <1>3, OptionIs
  <2> QED BY <1>1, <1>3, <1>4, <2>1 DEF OptionForms
<1>6. PICK go : FlagByFlag(go, metas, args, S, 1) /\ Cluster(metas, args, 1) = go[2]
  BY <1>1, <1>2, ClusterIs
<1>7. go[2] = ClusterAt(go, metas, args, 1, 2)
  <2>1. 2 \in 2..Len(args[1]) + 1 BY <1>1, <1>2
  <2> QED BY <1>6, <2>1 DEF FlagByFlag
<1>8. Find(ShortNames(metas), <<"-", "n">>) = k /\ k \in DOMAIN metas /\ k \in Nat \ {0}
  <2> DEFINE f == Find(ShortNames(metas), <<"-", "n">>)
  <2>1. IF f = 0 THEN Flag(metas, "n") = {}
        ELSE f \in DOMAIN metas /\ Flag(metas, "n") = {f}
    BY FlagIs
  <2> HIDE DEF f
  <2>2. f = k /\ f \in DOMAIN metas BY <2>1
  <2> QED BY <2>2 DEF f, OptionTable
<1>9. SubSeq(a, 3, 2) = <<>>
  <2>1. SubSeq(a, 3, 2) \in Seq(S) /\ Len(SubSeq(a, 3, 2)) = 0
    BY <1>2, SubSeqProperties
  <2> QED BY <2>1, EmptySeq
<1>10. go[2] = Occurrence(k, args[2], 3)
  <2>1. go[2] = Valued(metas, k, <<>> # <<>>, <<>>, args, 1)
    <3>1. args[1][2] = "n" /\ Len(args[1]) = 2 /\ SubSeq(args[1], 2 + 1, Len(args[1])) = <<>>
      BY <1>1, <1>2, <1>9
    <3>2. ~(2 > 2) /\ k # 0 /\ metas[k].type # "Bool" BY <1>8
    <3> QED BY <1>7, <1>8, <3>1, <3>2 DEF ClusterAt
  <2>2. Valued(metas, k, <<>> # <<>>, <<>>, args, 1) = Checked(metas, k, args[1 + 1], 1 + 2)
    BY <1>1 DEF Valued
  <2>3. Checked(metas, k, args[1 + 1], 1 + 2) = Occurrence(k, args[2], 3)
    BY DEF Checked
  <2> QED BY <2>1, <2>2, <2>3
<1> DEFINE o == Option(metas, args, 1)
<1>11. o.ok /\ o.set = <<one>> /\ o.next = 3
  BY <1>5, <1>6, <1>10 DEF Occurrence
<1>12. GoesOn(o, args, S, 1) BY <1>1, <1>3, OptionGoesOn
<1>13. PICK f : ArgByArg(f, metas, args, S) /\ parse_command(metas, args) = f[1]
  BY ParseIs
<1> HIDE DEF o, one
<1>14. f[1] = LET r == IF o.ok THEN f[o.next] ELSE Failed
              IN  IF r.ok THEN [r EXCEPT !.set = o.set \o @] ELSE Failed
  <2>1. f[1] = ParseAt(f, metas, args, 1) BY <1>1, <1>13 DEF ArgByArg
  <2>2. ~(1 > Len(args)) BY <1>1
  <2> QED BY <1>1, <1>3, <2>1, <2>2 DEF ParseAt, o
<1> DEFINE r == f[3]
<1>15. f[1] = IF r.ok THEN [r EXCEPT !.set = <<one>> \o @] ELSE Failed
  BY <1>11, <1>14
<1>16. r \in ParsedOf(args, S)
  <2>1. 3 \in 1..Len(args) + 1 BY <1>1
  <2> QED BY <1>13, <2>1 DEF ArgByArg
<1>17. f[1].set = <<one>> \o r.set /\ r.set \in Seq(Occurrences(args, S))
  <2>1. f[1].ok /\ ~Failed.ok BY <1>13 DEF Failed
  <2> HIDE DEF r
  <2>2. r.ok BY <1>15, <2>1
  <2> QED BY <1>15, <1>16, <2>2 DEF ParsedOf
<1>18. <<one>> \in Seq(Occurrences(args, S))
  BY <1>11, <1>12 DEF GoesOn, TakenOf
<1>19. Head(<<one>> \o r.set) = one
  <2> HIDE DEF r
  <2>1. Len(<<one>>) = 1 /\ <<one>>[1] = one /\ Len(r.set) \in Nat
    BY <1>17, LenProperties
  <2>2. (<<one>> \o r.set)[1] = one /\ Len(<<one>> \o r.set) = 1 + Len(r.set)
    BY <1>17, <1>18, <2>1, ConcatProperties
  <2> QED BY <1>17, <1>18, <2>1, <2>2
<1> QED BY <1>13, <1>17, <1>19 DEF one

\* What the dispatcher owes its caller.
CountRight(name, metas, args, result) ==
    LET rewritten == needs_head_tail_count_rewrite(name, args)
        first == args[1]
        given == IF rewritten THEN LegacyCount(first) \o Tail(args) ELSE args
        asked == \/ Help \in ToSet(args)
                 \/ <<"-", "h">> \in ToSet(args) /\ Flag(metas, "h") = {}
    IN  IF result.status = "help" THEN asked
        ELSE /\ ~asked
             /\ ReadAsWritten(metas, given,
                  [ok |-> result.status = "run", set |-> result.set, operands |-> result.operands])
             /\ \A n \in Flag(metas, "n") :
                  (rewritten /\ result.status = "run" /\ metas[n].type = "String") =>
                    /\ first[1] = "+" => Head(result.set) = [opt |-> n, value |-> first]
                    /\ first[1] = "-" /\ IsDigits(Tail(first)) =>
                         Head(result.set) = [opt |-> n, value |-> Tail(first)]

LEMMA DispatchReads ==
    ASSUME NEW S, {"-", "n", "c", "q", "v", "K", "i", "B"} \subseteq S,
           NEW metas, OptionTable(metas, S), NEW args \in Seq(Seq(S)), NEW name
    PROVE  CountRight(name, metas, args, dispatch(name, metas, args))
<1> DEFINE rewritten == needs_head_tail_count_rewrite(name, args)
           first == args[1]
           given == IF rewritten THEN LegacyCount(first) \o Tail(args) ELSE args
           asked == \/ Help \in ToSet(args)
                    \/ <<"-", "h">> \in ToSet(args) /\ Flag(metas, "h") = {}
           help == \/ Help \in ToSet(given)
                   \/ <<"-", "h">> \notin ToSet(ShortNames(metas)) /\ <<"-", "h">> \in ToSet(given)
           parsed == parse_command(metas, given)
           U == Unasking(S)
<1>1. ASSUME rewritten
      PROVE  /\ args # <<>> /\ first \in Seq(S) /\ Rewrites(first, S)
             /\ Tail(args) \in Seq(Seq(S)) /\ LegacyCount(first) \in Seq(Seq(S))
  <2>1. args # <<>> /\ (is_legacy_line_count(first) \/ is_legacy_tail_from_start_count(first))
    BY <1>1 DEF needs_head_tail_count_rewrite
  <2>2. 1 \in 1..Len(args) /\ Tail(args) \in Seq(Seq(S)) BY <2>1
  <2>3. first \in Seq(S) BY <2>2, ElementOfSeq
  <2>4. Rewrites(first, S)
    <3> HIDE DEF first
    <3> QED BY <2>1, <2>3, LegacyRewrites
  <2>5. LegacyCount(first) \in Seq(Seq(S))
    <3>1. LegacyCount(first) \in Seq(Unasking(S)) BY <2>4 DEF Rewrites
    <3>2. Unasking(S) \subseteq Seq(S) BY DEF Unasking
    <3> QED BY <3>1, <3>2, SeqMonotonic
  <2> QED BY <2>1, <2>2, <2>3, <2>4, <2>5
<1>2. given \in Seq(Seq(S))
  <2> HIDE DEF rewritten, first
  <2>1. rewritten => LegacyCount(first) \o Tail(args) \in Seq(Seq(S))
    BY <1>1, ConcatProperties
  <2> QED BY <2>1
<1>3. ASSUME NEW x \in Asking PROVE x \in ToSet(given) <=> x \in ToSet(args)
  <2>1. CASE ~rewritten BY <2>1
  <2>2. CASE rewritten
    <3> DEFINE l == LegacyCount(first)
               t == Tail(args)
    <3>1. l \in Seq(U) /\ first \in U BY <1>1, <2>2 DEF Rewrites
    <3>2. x \notin U BY DEF Unasking
    <3>3. l \in Seq(Seq(S)) /\ t \in Seq(Seq(S)) /\ given = l \o t /\ args # <<>>
      BY <1>1, <2>2
    <3>4. x \in ToSet(args) <=> x = args[1] \/ x \in ToSet(t)
      BY <3>3, FoundInTail
    <3> HIDE DEF l, t, U, given
    <3>5. x \notin ToSet(l)
      <4>1. \A k \in DOMAIN l : l[k] \in U
        BY <3>1, ElementOfSeq, LenProperties
      <4> QED BY <3>2, <4>1 DEF ToSet
    <3>6. x \in ToSet(l \o t) <=> x \in ToSet(l) \/ x \in ToSet(t)
      BY <3>3, FoundInConcat
    <3> QED BY <3>1, <3>2, <3>3, <3>4, <3>5, <3>6
  <2> QED BY <2>1, <2>2
<1>4. <<"-", "h">> \notin ToSet(ShortNames(metas)) <=> Flag(metas, "h") = {}
  <2> DEFINE h == <<"-", "h">>
             k == Find(ShortNames(metas), h)
             B == {l \in DOMAIN metas : metas[l].short = h}
  <2>1. h \in ToSet(ShortNames(metas)) <=> B # {}
    <3>1. DOMAIN ShortNames(metas) = DOMAIN metas /\ \A l \in DOMAIN metas : ShortNames(metas)[l] = metas[l].short
      BY DEF ShortNames
    <3> HIDE DEF h
    <3> QED BY <3>1 DEF ToSet
  <2>2. FirstIn(k, B)
    <3>1. h # <<>> OBVIOUS
    <3> HIDE DEF h
    <3> QED BY <3>1, ShortIs
  <2>3. Flag(metas, "h") = Foremost(B) BY DEF Flag
  <2> HIDE DEF B, h, k
  <2>4. Foremost(B) = {} <=> B = {} BY <2>2 DEF FirstIn
  <2> QED BY <2>1, <2>3, <2>4 DEF h
<1>5. help <=> asked
  <2>1. Help \in Asking /\ <<"-", "h">> \in Asking BY DEF Asking
  <2> HIDE DEF given
  <2> QED BY <1>3, <1>4, <2>1
<1>6. dispatch(name, metas, args) =
        IF help THEN [status |-> "help", set |-> <<>>, operands |-> <<>>] ELSE Handled(parsed)
  BY DEF dispatch
<1> DEFINE result == dispatch(name, metas, args)
<1>7. CASE help
  <2>1. result.status = "help" BY <1>6, <1>7
  <2> HIDE DEF result, help, given
  <2>2. asked BY <1>5, <1>7
  <2> QED BY <2>1, <2>2 DEF CountRight, result, given
<1>8. CASE ~help
  <2> HIDE DEF help
  <2>1. /\ result.status = (IF parsed.ok THEN "run" ELSE "usage")
        /\ result.set = parsed.set /\ result.operands = parsed.operands
    BY <1>6, <1>8 DEF Handled
  <2>2. ~asked BY <1>5, <1>8
  <2> HIDE DEF given, asked, result
  <2>3. parsed.ok \in BOOLEAN
    <3>1. PICK f : ArgByArg(f, metas, given, S) /\ parsed = f[1]
      BY <1>2, ParseIs
    <3>2. 1 \in 1..Len(given) + 1 BY <1>2, LenProperties
    <3>3. f[1] \in ParsedOf(given, S) BY <3>1, <3>2 DEF ArgByArg
    <3> QED BY <3>1, <3>3 DEF ParsedOf
  <2> DEFINE told == [ok |-> result.status = "run", set |-> result.set, operands |-> result.operands]
  <2>4. result.status # "help" /\ (result.status = "run") = parsed.ok
    BY <2>1, <2>3
  <2>5. ReadAsWritten(metas, given, told)
    <3>1. told.ok = parsed.ok /\ told.set = parsed.set /\ told.operands = parsed.operands
      BY <2>1, <2>4
    <3> HIDE DEF told
    <3> QED BY <1>2, <3>1, ReadsAsWritten
  <2>6. ASSUME NEW n \in Flag(metas, "n"), rewritten, result.status = "run", metas[n].type = "String"
        PROVE  /\ first[1] = "+" => Head(result.set) = [opt |-> n, value |-> first]
               /\ (first[1] = "-" /\ IsDigits(Tail(first))) =>
                    Head(result.set) = [opt |-> n, value |-> Tail(first)]
    <3> DEFINE l == LegacyCount(first)
               t == Tail(args)
    <3>1. /\ l \in Seq(Seq(S)) /\ t \in Seq(Seq(S)) /\ given = l \o t /\ Len(l) >= 2
          /\ first[1] = "+" => l = <<<<"-", "n">>, first>>
          /\ (first[1] = "-" /\ IsDigits(Tail(first))) => l = <<<<"-", "n">>, Tail(first)>>
      BY <1>1, <2>6 DEF Rewrites, given
    <3>2. parsed.ok /\ result.set = parsed.set BY <2>1, <2>4, <2>6
    <3> HIDE DEF first, t, l
    <3>3. Len(given) >= 2 /\ given[1] = l[1] /\ given[2] = l[2]
      <4>1. Len(l) \in Nat /\ Len(t) \in Nat BY <3>1, LenProperties
      <4>2. Len(l \o t) = Len(l) + Len(t) /\ \A k \in 1..Len(l) : (l \o t)[k] = l[k]
        <5>1. \A k \in 1..Len(l) + Len(t) : (l \o t)[k] = IF k <= Len(l) THEN l[k] ELSE t[k - Len(l)]
          BY <3>1, ConcatProperties
        <5>2. Len(l \o t) = Len(l) + Len(t) BY <3>1, ConcatProperties
        <5> QED BY <4>1, <5>1, <5>2
      <4> QED BY <3>1, <4>1, <4>2
    <3>4. ASSUME NEW v, l = <<<<"-", "n">>, v>>
          PROVE  Head(result.set) = [opt |-> n, value |-> v]
      <4>1. given[1] = <<"-", "n">> /\ given[2] = v BY <3>3, <3>4
      <4> QED
        <5>1. /\ OptionTable(metas, S) /\ given \in Seq(Seq(S)) /\ Len(given) >= 2
              /\ given[1] = <<"-", "n">> /\ n \in Flag(metas, "n") /\ metas[n].type = "String"
              /\ parse_command(metas, given).ok
          BY <1>2, <2>6, <3>2, <3>3, <4>1
        <5>2. Head(parse_command(metas, given).set) = [opt |-> n, value |-> given[2]]
          BY ONLY <5>1, CountComesFirst
        <5> QED BY <3>2, <4>1, <5>2
    <3> QED BY <3>1, <3>4
  <2> HIDE DEF parsed, rewritten, first
  <2> QED
    BY <2>2, <2>4, <2>5, <2>6 DEF CountRight, result, given, asked, rewritten, first
<1> HIDE DEF help, result
<1> QED BY <1>7, <1>8 DEF result

------------------------------------------------------------------------------
\* What is asked of the options of a command line, of the dispatcher or of a pattern,
\* and what came of it.
ArgumentsRun ==
    /\ cmd = "options" => /\ task \in TasksOf("options")
                          /\ done => out = parse_command(task.metas, task.args)
    /\ cmd = "head" => /\ task \in TasksOf("head")
                       /\ done => out = dispatch(task.name, task.metas, task.args)
    /\ cmd = "glob" => /\ task \in TasksOf("glob")
                       /\ done => out = wildcard_match(task.pattern, task.text)

\* It is what the parser, the dispatcher and the matcher make of it.
LEMMA ArgumentsRunHolds == FilterSpec => []ArgumentsRun
<1>1. Begin(LineCommands) => ArgumentsRun
  BY DEF Begin, ArgumentsRun, TasksOf
<1>2. ArgumentsRun /\ [FilterNext]_filterVars => ArgumentsRun'
  <2> SUFFICES ASSUME ArgumentsRun, [FilterNext]_filterVars
               PROVE  ArgumentsRun'
    OBVIOUS
  <2>1. CASE UNCHANGED filterVars BY <2>1 DEF ArgumentsRun, filterVars
  <2>2. CASE RunOptions BY <2>2 DEF ArgumentsRun, RunOptions, Run
  <2>3. CASE RunHead BY <2>3 DEF ArgumentsRun, RunHead, Run
  <2>4. CASE RunGlob BY <2>4 DEF ArgumentsRun, RunGlob, Run
  <2>5. CASE FilterNext /\ ~RunOptions /\ ~RunHead /\ ~RunGlob
    BY <2>5 DEF ArgumentsRun, FilterNext, RunComm, RunUniq, RunJoin, RunGrep, RunSort,
         RunSplit, RunCsplit, RunCut, RunDiff, Run
  <2> QED BY <2>1, <2>2, <2>3, <2>4, <2>5
<1> QED BY <1>1, <1>2, PTL DEF FilterSpec

\* A pattern matches exactly the names that can be cut into one piece for each of its
\* elements.
THEOREM GlobMatchesAlways == FilterSpec => []GlobMatches
<1>1. ArgumentsRun => GlobMatches
  <2> SUFFICES ASSUME ArgumentsRun, done, cmd = "glob"
               PROVE  out <=> Matches(task.pattern, task.text)
    BY DEF GlobMatches, Ran
  <2>1. /\ task.pattern \in Seq(Int) /\ task.text \in Seq(Int)
        /\ out = wildcard_match(task.pattern, task.text)
    BY GlobReadsNames DEF ArgumentsRun
  <2>2. wildcard_match(task.pattern, task.text) <=> Matches(task.pattern, task.text)
    BY <2>1, WildcardIsMatches
  <2> QED BY <2>1, <2>2
<1> QED BY <1>1, ArgumentsRunHolds, PTL

\* A command line and its table of options are sequences of sequences over some symbols,
\* those of the dispatcher among them.
LEMMA OptionsTyped ==
    ASSUME NEW t \in TasksOf("options") \cup TasksOf("head")
    PROVE  \E S : /\ {"-", "n", "c", "q", "v", "K", "i", "B"} \subseteq S
                  /\ OptionTable(t.metas, S) /\ t.args \in Seq(Seq(S))
<1> DEFINE args == t.args
           metas == t.metas
           given == UNION {ToSet(a) : a \in ToSet(args)}
           named == UNION {ToSet(m.short) \cup ToSet(m.long) : m \in ToSet(metas)}
           S == {"-", "n", "c", "q", "v", "K", "i", "B"} \cup given \cup named
<1>1. /\ IsSequence(args) /\ \A a \in ToSet(args) : IsSequence(a)
      /\ IsSequence(metas)
      /\ \A m \in ToSet(metas) : IsSequence(m.short) /\ IsSequence(m.long) /\ m.type \in Types
  BY OptionsReadArguments
<1>2. \A a \in ToSet(args) : ToSet(a) \subseteq S
  <2> HIDE DEF named, args
  <2> QED OBVIOUS
<1>3. \A m \in ToSet(metas) : ToSet(m.short) \subseteq S /\ ToSet(m.long) \subseteq S
  <2> HIDE DEF given, metas
  <2> QED OBVIOUS
<1> HIDE DEF args, metas, S
<1>4. args \in Seq(Seq(S)) BY <1>1, <1>2, LinesOfLines
<1>5. ASSUME NEW x, IsSequence(x), ToSet(x) \subseteq S PROVE x \in Seq(S)
  BY <1>5, SeqMonotonic DEF IsSequence
<1>6. OptionTable(metas, S)
  <2>1. metas \in Seq(ToSet(metas)) BY <1>1 DEF IsSequence
  <2>2. DOMAIN metas = 1..Len(metas) /\ Len(metas) \in Nat /\ \A k \in DOMAIN metas : metas[k] \in ToSet(metas)
    BY <2>1, LenProperties, ElementOfSeq
  <2>3. \A m \in ToSet(metas) : m.short \in Seq(S) /\ m.long \in Seq(S) /\ m.type \in Types
    BY <1>1, <1>3, <1>5
  <2> QED BY <2>2, <2>3 DEF OptionTable
<1>7. {"-", "n", "c", "q", "v", "K", "i", "B"} \subseteq S BY DEF S
<1> QED BY <1>4, <1>6, <1>7 DEF args, metas

\* Whatever options stand between the operands and wherever values stand, the parser
\* makes of a command line what is written there; head and tail read -NUM and +NUM as
\* the value of -n; and help is shown exactly when it is asked for.
THEOREM ArgumentsAsWrittenAlways == FilterSpec => []ArgumentsAsWritten
<1>1. ArgumentsRun => ArgumentsAsWritten
  <2> SUFFICES ASSUME ArgumentsRun PROVE ArgumentsAsWritten OBVIOUS
  <2>1. OptionsAsWritten
    <3> SUFFICES ASSUME done, cmd = "options"
                 PROVE  ReadAsWritten(task.metas, task.args, out)
      BY DEF OptionsAsWritten, Ran
    <3>1. task \in TasksOf("options") /\ out = parse_command(task.metas, task.args)
      BY DEF ArgumentsRun
    <3>2. PICK S : OptionTable(task.metas, S) /\ task.args \in Seq(Seq(S))
      BY <3>1, OptionsTyped
    <3>3. /\ out.ok = parse_command(task.metas, task.args).ok
          /\ out.set = parse_command(task.metas, task.args).set
          /\ out.operands = parse_command(task.metas, task.args).operands
      BY <3>1
    <3> QED BY <3>2, <3>3, ReadsAsWritten
  <2>2. CountIsLines
    <3> SUFFICES ASSUME done, cmd = "head"
                 PROVE  CountRight(task.name, task.metas, task.args, out)
      BY DEF CountIsLines, CountRight, Ran
    <3>1. task \in TasksOf("head") /\ out = dispatch(task.name, task.metas, task.args)
      BY DEF ArgumentsRun
    <3>2. PICK S : /\ {"-", "n", "c", "q", "v", "K", "i", "B"} \subseteq S
                   /\ OptionTable(task.metas, S) /\ task.args \in Seq(Seq(S))
      BY <3>1, OptionsTyped
    <3>3. CountRight(task.name, task.metas, task.args, dispatch(task.name, task.metas, task.args))
      BY <3>2, DispatchReads
    <3> QED BY <3>1, <3>3
  <2> QED BY <2>1, <2>2 DEF ArgumentsAsWritten
<1> QED BY <1>1, ArgumentsRunHolds, PTL

==============================================================================
