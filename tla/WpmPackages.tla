----------------------------- MODULE WpmPackages -----------------------------
(***************************************************************************)
(* tools/wpm.cpp: installing and removing packages.  A run of wpm reads    *)
(* the alias file, then for each file of a package downloads it to the     *)
(* cache and copies it to bin, or removes it there, then writes the alias  *)
(* file.  Any step may fail, and a run may be killed; two may overlap.     *)
(*                                                                         *)
(* The content of a file is the name of what was downloaded, Partial when  *)
(* it is not all there, or Absent.                                         *)
(***************************************************************************)
EXTENDS Integers, Sequences, FiniteSets

CONSTANTS
  Packages,     \* [package -> [files : Seq(name), rename_to : name or Absent]]
  WpmRuns,        \* runs of wpm that may be active together
  MaxStarts,    \* bound on the runs that are started
  Absent, Partial

VARIABLES
  bin,        \* [name -> content]
  downloads,  \* the cache directory: [name -> content]
  aliases,    \* the alias file: [whole, names]
  wpm,        \* [WpmRuns -> [pc, op, pkg, at, names]], names as read from the file
  told,       \* [package -> "installed" or "removed" as a run said, or "unknown"]
  alone,      \* [WpmRuns -> nothing went wrong in the run that nobody is told of]
  clean,      \* no two runs have overlapped, and each write of aliases was whole
  starts

wpmVars == <<bin, downloads, aliases, wpm, told, alone, clean, starts>>

Files(p) == Packages[p].files
Renamed(p) == Packages[p].rename_to # Absent

\* Where a file of the package goes: all to one name when it is renamed.
Dest(p, i) == IF Renamed(p) THEN Packages[p].rename_to ELSE Files(p)[i]

\* What the model asks of the index: every package has files, and no two
\* packages have one, or the name it takes, in common.
ASSUME WpmAssumption ==
  /\ DOMAIN Packages # {}
  /\ \A p \in DOMAIN Packages :
       /\ Files(p) # <<>> /\ Files(p) \in Seq({Files(p)[i] : i \in DOMAIN Files(p)})
       /\ \A q \in DOMAIN Packages \ {p} : \A i \in DOMAIN Files(p), j \in DOMAIN Files(q) :
            Files(p)[i] # Files(q)[j] /\ Dest(p, i) # Dest(q, j)

Downloaded == UNION {{Files(p)[i] : i \in DOMAIN Files(p)} : p \in DOMAIN Packages}
Names == Downloaded \cup {Packages[p].rename_to : p \in {q \in DOMAIN Packages : Renamed(q)}}

WpmIdle == [pc |-> "idle", op |-> "install", pkg |-> CHOOSE p \in DOMAIN Packages : TRUE,
            at |-> 1, names |-> {}]
Active == {w \in WpmRuns : wpm[w].pc # "idle"}

WpmInit ==
  /\ bin = [n \in Names |-> Absent] /\ downloads = [n \in Downloaded |-> Absent]
  /\ aliases = [whole |-> TRUE, names |-> {}]
  /\ wpm = [w \in WpmRuns |-> WpmIdle]
  /\ told = [p \in DOMAIN Packages |-> "unknown"]
  /\ alone = [w \in WpmRuns |-> TRUE] /\ clean = TRUE /\ starts = 0

Step(w, pc) == wpm' = [wpm EXCEPT ![w].pc = pc]
Here(w, pc) == wpm[w].pc = pc
Place(w) == Dest(wpm[w].pkg, wpm[w].at)
Source(w) == Files(wpm[w].pkg)[wpm[w].at]

\* Loading the aliases: a file that does not parse counts as empty.
Start(w) ==
  /\ Here(w, "idle") /\ starts < MaxStarts
  /\ \E p \in DOMAIN Packages, op \in {"install", "uninstall"} :
       LET rivals == {v \in Active : wpm[v].pkg = p} IN
       /\ wpm' = [wpm EXCEPT ![w] =
            [pc |-> IF op = "install" THEN "download" ELSE "remove", op |-> op, pkg |-> p,
             at |-> 1, names |-> IF aliases.whole THEN aliases.names ELSE {}]]
       /\ told' = [told EXCEPT ![p] = "unknown"]
       /\ alone' = [v \in WpmRuns |-> IF v = w THEN rivals = {} ELSE alone[v] /\ v \notin rivals]
  /\ clean' = (clean /\ Active = {})
  /\ starts' = starts + 1
  /\ UNCHANGED <<bin, downloads, aliases>>

End(w, pc) == Step(w, pc) /\ UNCHANGED <<told, alone, clean>>

Ends(w) == /\ wpm' = [wpm EXCEPT ![w] = WpmIdle]
           /\ alone' = [alone EXCEPT ![w] = TRUE]

\* What the run returns when nothing failed.
Says(w, result) ==
  /\ Ends(w)
  /\ told' = [told EXCEPT ![wpm[w].pkg] = IF alone[w] THEN result ELSE @]
  /\ UNCHANGED clean

-----------------------------------------------------------------------------
\* No connection, or the cache file cannot be opened: the install fails.
DownloadFails(w) ==
  /\ Here(w, "download") /\ Ends(w)
  /\ UNCHANGED <<told, clean, bin, downloads, aliases, starts>>

DownloadStarts(w) ==
  /\ Here(w, "download") /\ End(w, "receive")
  /\ downloads' = [downloads EXCEPT ![Source(w)] = Partial]
  /\ UNCHANGED <<bin, aliases, starts>>

\* An answer that breaks off is a success as a whole one is; nobody is told.
DownloadEnds(w) ==
  /\ Here(w, "receive") /\ Step(w, "copy")
  /\ \/ /\ downloads' = [downloads EXCEPT ![Source(w)] = Source(w)]
        /\ UNCHANGED alone
     \/ /\ alone' = [alone EXCEPT ![w] = FALSE]
        /\ UNCHANGED downloads
  /\ UNCHANGED <<bin, aliases, told, clean, starts>>

CopyFails(w) ==
  /\ Here(w, "copy") /\ Ends(w)
  /\ UNCHANGED <<told, clean, bin, downloads, aliases, starts>>

CopyStarts(w) ==
  /\ Here(w, "copy") /\ End(w, "copying")
  /\ bin' = [bin EXCEPT ![Place(w)] = Partial]
  /\ UNCHANGED <<downloads, aliases, starts>>

\* The next file, or the alias, or the end.
CopyEnds(w) ==
  /\ Here(w, "copying")
  /\ bin' = [bin EXCEPT ![Place(w)] = downloads[Source(w)]]
  /\ IF wpm[w].at < Len(Files(wpm[w].pkg))
     THEN /\ wpm' = [wpm EXCEPT ![w].pc = "download", ![w].at = @ + 1]
          /\ UNCHANGED <<told, alone, clean>>
     ELSE IF Renamed(wpm[w].pkg)
     THEN /\ wpm' = [wpm EXCEPT ![w].pc = "save", ![w].names = @ \cup {wpm[w].pkg}]
          /\ UNCHANGED <<told, alone, clean>>
     ELSE Says(w, "installed")
  /\ UNCHANGED <<downloads, aliases, starts>>

Mut_RemoveFile(w) ==
  /\ Here(w, "remove")
  /\ wpm[w].at <= Len(Files(wpm[w].pkg))
  /\ wpm' = [wpm EXCEPT ![w].at = IF bin[Place(w)] = Absent THEN Len(Files(wpm[w].pkg)) + 1 ELSE @ + 1]
  /\ \/ /\ bin' = [bin EXCEPT ![Place(w)] = Absent]
        /\ UNCHANGED alone
     \/ /\ bin[Place(w)] # Absent
        /\ alone' = [alone EXCEPT ![w] = FALSE]
        /\ UNCHANGED bin
  /\ UNCHANGED <<downloads, aliases, told, clean, starts>>

\* A file that cannot be removed is left, and the run goes on and succeeds.
RemoveFile(w) ==
  /\ Here(w, "remove")
  /\ wpm[w].at <= Len(Files(wpm[w].pkg))
  /\ wpm' = [wpm EXCEPT ![w].at = @ + 1]
  /\ \/ /\ bin' = [bin EXCEPT ![Place(w)] = Absent]
        /\ UNCHANGED alone
     \/ /\ bin[Place(w)] # Absent
        /\ alone' = [alone EXCEPT ![w] = FALSE]
        /\ UNCHANGED bin
  /\ UNCHANGED <<downloads, aliases, told, clean, starts>>

RemoveAlias(w) ==
  /\ Here(w, "remove")
  /\ wpm[w].at > Len(Files(wpm[w].pkg))
  /\ IF Renamed(wpm[w].pkg) /\ wpm[w].pkg \in wpm[w].names
     THEN /\ wpm' = [wpm EXCEPT ![w].pc = "save", ![w].names = @ \ {wpm[w].pkg}]
          /\ UNCHANGED <<told, alone, clean>>
     ELSE Says(w, "removed")
  /\ UNCHANGED <<bin, downloads, aliases, starts>>

\* The alias file is truncated and written.  That it cannot be opened is not
\* noticed.
SaveStarts(w) ==
  /\ Here(w, "save") /\ End(w, "saving")
  /\ aliases' = [whole |-> FALSE, names |-> {}]
  /\ UNCHANGED <<bin, downloads, starts>>

SaveEnds(w) ==
  /\ \/ /\ Here(w, "saving")
        /\ aliases' = [whole |-> TRUE, names |-> wpm[w].names]
        /\ UNCHANGED clean
     \/ /\ Here(w, "save")
        /\ clean' = FALSE
        /\ UNCHANGED aliases
  /\ Ends(w)
  /\ told' = [told EXCEPT ![wpm[w].pkg] =
                IF alone[w] THEN (IF wpm[w].op = "install" THEN "installed" ELSE "removed") ELSE @]
  /\ UNCHANGED <<bin, downloads, starts>>

\* A run is killed: what it was writing stays as it is.
Kill(w) ==
  /\ w \in Active
  /\ Ends(w)
  /\ clean' = (clean /\ ~Here(w, "saving"))
  /\ UNCHANGED <<bin, downloads, aliases, told, starts>>

WpmNext == \E w \in WpmRuns :
  \/ Start(w) \/ DownloadFails(w) \/ DownloadStarts(w) \/ DownloadEnds(w)
  \/ CopyFails(w) \/ CopyStarts(w) \/ CopyEnds(w)
  \/ RemoveFile(w) \/ RemoveAlias(w) \/ SaveStarts(w) \/ SaveEnds(w) \/ Kill(w)

-----------------------------------------------------------------------------
\* After an install that says so, bin has what the package promises: each file,
\* or under the new name the last of them.  After an uninstall that could remove
\* what it found, it has nothing of the package, whatever failed or was killed
\* before.  The alias file says the same, unless runs overlapped or a write of
\* it did not happen as a whole (install_package, uninstall_package).
PackagesAsTold ==
  \A p \in DOMAIN Packages :
    LET n == Len(Files(p)) IN
    /\ told[p] = "installed" =>
         \A i \in 1..n : (Renamed(p) => i = n) => bin[Dest(p, i)] = Files(p)[i]
    /\ told[p] = "removed" => \A i \in 1..n : bin[Dest(p, i)] = Absent
    /\ clean /\ told[p] # "unknown" /\ Active = {} =>
         aliases.whole /\ (p \in aliases.names <=> Renamed(p) /\ told[p] = "installed")
=============================================================================
