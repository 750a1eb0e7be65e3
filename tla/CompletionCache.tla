--------------------------- MODULE CompletionCache ---------------------------
(***************************************************************************)
(* Main/native_completion.h: each shell reads the user's completions once, *)
(* from a binary cache when the cache was made from the source as it is    *)
(* (its time and size are the key), else from the source; then it writes   *)
(* the cache, through a temporary file that is renamed over it.  The       *)
(* temporary has ONE name, and several shells may run, or be killed.       *)
(*                                                                         *)
(* A version of the source stands for its content and for its time and     *)
(* size: an edit that keeps both of these is not noticed.  What a file is  *)
(* read or written with arrives in two pieces, so that an edit, a kill or  *)
(* an error can come between; 0 is a piece that could not be read, and     *)
(* Unwritten one that is not in the file.  The platform neither renames a  *)
(* file that is open nor renames another one over it.                      *)
(***************************************************************************)
EXTENDS Integers, FiniteSets

CONSTANTS
  Shells,        \* shells that start, one after the other or together
  MaxVersion     \* bound on the edits of the source

VARIABLES
  source,   \* the version of the source file
  cache,    \* the cache file, or NoFile
  tmp,      \* the temporary file, or NoFile
  shell,    \* [Shells -> [pc, key, data]]
  mixed,    \* two shells have had the temporary open with different data
  refused   \* the keys under which the source could not be read to its end

cacheVars == <<source, cache, tmp, shell, mixed, refused>>

Unwritten == -1
NoFile == [key |-> 0, first |-> Unwritten, rest |-> Unwritten, exists |-> FALSE]
Truncated == [NoFile EXCEPT !.exists = TRUE]

\* What a shell uses: the version each part of its completions comes from.
Whole(v) == [first |-> v, rest |-> v]
NewShell == [pc |-> "start", key |-> 0, data |-> Whole(0)]

CacheInit ==
  /\ source = 1
  /\ cache = NoFile /\ tmp = NoFile
  /\ shell = [p \in Shells |-> NewShell]
  /\ mixed = FALSE
  /\ refused = {}

\* The shells that have the temporary file open.
Writers == {p \in Shells : shell[p].pc \in {"header", "rest", "close"}}

EditSource ==
  /\ source < MaxVersion
  /\ source' = source + 1
  /\ UNCHANGED <<cache, tmp, shell, mixed, refused>>

Goto(p, l) == shell' = [shell EXCEPT ![p].pc = l]

\* The time and size of the source are read; a source that is not there, or does
\* not tell them, has no completions.
Look(p) ==
  /\ shell[p].pc = "start"
  /\ \/ shell' = [shell EXCEPT ![p].pc = "load", ![p].key = source]
     \/ Goto(p, "done")
  /\ UNCHANGED <<source, cache, tmp, mixed, refused>>

Mut_Usable(k) == cache.exists

\* The cache is whole and was made from the source as it was found.
Usable(k) ==
  cache.exists /\ cache.key = k /\ cache.first # Unwritten /\ cache.rest # Unwritten

\* loadUserCompletionCache.
LoadCache(p) ==
  /\ shell[p].pc = "load"
  /\ shell' = [shell EXCEPT
       ![p] = IF Usable(@.key)
              THEN [@ EXCEPT !.pc = "done",
                             !.data = [first |-> cache.first, rest |-> cache.rest]]
              ELSE [@ EXCEPT !.pc = "parse"]]
  /\ UNCHANGED <<source, cache, tmp, mixed, refused>>

\* parseUserCompletionFile: the source is read as it is now, its first part here;
\* or it cannot be opened, which yields no completions.
Parse(p) ==
  /\ shell[p].pc = "parse"
  /\ \/ /\ shell' = [shell EXCEPT ![p].pc = "parsing", ![p].data.first = source]
        /\ UNCHANGED refused
     \/ /\ Goto(p, "open")
        /\ refused' = refused \cup {shell[p].key}
  /\ UNCHANGED <<source, cache, tmp, mixed>>

\* Its rest, as it is by then; or the reading breaks off, which ends the loop
\* over the lines like the end of the file.
ParseRest(p) ==
  /\ shell[p].pc = "parsing"
  /\ \/ /\ shell' = [shell EXCEPT ![p].pc = "open", ![p].data.rest = source]
        /\ UNCHANGED refused
     \/ /\ Goto(p, "open")
        /\ refused' = refused \cup {shell[p].key}
  /\ UNCHANGED <<source, cache, tmp, mixed>>

\* The temporary is opened and truncated, whoever else is writing it.
OpenTmp(p) ==
  /\ shell[p].pc = "open"
  /\ Goto(p, "header")
  /\ tmp' = Truncated
  /\ mixed' = (mixed \/ \E q \in Writers : shell[q].data # shell[p].data
                                           \/ shell[q].key # shell[p].key)
  /\ UNCHANGED <<source, cache, refused>>

\* It cannot be opened: the shell does without a cache.
OpenTmpFails(p) ==
  /\ shell[p].pc = "open"
  /\ Goto(p, "done")
  /\ UNCHANGED <<source, cache, tmp, mixed, refused>>

WriteHeader(p) ==
  /\ shell[p].pc = "header"
  /\ Goto(p, "rest")
  /\ tmp' = [tmp EXCEPT !.key = shell[p].key, !.first = shell[p].data.first]
  /\ UNCHANGED <<source, cache, mixed, refused>>

WriteRest(p) ==
  /\ shell[p].pc = "rest"
  /\ Goto(p, "close")
  /\ tmp' = [tmp EXCEPT !.rest = shell[p].data.rest]
  /\ UNCHANGED <<source, cache, mixed, refused>>

\* A write fails: the function returns and leaves the temporary where it is.
WriteFails(p) ==
  /\ shell[p].pc \in {"header", "rest"}
  /\ Goto(p, "done")
  /\ UNCHANGED <<source, cache, tmp, mixed, refused>>

CloseTmp(p) ==
  /\ shell[p].pc = "close"
  /\ Goto(p, "rename")
  /\ UNCHANGED <<source, cache, tmp, mixed, refused>>

\* The rename fails while another shell has the temporary open, and so does
\* the removal that follows; it fails when another one renamed it before, or
\* while the cache is being read.
Rename(p) ==
  /\ shell[p].pc = "rename"
  /\ Goto(p, "done")
  /\ \/ Writers = {} /\ tmp.exists /\ cache' = tmp /\ tmp' = NoFile
     \/ tmp' = (IF Writers = {} THEN NoFile ELSE tmp) /\ UNCHANGED cache
  /\ UNCHANGED <<source, mixed, refused>>

\* A shell that has ended can be started again; one that is killed, too: the system
\* closes its files.
KillShell(p) ==
  /\ shell[p].pc \notin {"start", "done"}
  /\ shell' = [shell EXCEPT ![p] = NewShell]
  /\ UNCHANGED <<source, cache, tmp, mixed, refused>>

Restart(p) ==
  /\ shell[p].pc = "done"
  /\ shell' = [shell EXCEPT ![p] = NewShell]
  /\ UNCHANGED <<source, cache, tmp, mixed, refused>>

CacheNext ==
  \/ EditSource
  \/ \E p \in Shells :
       \/ Look(p) \/ LoadCache(p) \/ Parse(p) \/ ParseRest(p) \/ OpenTmp(p)
       \/ OpenTmpFails(p) \/ WriteHeader(p) \/ WriteRest(p) \/ WriteFails(p) \/ CloseTmp(p) \/ Rename(p)
       \/ KillShell(p) \/ Restart(p)

-----------------------------------------------------------------------------
\* Data that is used or written under key k: no piece of it is older than k or
\* newer than the source, and the pieces come in the order they were read; a
\* piece may be missing when the source could not be read under this key.
Current(k, data) ==
  /\ \A v \in {data.first, data.rest} : v \in k..source \/ (v = 0 /\ k \in refused)
  /\ data.first <= data.rest \/ k \in refused

\* The completions a shell ends up with are never older than the source it found:
\* those of exactly that version when the source is still the same, else none
\* from before it, whichever shells were killed while they wrote the cache and
\* whenever the source was edited.  They can be missing, for this shell and for
\* those after it, when some shell that found the same source could not open or
\* read it; and shells that write different data at the same time break it
\* (native_completion.h: loadUserCompletionDataFromCacheOrText).
CompletionsCurrent ==
  \A p \in Shells :
    shell[p].pc = "done" /\ ~mixed => Current(shell[p].key, shell[p].data)
=============================================================================
