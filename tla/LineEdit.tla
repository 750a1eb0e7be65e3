------------------------------ MODULE LineEdit ------------------------------
(***************************************************************************)
(* Main/readline.h: the line the interactive shell reads, key by key.  The *)
(* buffer is UTF-8 and the cursor counts bytes; a history of lines can be  *)
(* walked up and down, and the line that was being typed comes back below  *)
(* the newest one.  The history outlives the line.                         *)
(*                                                                         *)
(* A byte is "a" or " " (a character of one byte), "lead" or "cont" (the   *)
(* bytes of a longer character).  Left out: a character that the console   *)
(* delivers as two events, each of which is converted by itself.           *)
(***************************************************************************)
EXTENDS Integers, Sequences

CONSTANTS
  Chars,       \* characters that can be typed
  Clips,       \* texts that can be on the clipboard
  MaxBytes,    \* bound on the buffer
  MaxHistory   \* bound on the history

Bytes == {"a", " ", "lead", "cont"}

\* Text of whole characters.
WholeText(s) ==
  \A i \in DOMAIN s : /\ s[i] = "lead" => i < Len(s) /\ s[i + 1] = "cont"
                      /\ s[i] = "cont" => i > 1 /\ s[i - 1] = "lead"

ASSUME LineEditAssumption ==
  /\ MaxBytes \in Nat /\ MaxHistory \in Nat
  /\ Chars \cup Clips \subseteq Seq(Bytes)
  /\ \A t \in Chars \cup Clips : WholeText(t)

VARIABLES
  line,      \* [buffer, cursor]
  history,   \* the lines accepted, the oldest first
  browse,    \* [on, at, draft]: history_index, from 0, and history_draft
  typed      \* the line as it was when it last was not a line of the history

lineVars == <<line, history, browse, typed>>

NewLine == [buffer |-> <<>>, cursor |-> 0]
NotBrowsing == [on |-> FALSE, at |-> 0, draft |-> <<>>]

LineInit ==
  /\ line = NewLine /\ history = <<>>
  /\ browse = NotBrowsing /\ typed = <<>>

\* The boundaries of characters before and after a position.
prevUtf8Pos(s, pos) ==
  IF pos = 0 THEN 0
  ELSE CHOOSE i \in 0..(pos - 1) :
         /\ i = 0 \/ s[i + 1] # "cont"
         /\ \A j \in (i + 1)..(pos - 1) : s[j + 1] = "cont"

nextUtf8Pos(s, pos) ==
  IF pos >= Len(s) THEN Len(s)
  ELSE CHOOSE i \in (pos + 1)..Len(s) :
         /\ i = Len(s) \/ s[i + 1] # "cont"
         /\ \A j \in (pos + 1)..(i - 1) : s[j + 1] = "cont"

\* The bytes from..to-1 of s are taken out, t is put in at from.
Splice(s, from, to, t) == SubSeq(s, 1, from) \o t \o SubSeq(s, to + 1, Len(s))

\* A change of the text ends the walk through the history.
Edited(buffer, cursor) ==
  /\ line' = [buffer |-> buffer, cursor |-> cursor]
  /\ browse' = [browse EXCEPT !.on = FALSE]
  /\ typed' = buffer
  /\ UNCHANGED history

Shown(buffer) == line' = [buffer |-> buffer, cursor |-> Len(buffer)]

-----------------------------------------------------------------------------
\* A printable character, or what the clipboard holds.
Insert(t) ==
  /\ t # <<>> /\ Len(line.buffer) + Len(t) <= MaxBytes
  /\ Edited(Splice(line.buffer, line.cursor, line.cursor, t), line.cursor + Len(t))

Backspace ==
  LET prev == prevUtf8Pos(line.buffer, line.cursor) IN
  /\ line.cursor > 0
  /\ Edited(Splice(line.buffer, prev, line.cursor, <<>>), prev)

Left == /\ line' = [line EXCEPT !.cursor = prevUtf8Pos(line.buffer, @)]
        /\ UNCHANGED <<history, browse, typed>>

Right == /\ line' = [line EXCEPT !.cursor = nextUtf8Pos(line.buffer, @)]
         /\ UNCHANGED <<history, browse, typed>>

Mut_historyUp ==
  /\ history # <<>>
  /\ LET b == [on |-> TRUE, at |-> IF browse.on THEN browse.at ELSE Len(history),
               draft |-> line.buffer]
     IN IF b.at > 0
        THEN browse' = [b EXCEPT !.at = @ - 1] /\ Shown(history[b.at])
        ELSE browse' = b /\ UNCHANGED line
  /\ UNCHANGED <<history, typed>>

\* The first step up keeps the line being typed.
historyUp ==
  /\ history # <<>>
  /\ LET b == IF browse.on THEN browse
              ELSE [on |-> TRUE, at |-> Len(history), draft |-> line.buffer]
     IN IF b.at > 0
        THEN browse' = [b EXCEPT !.at = @ - 1] /\ Shown(history[b.at])
        ELSE browse' = b /\ UNCHANGED line
  /\ UNCHANGED <<history, typed>>

historyDown ==
  /\ browse.on
  /\ IF browse.at + 1 < Len(history)
     THEN browse' = [browse EXCEPT !.at = @ + 1] /\ Shown(history[browse.at + 2])
     ELSE browse' = [browse EXCEPT !.on = FALSE] /\ Shown(browse.draft)
  /\ UNCHANGED <<history, typed>>

\* The line is returned; one that is not blank, nor the newest one again, goes
\* to the history.  The next call starts with an empty line.
Enter ==
  LET blank == \A i \in DOMAIN line.buffer : line.buffer[i] = " "
      again == history # <<>> /\ history[Len(history)] = line.buffer
  IN
  /\ Len(history) < MaxHistory \/ blank \/ again
  /\ history' = IF blank \/ again THEN history ELSE Append(history, line.buffer)
  /\ line' = NewLine /\ browse' = NotBrowsing /\ typed' = <<>>

\* Ctrl+C, and Ctrl+D on an empty line: the line is given up.
Abort == /\ line' = NewLine /\ browse' = NotBrowsing /\ typed' = <<>>
         /\ UNCHANGED history

LineNext ==
  \/ \E t \in Chars \cup Clips : Insert(t)
  \/ Backspace \/ Left \/ Right \/ historyUp \/ historyDown \/ Enter \/ Abort

-----------------------------------------------------------------------------
\* The cursor is never inside a character nor past the end, and the buffer is
\* made of whole characters, so that no key tears one: after any moves through
\* a history whose lines have other lengths (readline.h: prevUtf8Pos,
\* historyUp, historyDown).
WholeCharacters ==
  LET s == line.buffer IN
  /\ line.cursor \in 0..Len(s)
  /\ line.cursor < Len(s) => s[line.cursor + 1] # "cont"
  /\ WholeText(s)

\* While the history is walked, the line shown is the one the index names; a
\* line that is not shown there cannot be lost: coming back down, the line is
\* the one that was typed before (readline.h: history_index, history_draft).
DraftKept ==
  IF browse.on THEN /\ browse.at < Len(history)
                    /\ line.buffer = history[browse.at + 1]
                    /\ browse.draft = typed
  ELSE line.buffer = typed

\* Keys never tear a character nor lose the line being typed (readline.h).
LineIntact == WholeCharacters /\ DraftKept
=============================================================================
