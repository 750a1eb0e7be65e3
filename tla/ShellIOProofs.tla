--------------------------- MODULE ShellIOProofs ---------------------------
(***************************************************************************)
(* Proofs about ShellIO, for every program: its type invariant, that what  *)
(* is printed under a redirection goes there, and what the files hold.     *)
(*                                                                         *)
(* The invariant follows the stack.  A call was given (`entry') what its   *)
(* caller's output goes to, so what is on the stack says where descriptor  *)
(* 1 leads (Linked).  Whatever a call may write to is the console, the     *)
(* file of a redirection further down or the file of a $( ... ) further    *)
(* down (Rooted): so the files that are removed are nobody's target.       *)
(*                                                                         *)
(* What the files hold needs more (HInv): that nobody else has a           *)
(* redirection's file open (Exclusive), that the capture handle is on in a *)
(* $( ... ) where nothing is redirected directly (CaptureOn), that every   *)
(* temporary file has a pipeline or a $( ... ) on the stack (TempsOwned),  *)
(* and where in a pipeline the output of a segment is (HandedOn).          *)
(***************************************************************************)
EXTENDS ShellIO, SeqFacts, TLAPS

PipeFiles == {TempA, TempB}

Idle == {"part", "subst", "seg", "next"}

Fits(f) ==
    /\ f.stage # "part" => /\ f.part \in DOMAIN prog[f.line]
                           /\ f.seg \in DOMAIN prog[f.line][f.part].segs
    /\ f.stage = "part" => f.seg = 1
    /\ f.stage \in Idle => f.out = None /\ f.err = None /\ f.in = None
    /\ f.out \in Files \cup PipeFiles \cup {None}
    /\ f.out # None => f.oldOut = f.entry.fd
    /\ f.in # None => f.oldIn.file # None
    /\ ~f.entry.captured => f.entry.to = f.entry.fd

GoodFrames == {f \in Frame : Fits(f)}

\* g was called by f, which is number i on the stack.
Calls(f, g, i) ==
    IF g.captured
    THEN /\ f.stage = "subst"
         /\ i <= Len(CaptureFiles)
         /\ g.entry = [to |-> CaptureFiles[i], captured |-> TRUE,
                       fd |-> Goes(f).fd]
    ELSE f.stage = "call" /\ g.entry = Goes(f)

Linked(s) ==
    /\ s[1].captured = FALSE
    /\ s[1].entry = [to |-> Console, captured |-> FALSE, fd |-> Console]
    /\ \A i \in 1..Len(s) - 1 : Calls(s[i], s[i + 1], i)

\* x is a place that call i may have been given.
From(s, x, i) ==
    \/ x = Console
    \/ \E j \in 1..i - 1 : s[j].out = x /\ x # None
    \/ \E j \in 1..i - 1 : s[j + 1].captured /\ x = CaptureFiles[j]

Rooted(s) ==
    \A i \in 1..Len(s) : From(s, s[i].entry.to, i) /\ From(s, s[i].entry.fd, i)

StackOK(s) == s \in Seq(GoodFrames) /\ s # <<>> /\ Linked(s) /\ Rooted(s)

\* What is open exists.
Present(s, fs) ==
    /\ \A i \in 1..Len(s) : s[i].out # None => s[i].out \in fs
    /\ \A i \in 1..Len(s) - 1 : s[i + 1].captured => CaptureFiles[i] \in fs

Disk(fs) ==
    /\ DOMAIN fs \subseteq Files \cup Temps
    /\ fs \in [DOMAIN fs -> Seq(Values)]

Streams ==
    /\ prog \in Programs
    /\ stdin \in Input /\ stdin.file # None
    /\ Disk(files)
    /\ screen \in Seq(Values)
    /\ mixed \subseteq {"capture", "pipe"}

\* The stack and where the two mechanisms lead.
Leads(s, fs, fd, cap) ==
    /\ StackOK(s)
    /\ Present(s, fs)
    /\ fd = Goes(Last(s)).fd
    /\ cap \in {None, Goes(Last(s)).to, fd}

IInv == Streams /\ Leads(calls, DOMAIN files, stdout, capture)

(***************************************************************************)
(* The stack.                                                              *)
(***************************************************************************)
\* The first m calls are the same, but for where number m stands and what
\* it has open.
Kept(t, m) ==
    /\ t \in Seq(GoodFrames)
    /\ Len(t) = m
    /\ \A i \in 1..m : /\ t[i].captured = calls[i].captured
                       /\ t[i].entry = calls[i].entry
    /\ \A i \in 1..m - 1 : /\ t[i].out = calls[i].out
                           /\ t[i].stage = calls[i].stage

\* A stack that is kept so, or cut back, is in order.
LEMMA KeepStack ==
    ASSUME StackOK(calls), NEW m \in 1..Len(calls), NEW t, Kept(t, m)
    PROVE  StackOK(t)
<1>1. Len(calls) \in Nat /\ m \in Nat \ {0} BY DEF StackOK
<1>2. t \in Seq(GoodFrames) /\ Len(t) = m /\ t # <<>> BY <1>1 DEF Kept
<1>3. Linked(t)
  <2>1. t[1].captured = FALSE
        /\ t[1].entry = [to |-> Console, captured |-> FALSE, fd |-> Console]
    BY <1>1 DEF Kept, StackOK, Linked
  <2>2. ASSUME NEW i \in 1..Len(t) - 1
        PROVE  Calls(t[i], t[i + 1], i)
    <3>1. i \in 1..m - 1 /\ i + 1 \in 1..m /\ i \in 1..m /\ i \in 1..Len(calls) - 1
      BY <1>1, <1>2, <2>2
    <3>2. Calls(calls[i], calls[i + 1], i) BY <3>1 DEF StackOK, Linked
    <3>3. /\ t[i].out = calls[i].out /\ t[i].stage = calls[i].stage
          /\ t[i].entry = calls[i].entry
          /\ t[i + 1].captured = calls[i + 1].captured
          /\ t[i + 1].entry = calls[i + 1].entry
      BY <3>1 DEF Kept
    <3>4. Goes(t[i]) = Goes(calls[i]) BY <3>3 DEF Goes
    <3>5. QED BY <3>2, <3>3, <3>4 DEF Calls
  <2>3. QED BY <2>1, <2>2 DEF Linked
<1>4. Rooted(t)
  <2>1. ASSUME NEW i \in 1..Len(t), NEW x, From(calls, x, i)
        PROVE  From(t, x, i)
    <3>1. ASSUME NEW j \in 1..i - 1
          PROVE  /\ t[j].out = calls[j].out
                 /\ t[j + 1].captured = calls[j + 1].captured
      <4>1. j \in 1..m - 1 /\ j + 1 \in 1..m BY <1>1, <1>2, <3>1
      <4>2. QED BY <4>1 DEF Kept
    <3>2. QED BY <2>1, <3>1 DEF From
  <2>2. ASSUME NEW i \in 1..Len(t)
        PROVE  From(t, t[i].entry.to, i) /\ From(t, t[i].entry.fd, i)
    <3>1. i \in 1..m /\ i \in 1..Len(calls) BY <1>1, <1>2, <2>2
    <3>2. t[i].entry = calls[i].entry BY <3>1 DEF Kept
    <3>3. From(calls, calls[i].entry.to, i) /\ From(calls, calls[i].entry.fd, i)
      BY <3>1 DEF StackOK, Rooted
    <3>4. QED BY <2>1, <3>2, <3>3
  <2>3. QED BY <2>2 DEF Rooted
<1>5. QED BY <1>2, <1>3, <1>4 DEF StackOK

\* Where the output of a call goes is a place the next call may be given.
LEMMA GoesFrom ==
    ASSUME NEW s, StackOK(s), NEW n, n = Len(s),
           NEW t, \A j \in 1..n : t[j].out = s[j].out,
           \A j \in 1..n - 1 : t[j + 1].captured = s[j + 1].captured
    PROVE  From(t, Goes(s[n]).to, n + 1) /\ From(t, Goes(s[n]).fd, n + 1)
<1>1. n \in Nat \ {0} /\ n \in 1..n /\ n \in 1..Len(s)
  BY EmptySeq DEF StackOK
<1>3. 1..(n + 1) - 1 = 1..n BY <1>1
<1>4. CASE s[n].out # None
  <2>1. Goes(s[n]).to = s[n].out /\ Goes(s[n]).fd = s[n].out
    BY <1>4 DEF Goes
  <2>2. t[n].out = s[n].out BY <1>1
  <2>3. QED BY <1>1, <1>3, <1>4, <2>1, <2>2 DEF From
<1>5. CASE s[n].out = None
  <2>1. Goes(s[n]) = s[n].entry BY <1>5 DEF Goes
  <2>2. From(s, s[n].entry.to, n) /\ From(s, s[n].entry.fd, n)
    BY <1>1 DEF StackOK, Rooted
  <2>3. ASSUME NEW x, From(s, x, n) PROVE From(t, x, n + 1)
    <3>1. \A j \in 1..n - 1 : j \in 1..n BY <1>1
    <3>2. QED BY <1>3, <2>3, <3>1 DEF From
  <2>4. QED BY <2>1, <2>2, <2>3
<1>6. QED BY <1>4, <1>5

\* A new call on top of a stack.
LEMMA PushStack ==
    ASSUME NEW s, StackOK(s), NEW h \in GoodFrames,
           Calls(s[Len(s)], h, Len(s))
    PROVE  StackOK(Append(s, h))
<1> DEFINE n == Len(s)
           t == Append(s, h)
<1>1. s \in Seq(GoodFrames) /\ n \in Nat \ {0} /\ n \in 1..n
  BY EmptySeq DEF StackOK
<1>2. /\ t \in Seq(GoodFrames) /\ Len(t) = n + 1
      /\ \A i \in 1..n : t[i] = s[i]
      /\ t[n + 1] = h
  BY <1>1, AppendFacts
<1> HIDE DEF t
<1>3. t # <<>> BY <1>1, <1>2, EmptySeq
<1>4. Linked(t)
  <2>1. t[1] = s[1] BY <1>1, <1>2
  <2>2. ASSUME NEW i \in 1..Len(t) - 1 PROVE Calls(t[i], t[i + 1], i)
    <3>1. CASE i = n BY <1>1, <1>2, <3>1
    <3>2. CASE i # n
      <4>1. i \in 1..n - 1 /\ i \in 1..n /\ i + 1 \in 1..n
        BY <1>1, <1>2, <2>2, <3>2
      <4>2. t[i] = s[i] /\ t[i + 1] = s[i + 1] BY <1>2, <4>1
      <4>3. Calls(s[i], s[i + 1], i) BY <4>1 DEF StackOK, Linked
      <4>4. QED BY <4>2, <4>3
    <3>3. QED BY <3>1, <3>2
  <2>3. QED BY <2>1, <2>2 DEF StackOK, Linked
<1>5. Rooted(t)
  <2>1. ASSUME NEW i \in 1..n, NEW x, From(s, x, i) PROVE From(t, x, i)
    <3>1. \A j \in 1..i - 1 : t[j] = s[j] /\ t[j + 1] = s[j + 1]
      BY <1>1, <1>2, <2>1
    <3>2. QED BY <2>1, <3>1 DEF From
  <2>2. ASSUME NEW i \in 1..n
        PROVE  From(t, t[i].entry.to, i) /\ From(t, t[i].entry.fd, i)
    <3>1. From(s, s[i].entry.to, i) /\ From(s, s[i].entry.fd, i)
      BY DEF StackOK, Rooted
    <3>2. t[i] = s[i] BY <1>2
    <3>3. QED BY <2>1, <3>1, <3>2
  <2>3. From(t, Goes(s[n]).to, n + 1) /\ From(t, Goes(s[n]).fd, n + 1)
    <3>1. /\ \A j \in 1..n : t[j].out = s[j].out
          /\ \A j \in 1..n - 1 : t[j + 1].captured = s[j + 1].captured
      BY <1>1, <1>2
    <3>2. QED BY <3>1, GoesFrom
  <2>4. From(t, h.entry.to, n + 1) /\ From(t, h.entry.fd, n + 1)
    <3>1. CASE ~h.captured BY <2>3, <3>1 DEF Calls
    <3>2. CASE h.captured
      <4>1. h.entry.to = CaptureFiles[n] /\ h.entry.fd = Goes(s[n]).fd
        BY <3>2 DEF Calls
      <4>2. n \in 1..(n + 1) - 1 /\ t[n + 1].captured
        BY <1>1, <1>2, <3>2
      <4>3. From(t, CaptureFiles[n], n + 1) BY <4>2 DEF From
      <4>4. QED BY <2>3, <4>1, <4>3
    <3>3. QED BY <3>1, <3>2
  <2>5. ASSUME NEW i \in 1..Len(t)
        PROVE  From(t, t[i].entry.to, i) /\ From(t, t[i].entry.fd, i)
    <3>1. i \in 1..n \/ i = n + 1 BY <1>1, <1>2
    <3>2. QED BY <1>2, <2>2, <2>4, <3>1
  <2>6. QED BY <2>5 DEF Rooted
<1>6. QED BY <1>2, <1>3, <1>4, <1>5 DEF StackOK, t

\* The top call changed, and nothing else, keeps the stack in order.
LEMMA TopChanges ==
    ASSUME StackOK(calls), NEW g \in GoodFrames,
           g.captured = Top.captured, g.entry = Top.entry
    PROVE  /\ StackOK(WithTop(g))
           /\ Last(WithTop(g)) = g /\ WithTop(g)[Len(calls)] = g
           /\ Len(WithTop(g)) = Len(calls)
           /\ Kept(WithTop(g), Len(calls))
<1> DEFINE t == WithTop(g)
           n == Len(calls)
<1>1. calls \in Seq(GoodFrames) /\ calls # <<>> BY DEF StackOK
<1>2. n \in Nat \ {0} /\ n \in 1..n BY <1>1, EmptySeq
<1>3. /\ t \in Seq(GoodFrames) /\ Len(t) = n /\ Last(t) = g /\ t[n] = g
      /\ \A i \in 1..n - 1 : t[i] = calls[i]
  BY <1>1, SetLastFacts DEF WithTop
<1> HIDE DEF t
<1>4. Kept(t, n)
  <2>1. \A i \in 1..n : i = n \/ i \in 1..n - 1 BY <1>2
  <2>2. Top = calls[n] BY DEF Top, Last
  <2>3. QED BY <1>2, <1>3, <2>1, <2>2 DEF Kept
<1>5. StackOK(t) BY <1>2, <1>4, KeepStack
<1>6. QED BY <1>3, <1>4, <1>5 DEF t

\* The caller goes on when the top call returns.
LEMMA CallReturns ==
    ASSUME StackOK(calls), Len(calls) > 1, NEW g \in GoodFrames,
           g.captured = Caller.captured, g.entry = Caller.entry
    PROVE  /\ StackOK(Returned(g))
           /\ Last(Returned(g)) = g
           /\ Len(Returned(g)) = Len(calls) - 1
           /\ Kept(Returned(g), Len(calls) - 1)
           /\ Caller \in GoodFrames
           /\ Calls(Caller, Top, Len(calls) - 1)
<1> DEFINE t == Returned(g)
           n == Len(calls) - 1
           s == Front(calls)
<1>1. calls \in Seq(GoodFrames) /\ calls # <<>> BY DEF StackOK
<1>2. /\ n \in Nat \ {0} /\ n + 1 = Len(calls)
      /\ n \in 1..n /\ n \in 1..Len(calls) /\ n \in 1..Len(calls) - 1
  <2>1. Len(calls) \in Nat /\ Len(calls) > 1 BY <1>1
  <2>5. PICK m \in Nat : m = Len(calls) /\ m > 1 BY ONLY <2>1
  <2>2. n \in Nat \ {0} /\ n + 1 = Len(calls) BY ONLY <2>5
  <2> HIDE DEF n
  <2>3. /\ n \in 1..n
        /\ n \in 1..n + 1
        /\ n \in 1..(n + 1) - 1
    BY <2>2
  <2>4. QED BY <2>2, <2>3
<1>0. Top = calls[n + 1] /\ Caller = calls[n]
  BY <1>2 DEF Top, Last, Caller
<1>3. s \in Seq(GoodFrames) /\ Len(s) = n /\ \A i \in 1..n : s[i] = calls[i]
  BY <1>1, LastFrontFacts
<1> HIDE DEF s
<1>4. s # <<>> BY <1>2, <1>3, EmptySeq
<1>5. t = [s EXCEPT ![Len(s)] = g] BY <1>3 DEF s, Returned
<1> HIDE DEF t, n
<1>6. /\ t \in Seq(GoodFrames) /\ Len(t) = n /\ Last(t) = g /\ t[n] = g
      /\ \A i \in 1..n - 1 : t[i] = s[i]
  <2> DEFINE u == [s EXCEPT ![Len(s)] = g]
  <2>0. s \in Seq(GoodFrames) /\ s # <<>> /\ g \in GoodFrames
    BY <1>3, <1>4
  <2>1. /\ u \in Seq(GoodFrames) /\ Len(u) = Len(s) /\ Last(u) = g /\ u[Len(s)] = g
        /\ \A i \in 1..Len(s) - 1 : u[i] = s[i]
    BY ONLY <2>0, SetLastFacts
  <2>2. t = u BY <1>5
  <2> HIDE DEF u
  <2>3. QED BY <1>3, <2>1, <2>2
<1>7. Kept(t, n)
  <2>1. \A i \in 1..n : i = n \/ i \in 1..n - 1 BY <1>2
  <2>2. \A i \in 1..n - 1 : t[i] = calls[i]
    <3>1. \A i \in 1..n - 1 : i \in 1..n BY <1>2
    <3>2. QED BY <1>3, <1>6, <3>1
  <2>3. QED BY <1>2, <1>0, <1>6, <2>1, <2>2 DEF Kept
<1>8. StackOK(t) BY <1>2, <1>7, KeepStack
<1>9. Caller \in GoodFrames BY <1>1, <1>2, <1>0, ElementOfSeq
<1>10. Calls(Caller, Top, n) BY <1>2, <1>0 DEF StackOK, Linked
<1>11. QED BY <1>6, <1>7, <1>8, <1>9, <1>10 DEF t, n

(***************************************************************************)
(* Types.                                                                  *)
(***************************************************************************)
LEMMA PlaceFacts ==
    ASSUME IOAssumption
    PROVE  /\ PipeFiles \subseteq Temps /\ Temps \subseteq Places
           /\ Files \subseteq Places /\ Console \in Places /\ None \notin Places
           /\ Console \notin Files \cup Temps
           /\ \A i \in DOMAIN CaptureFiles : CaptureFiles[i] \in Temps \ PipeFiles
           /\ \A i \in DOMAIN CaptureFiles : CaptureFiles[i] \notin Files
           /\ \A i \in DOMAIN CaptureFiles, j \in DOMAIN CaptureFiles :
                 i # j => CaptureFiles[i] # CaptureFiles[j]
           /\ Len(CaptureFiles) \in Nat
           /\ DOMAIN CaptureFiles = 1..Len(CaptureFiles)
<1>1. PipeFiles \subseteq Temps /\ Temps \subseteq Places
      /\ Files \subseteq Places /\ Console \in Places
  BY DEF Places, Temps, PipeFiles
<1>2. None \notin Places /\ Console \notin Files \cup Temps
  BY DEF IOAssumption
<1>3. /\ CaptureFiles \in Seq(Range(CaptureFiles)) /\ IsInjective(CaptureFiles)
      /\ Range(CaptureFiles) \subseteq Temps
      /\ PipeFiles \cap Range(CaptureFiles) = {}
      /\ Files \cap Temps = {}
  BY DEF IOAssumption, Temps, PipeFiles
<1>4. \A i \in DOMAIN CaptureFiles : CaptureFiles[i] \in Range(CaptureFiles)
  BY DEF Range
<1>5. \A i \in DOMAIN CaptureFiles, j \in DOMAIN CaptureFiles :
          i # j => CaptureFiles[i] # CaptureFiles[j]
  BY <1>3 DEF IsInjective
<1>6. Len(CaptureFiles) \in Nat /\ DOMAIN CaptureFiles = 1..Len(CaptureFiles)
  BY <1>3
<1>7. \A i \in DOMAIN CaptureFiles :
          CaptureFiles[i] \in Temps \ PipeFiles /\ CaptureFiles[i] \notin Files
  BY <1>3, <1>4
<1>8. QED BY <1>1, <1>2, <1>5, <1>6, <1>7

LEMMA GoesType ==
    ASSUME NEW f \in Frame
    PROVE  Goes(f) \in [to : Places, captured : BOOLEAN, fd : Places]
<1>1. CASE f.out # None
  <2>1. f.out \in Places BY <1>1 DEF Frame
  <2>2. QED BY <1>1, <2>1 DEF Goes
<1>2. CASE f.out = None
  <2>1. f.entry \in [to : Places, captured : BOOLEAN, fd : Places]
    BY DEF Frame
  <2>2. QED BY <1>2, <2>1 DEF Goes
<1>3. QED BY <1>1, <1>2

\* The top of the stack, and the part of the program it is at.
LEMMA TopFacts ==
    ASSUME IOAssumption, IInv
    PROVE  /\ calls \in Seq(GoodFrames) /\ calls # <<>>
           /\ Len(calls) \in Nat \ {0} /\ Len(calls) \in 1..Len(calls)
           /\ Top = calls[Len(calls)] /\ Top \in GoodFrames /\ Top \in Frame /\ Fits(Top)
           /\ Goes(Top) \in [to : Places, captured : BOOLEAN, fd : Places]
           /\ stdout = Goes(Top).fd /\ stdout \in Places
           /\ Top.stage # "part" =>
                 /\ ThePart \in Part /\ TheSeg \in Segment
                 /\ Top.seg \in 1..Len(ThePart.segs) /\ Len(ThePart.segs) \in Nat
           /\ Top.stage = "part" /\ HasPart =>
                 /\ Top.part \in DOMAIN prog[Top.line] /\ Top.seg = 1
                 /\ ThePart \in Part /\ 1 \in DOMAIN ThePart.segs
<1>1. /\ calls \in Seq(GoodFrames) /\ calls # <<>>
      /\ Len(calls) \in Nat \ {0}
      /\ Top = calls[Len(calls)] /\ Top \in GoodFrames
  <2>1. calls \in Seq(GoodFrames) /\ calls # <<>>
    BY DEF IInv, Leads, StackOK
  <2>2. QED BY <2>1, LastFrontFacts DEF Top
<1>2. Top \in Frame /\ Fits(Top) BY <1>1 DEF GoodFrames
<1>3. Goes(Top) \in [to : Places, captured : BOOLEAN, fd : Places]
  BY <1>2, GoesType
<1>4. stdout = Goes(Top).fd BY DEF IInv, Leads, Top
<1>5. prog[Top.line] \in Seq(Part)
  <2>1. prog \in [Lines -> Seq(Part)] BY DEF IInv, Streams, IOAssumption
  <2>2. Top.line \in Lines BY <1>2 DEF Frame
  <2>3. QED BY <2>1, <2>2
<1>6. ASSUME Top.part \in DOMAIN prog[Top.line]
      PROVE  /\ ThePart \in Part /\ ThePart.segs \in Seq(Segment)
             /\ ThePart.segs # <<>>
  <2>1. ThePart \in Part BY <1>5, <1>6, ElementOfSeq DEF ThePart
  <2>2. ThePart.segs # <<>>
    BY <1>2, <1>6 DEF IInv, Streams, IOAssumption, Frame, ThePart
  <2>3. ThePart.segs \in Seq(Segment) BY <2>1 DEF Part
  <2>4. QED BY <2>1, <2>2, <2>3
<1>7. ASSUME Top.stage # "part"
      PROVE  /\ ThePart \in Part /\ TheSeg \in Segment
             /\ Top.seg \in 1..Len(ThePart.segs) /\ Len(ThePart.segs) \in Nat
  <2>1. Top.part \in DOMAIN prog[Top.line] /\ Top.seg \in DOMAIN ThePart.segs
    BY <1>2, <1>7 DEF Fits, ThePart
  <2>2. ThePart \in Part /\ ThePart.segs \in Seq(Segment) BY <1>6, <2>1
  <2>3. TheSeg \in Segment BY <2>1, <2>2, ElementOfSeq DEF TheSeg
  <2>4. QED BY <2>1, <2>2, <2>3
<1>8. ASSUME Top.stage = "part", HasPart
      PROVE  /\ Top.part \in DOMAIN prog[Top.line] /\ Top.seg = 1
             /\ ThePart \in Part /\ 1 \in DOMAIN ThePart.segs
  <2>1. Top.part \in Nat \ {0} BY <1>2 DEF Frame
  <2>2. Top.part \in DOMAIN prog[Top.line]
    BY <1>5, <1>8, <2>1 DEF HasPart
  <2>3. ThePart \in Part /\ ThePart.segs \in Seq(Segment) /\ ThePart.segs # <<>>
    BY <1>6, <2>2
  <2>4. 1 \in DOMAIN ThePart.segs BY <2>3, EmptySeq
  <2>5. Top.seg = 1 BY <1>2, <1>8 DEF Fits
  <2>6. QED BY <2>2, <2>3, <2>4, <2>5
<1>9. QED BY <1>1, <1>2, <1>3, <1>4, <1>7, <1>8

\* Creating, writing and removing files.
LEMMA PutFacts ==
    ASSUME NEW fs, Disk(fs), NEW f \in Files \cup Temps, NEW text \in Seq(Values)
    PROVE  Disk(Put(f, text, fs)) /\ DOMAIN Put(f, text, fs) = DOMAIN fs \cup {f}
BY DEF Disk, Put

LEMMA OpenedFacts ==
    ASSUME NEW fs, Disk(fs), NEW f \in Files \cup Temps \cup {None}, NEW append
    PROVE  /\ Disk(Opened(f, append, fs))
           /\ DOMAIN fs \subseteq DOMAIN Opened(f, append, fs)
           /\ f # None => f \in DOMAIN Opened(f, append, fs)
<1>1. CASE f = None BY <1>1 DEF Opened
<1>2. CASE f # None
  <2> DEFINE text == IF append /\ f \in DOMAIN fs THEN fs[f] ELSE <<>>
  <2>1. text \in Seq(Values) BY EmptySeq DEF Disk
  <2>2. Opened(f, append, fs) = Put(f, text, fs) BY <1>2 DEF Opened
  <2>3. f \in Files \cup Temps BY <1>2
  <2> HIDE DEF text
  <2>4. Disk(Put(f, text, fs)) /\ DOMAIN Put(f, text, fs) = DOMAIN fs \cup {f}
    BY <2>1, <2>3, PutFacts
  <2>5. QED BY <2>2, <2>4
<1>3. QED BY <1>1, <1>2

LEMMA WithoutFacts ==
    ASSUME NEW fs, Disk(fs), NEW gone
    PROVE  Disk(Without(fs, gone)) /\ DOMAIN Without(fs, gone) = DOMAIN fs \ gone
BY DEF Disk, Without

LEMMA TruncatedFacts ==
    ASSUME IOAssumption, IInv, At("seg")
    PROVE  /\ Disk(Truncated) /\ DOMAIN files \subseteq DOMAIN Truncated
           /\ OpensOut /\ OpensErr /\ OutFile # None => OutFile \in DOMAIN Truncated
           /\ OutFile \in Files \cup PipeFiles \cup {None}
           /\ InFile \in Files \cup PipeFiles \cup {None}
           /\ TheSeg.err \in Files \cup {None}
<1>1. TheSeg \in Segment BY TopFacts DEF At
<1>2. /\ OutFile \in Files \cup PipeFiles \cup {None}
      /\ InFile \in Files \cup PipeFiles \cup {None}
      /\ TheSeg.err \in Files \cup {None}
  BY <1>1 DEF Segment, OutFile, InFile, PipeOut, PipeFiles
<1> DEFINE one == Opened(OutFile, Appends, files)
           two == Opened(TheSeg.err, FALSE, one)
<1>3. Disk(files) BY DEF IInv, Streams
<1>4. OutFile \in Files \cup Temps \cup {None} /\ TheSeg.err \in Files \cup Temps \cup {None}
  BY <1>2, PlaceFacts
<1>5. Disk(one) /\ DOMAIN files \subseteq DOMAIN one /\ (OutFile # None => OutFile \in DOMAIN one)
  BY <1>3, <1>4, OpenedFacts
<1> HIDE DEF one
<1>6. Disk(two) /\ DOMAIN one \subseteq DOMAIN two
  BY <1>4, <1>5, OpenedFacts
<1> HIDE DEF two
<1>7. Truncated = IF ~OpensOut THEN files ELSE IF ~OpensErr THEN one ELSE two
  BY DEF Truncated, one, two
<1>8. QED BY <1>2, <1>3, <1>5, <1>6, <1>7

(***************************************************************************)
(* Steps.                                                                  *)
(***************************************************************************)
\* What the first m - 1 calls have open is among fs.
Survives(m, fs) ==
    /\ \A i \in 1..m - 1 : calls[i].out # None => calls[i].out \in fs
    /\ \A i \in 1..m - 1 : calls[i + 1].captured => CaptureFiles[i] \in fs

Moves ==
    /\ Streams' /\ prog' = prog
    /\ Leads(calls', DOMAIN files', stdout', capture')

LEMMA AllSurvive ==
    ASSUME IInv, NEW m \in 1..Len(calls), NEW fs, DOMAIN files \subseteq fs
    PROVE  Survives(m, fs)
<1>1. Len(calls) \in Nat /\ calls \in Seq(GoodFrames)
  BY DEF IInv, Leads, StackOK
<1>2. \A i \in 1..m - 1 : i \in 1..Len(calls) /\ i \in 1..Len(calls) - 1
  BY <1>1
<1>3. QED BY <1>2 DEF IInv, Leads, Present, Survives

LEMMA KeepLeads ==
    ASSUME IInv, NEW m \in 1..Len(calls), NEW t, Kept(t, m),
           NEW fs, Survives(m, fs), t[m].out # None => t[m].out \in fs,
           NEW fd, fd = Goes(t[m]).fd, NEW cap \in {None, Goes(t[m]).to, fd}
    PROVE  Leads(t, fs, fd, cap)
<1>1. StackOK(t) /\ Len(t) = m /\ m \in Nat \ {0}
  <2>1. StackOK(calls) BY DEF IInv, Leads
  <2>2. Len(calls) \in Nat BY <2>1 DEF StackOK
  <2>3. StackOK(t) BY <2>1, KeepStack
  <2>4. Len(t) = m BY DEF Kept
  <2>5. QED BY <2>2, <2>3, <2>4
<1>2. Last(t) = t[m] BY <1>1 DEF Last
<1>3. Present(t, fs)
  <2>1. ASSUME NEW i \in 1..Len(t), t[i].out # None PROVE t[i].out \in fs
    <3>1. i = m \/ i \in 1..m - 1 BY <1>1
    <3>2. QED BY <2>1, <3>1 DEF Kept, Survives
  <2>2. ASSUME NEW i \in 1..Len(t) - 1, t[i + 1].captured PROVE CaptureFiles[i] \in fs
    <3>1. i \in 1..m - 1 /\ i + 1 \in 1..m BY <1>1
    <3>2. QED BY <2>2, <3>1 DEF Kept, Survives
  <2>3. QED BY <2>1, <2>2 DEF Present
<1>4. QED BY <1>1, <1>2, <1>3 DEF Leads

\* The top call changes.
LEMMA TopLeads ==
    ASSUME IInv, NEW g \in GoodFrames,
           g.captured = Top.captured, g.entry = Top.entry,
           NEW fs, Survives(Len(calls), fs), g.out # None => g.out \in fs,
           NEW fd, fd = Goes(g).fd, NEW cap \in {None, Goes(g).to, fd}
    PROVE  Leads(WithTop(g), fs, fd, cap)
<1>1. StackOK(calls) BY DEF IInv, Leads
<1>2. Len(calls) \in 1..Len(calls) BY <1>1, EmptySeq DEF StackOK
<1>3. Kept(WithTop(g), Len(calls)) /\ WithTop(g)[Len(calls)] = g
  BY <1>1, TopChanges
<1>4. QED BY <1>2, <1>3, KeepLeads

\* Only where the top call stands changes.
LEMMA TopSteps ==
    ASSUME IOAssumption, IInv, NEW g \in GoodFrames,
           g.captured = Top.captured, g.entry = Top.entry, g.out = Top.out,
           NEW fs, DOMAIN files \subseteq fs
    PROVE  /\ Leads(WithTop(g), fs, stdout, capture)
           /\ Leads(WithTop(g), fs, stdout, None)
<1>1. Goes(g) = Goes(Top) BY DEF Goes
<1>2. Survives(Len(calls), fs) /\ Len(calls) \in 1..Len(calls) /\ Top = calls[Len(calls)]
  BY TopFacts, AllSurvive
<1>3. g.out # None => g.out \in fs BY <1>2 DEF IInv, Leads, Present
<1>4. stdout = Goes(g).fd /\ capture \in {None, Goes(g).to, stdout}
  BY <1>1 DEF IInv, Leads, Top
<1>5. QED BY <1>2, <1>3, <1>4, TopLeads

LEMMA NoSubstitutionMoves == ASSUME IOAssumption, IInv, NoSubstitution PROVE Moves
<1> DEFINE g == [Top EXCEPT !.stage = "seg"]
<1>1. /\ Top \in Frame /\ Fits(Top) /\ Top.stage = "part"
      /\ Top.part \in DOMAIN prog[Top.line] /\ Top.seg = 1
      /\ 1 \in DOMAIN ThePart.segs
  BY TopFacts DEF NoSubstitution, At
<1>2. /\ g \in Frame /\ g.stage = "seg" /\ g.line = Top.line /\ g.part = Top.part
      /\ g.seg = Top.seg /\ g.out = Top.out /\ g.err = Top.err /\ g.in = Top.in
      /\ g.captured = Top.captured /\ g.entry = Top.entry
      /\ g.oldOut = Top.oldOut /\ g.oldIn = Top.oldIn
  BY <1>1 DEF Frame
<1> HIDE DEF g
<1>3. Fits(g) BY <1>1, <1>2 DEF Fits, Idle, ThePart
<1>4. g \in GoodFrames BY <1>2, <1>3 DEF GoodFrames
<1>5. Leads(WithTop(g), DOMAIN files, stdout, capture)
  BY <1>2, <1>4, TopSteps
<1>6. QED BY <1>5 DEF NoSubstitution, Moves, IInv, Streams, g

LEMMA SegmentFailsMoves == ASSUME IOAssumption, IInv, SegmentFails PROVE Moves
<1> DEFINE g == [Top EXCEPT !.stage = "next", !.piped = <<>>]
<1>1. Top \in Frame /\ Fits(Top) /\ Top.stage = "seg"
  BY TopFacts DEF SegmentFails, At
<1>2. /\ g \in Frame /\ g.stage = "next" /\ g.line = Top.line /\ g.part = Top.part
      /\ g.seg = Top.seg /\ g.out = Top.out /\ g.err = Top.err /\ g.in = Top.in
      /\ g.captured = Top.captured /\ g.entry = Top.entry
      /\ g.oldOut = Top.oldOut /\ g.oldIn = Top.oldIn
  BY <1>1, EmptySeq DEF Frame
<1> HIDE DEF g
<1>3. Fits(g) BY <1>1, <1>2 DEF Fits, Idle
<1>4. g \in GoodFrames BY <1>2, <1>3 DEF GoodFrames
<1>5. Disk(Truncated) /\ DOMAIN files \subseteq DOMAIN Truncated
  BY TruncatedFacts DEF SegmentFails
<1>6. /\ Leads(WithTop(g), DOMAIN Truncated, stdout, capture)
      /\ Leads(WithTop(g), DOMAIN Truncated, stdout, None)
  BY <1>2, <1>4, <1>5, TopSteps
<1>7. calls' = WithTop(g) /\ files' = Truncated /\ stdout' = stdout
      /\ (capture' = None \/ capture' = capture)
  BY DEF SegmentFails, g
<1>8. Streams'
  <2>1. mixed' \subseteq {"capture", "pipe"}
    BY DEF SegmentFails, Nesting, IInv, Streams
  <2>2. QED BY <1>5, <1>7, <2>1 DEF SegmentFails, IInv, Streams, Disk
<1>9. prog' = prog BY DEF SegmentFails
<1>10. QED BY <1>6, <1>7, <1>8, <1>9 DEF Moves

LEMMA NextSegmentMoves == ASSUME IOAssumption, IInv, NextSegment PROVE Moves
<1> DEFINE g == [Top EXCEPT !.stage = "seg", !.seg = Top.seg + 1]
<1>1. /\ Top \in Frame /\ Fits(Top) /\ Top.stage = "next"
      /\ Top.seg \in 1..Len(ThePart.segs) /\ Len(ThePart.segs) \in Nat
      /\ ThePart \in Part
  BY TopFacts DEF NextSegment, At
<1>2. Top.seg + 1 \in 1..Len(ThePart.segs) /\ Top.seg + 1 \in Nat \ {0}
  BY <1>1 DEF NextSegment, IsLast
<1>3. Top.seg + 1 \in DOMAIN ThePart.segs BY <1>1, <1>2 DEF Part
<1>4. /\ g \in Frame /\ g.stage = "seg" /\ g.line = Top.line /\ g.part = Top.part
      /\ g.seg = Top.seg + 1 /\ g.out = Top.out /\ g.err = Top.err /\ g.in = Top.in
      /\ g.captured = Top.captured /\ g.entry = Top.entry
      /\ g.oldOut = Top.oldOut /\ g.oldIn = Top.oldIn
  BY <1>1, <1>2, ZenonT(60) DEF Frame
<1> HIDE DEF g
<1>5. Fits(g) BY <1>1, <1>3, <1>4 DEF Fits, Idle, ThePart
<1>6. g \in GoodFrames BY <1>4, <1>5 DEF GoodFrames
<1>7. Leads(WithTop(g), DOMAIN files, stdout, capture)
  BY <1>4, <1>6, TopSteps
<1>8. QED BY <1>7 DEF NextSegment, Moves, IInv, Streams, g

LEMMA WrittenFacts ==
    ASSUME NEW i \in DOMAIN calls, calls[i].out # None
    PROVE  calls[i].out \in Written
<1>1. {calls[i].out, calls[i].err} \in {{calls[k].out, calls[k].err} : k \in DOMAIN calls}
  OBVIOUS
<1>2. calls[i].out \in UNION {{calls[k].out, calls[k].err} : k \in DOMAIN calls}
  BY <1>1
<1>3. QED BY <1>2 DEF Written

LEMMA PartEndsMoves == ASSUME IOAssumption, IInv, PartEnds PROVE Moves
<1> DEFINE g == [Top EXCEPT !.stage = "part", !.part = Top.part + 1, !.seg = 1]
           n == Len(calls)
<1>1. Top \in Frame /\ Fits(Top) /\ Top.stage = "next"
  BY TopFacts DEF PartEnds, At
<1>14. n \in 1..n /\ n \in Nat /\ calls \in Seq(GoodFrames) BY TopFacts
<1>2. Top.part + 1 \in Nat \ {0} /\ 1 \in Nat \ {0} BY <1>1 DEF Frame
<1>3. /\ g \in Frame /\ g.stage = "part" /\ g.seg = 1
      /\ g.out = Top.out /\ g.err = Top.err /\ g.in = Top.in
      /\ g.captured = Top.captured /\ g.entry = Top.entry
      /\ g.oldOut = Top.oldOut /\ g.oldIn = Top.oldIn
  BY <1>1, <1>2, ZenonT(60) DEF Frame
<1> HIDE DEF g
<1>4. g \in GoodFrames
  <2>1. Fits(g) BY <1>1, <1>3 DEF Fits, Idle
  <2>2. QED BY <1>3, <2>1 DEF GoodFrames
<1>5. g.out = None /\ Goes(g) = Goes(Top)
  BY <1>1, <1>3 DEF Fits, Idle, Goes
<1>6. stdout = Goes(g).fd /\ capture \in {None, Goes(g).to, stdout}
  BY <1>5 DEF IInv, Leads, Top
<1>7. Disk(Without(files, Removable))
      /\ DOMAIN Without(files, Removable) = DOMAIN files \ Removable
  BY WithoutFacts DEF IInv, Streams
<1>8. Survives(n, DOMAIN files \ Removable)
  <2>1. Survives(n, DOMAIN files) BY <1>14, AllSurvive
  <2>2. ASSUME NEW i \in 1..n - 1, calls[i].out # None
        PROVE  calls[i].out \notin Removable
    <3>1. i \in DOMAIN calls BY <1>14
    <3>2. calls[i].out \in Written BY <2>2, <3>1, WrittenFacts
    <3>3. QED BY <3>2 DEF Removable
  <2>3. ASSUME NEW i \in 1..n - 1, calls[i + 1].captured
        PROVE  CaptureFiles[i] \notin Removable
    <3>1. Calls(calls[i], calls[i + 1], i)
      BY DEF IInv, Leads, StackOK, Linked
    <3>2. i \in DOMAIN CaptureFiles
      BY <1>14, <2>3, <3>1, PlaceFacts DEF Calls
    <3>3. QED BY <3>2, PlaceFacts DEF Removable, PipeFiles
  <2>4. QED BY <2>1, <2>2, <2>3 DEF Survives
<1>9. Survives(n, DOMAIN files')
  <2>1. Survives(n, DOMAIN files) BY <1>14, AllSurvive
  <2>2. QED BY <1>7, <1>8, <2>1 DEF PartEnds
<1>10. Leads(WithTop(g), DOMAIN files', stdout, capture)
  BY <1>3, <1>4, <1>5, <1>6, <1>9, TopLeads
<1>11. Disk(files') BY <1>7 DEF PartEnds, IInv, Streams
<1>12. Streams' /\ prog' = prog
  BY <1>11 DEF PartEnds, IInv, Streams, Disk
<1>13. QED BY <1>10, <1>12 DEF PartEnds, Moves, g

\* A new call with a place of its own to write to.
NewRight(h, e, c) ==
    h \in GoodFrames /\ h.out = None /\ h.captured = c /\ h.entry = e /\ Goes(h) = e

LEMMA NewFrameGood ==
    ASSUME IOAssumption, IInv, NEW l \in Lines, NEW c \in BOOLEAN,
           NEW e \in [to : Places, captured : BOOLEAN, fd : Places],
           ~e.captured => e.to = e.fd
    PROVE  NewRight(NewFrame(l, e, c), e, c)
<1> DEFINE h == NewFrame(l, e, c)
<1>1. NoInput \in Input BY EmptySeq DEF NoInput, Input
<1>2. /\ h \in Frame /\ h.out = None /\ h.captured = c /\ h.entry = e
      /\ h.stage = "part" /\ h.seg = 1 /\ h.err = None /\ h.in = None
  BY <1>1, EmptySeq DEF NewFrame, Frame
<1> HIDE DEF h
<1>3. Fits(h) BY <1>2 DEF Fits, Idle
<1>4. QED
  <2>1. NewRight(h, e, c) BY <1>2, <1>3 DEF NewRight, GoodFrames, Goes
  <2> QED BY <2>1 DEF h

\* What h, called next, prints into exists if it is captured.
HasFile(h, fs) == h.captured => CaptureFiles[Len(calls)] \in fs

\* A call is made, while the top one is as g says.
LEMMA CallLeads ==
    ASSUME IOAssumption, IInv, NEW g \in GoodFrames,
           g.captured = Top.captured, g.entry = Top.entry, g.out = Top.out,
           NEW h \in GoodFrames, h.out = None, Calls(g, h, Len(calls)),
           NEW fs, DOMAIN files \subseteq fs,
           HasFile(h, fs),
           NEW fd, fd = Goes(h).fd, NEW cap \in {None, Goes(h).to, fd}
    PROVE  Leads(Append(WithTop(g), h), fs, fd, cap)
<1> DEFINE s == WithTop(g)
           t == Append(s, h)
           n == Len(calls)
<1>1. Leads(s, fs, stdout, None) BY TopSteps
<1>2. StackOK(s) /\ Present(s, fs) BY <1>1 DEF Leads
<1>3. Len(s) = n /\ s[n] = g /\ n \in Nat \ {0}
  BY TopFacts, TopChanges DEF IInv, Leads
<1> HIDE DEF s
<1>4. StackOK(t) BY <1>2, <1>3, PushStack
<1>5. /\ Len(t) = n + 1 /\ t[n + 1] = h
      /\ \A i \in 1..n : t[i] = s[i]
  BY <1>2, <1>3, AppendFacts DEF StackOK
<1> HIDE DEF t
<1>6. Last(t) = h BY <1>3, <1>5 DEF Last
<1>7. Present(t, fs)
  <2>1. ASSUME NEW i \in 1..Len(t), t[i].out # None PROVE t[i].out \in fs
    <3>1. i = n + 1 \/ i \in 1..n BY <1>3, <1>5
    <3>2. i # n + 1 BY <1>5, <2>1
    <3>3. QED BY <1>2, <1>3, <1>5, <2>1, <3>1, <3>2 DEF Present
  <2>2. ASSUME NEW i \in 1..Len(t) - 1, t[i + 1].captured PROVE CaptureFiles[i] \in fs
    <3>1. i = n \/ (i \in 1..n - 1 /\ i + 1 \in 1..n) BY <1>3, <1>5
    <3>2. CASE i = n BY <1>5, <2>2, <3>2 DEF HasFile
    <3>3. CASE i \in 1..n - 1 /\ i + 1 \in 1..n
      BY <1>2, <1>3, <1>5, <2>2, <3>3 DEF Present
    <3>4. QED BY <3>1, <3>2, <3>3
  <2>3. QED BY <2>1, <2>2 DEF Present
<1>8. QED BY <1>4, <1>6, <1>7 DEF Leads, t, s

LEMMA SubstituteMoves == ASSUME IOAssumption, IInv, Substitute PROVE Moves
<1> DEFINE g == [Top EXCEPT !.stage = "subst"]
           f == CaptureFiles[Len(calls)]
           e == [to |-> f, captured |-> TRUE, fd |-> stdout]
           h == NewFrame(ThePart.subst, e, TRUE)
<1>1. /\ Top \in Frame /\ Fits(Top) /\ Top.stage = "part"
      /\ Top.part \in DOMAIN prog[Top.line] /\ Top.seg = 1
      /\ 1 \in DOMAIN ThePart.segs
  BY TopFacts DEF Substitute, At
<1>2. /\ g \in Frame /\ g.stage = "subst" /\ g.line = Top.line /\ g.part = Top.part
      /\ g.seg = Top.seg /\ g.out = Top.out /\ g.err = Top.err /\ g.in = Top.in
      /\ g.captured = Top.captured /\ g.entry = Top.entry
      /\ g.oldOut = Top.oldOut /\ g.oldIn = Top.oldIn
  BY <1>1 DEF Frame
<1>3. Goes(g) = Goes(Top) BY <1>2 DEF Goes
<1> HIDE DEF g
<1>4. g \in GoodFrames
  <2>1. Fits(g) BY <1>1, <1>2 DEF Fits, Idle, ThePart
  <2>2. QED BY <1>2, <2>1 DEF GoodFrames
<1>5. Len(calls) \in DOMAIN CaptureFiles /\ f \in Temps /\ f \in Places
  <2>1. Len(calls) \in Nat \ {0} /\ Len(calls) <= Len(CaptureFiles)
    BY TopFacts DEF Substitute
  <2>2. Len(CaptureFiles) \in Nat /\ DOMAIN CaptureFiles = 1..Len(CaptureFiles)
    BY PlaceFacts
  <2>3. Len(calls) \in DOMAIN CaptureFiles BY <2>1, <2>2
  <2>4. QED BY <2>3, PlaceFacts
<1>6. e \in [to : Places, captured : BOOLEAN, fd : Places] /\ e.captured
      /\ e.fd = stdout /\ e.to = f
  BY <1>5, TopFacts
<1> HIDE DEF e
<1>7. ThePart.subst \in Lines
  <2>1. ThePart \in Part BY TopFacts DEF Substitute, At
  <2>2. QED BY <2>1 DEF Substitute, Part
<1>8. h \in GoodFrames /\ h.out = None /\ h.captured = TRUE
      /\ h.entry = e /\ Goes(h) = e
  <2>1. NewRight(NewFrame(ThePart.subst, e, TRUE), e, TRUE)
    BY <1>6, <1>7, TRUE \in BOOLEAN, NewFrameGood
  <2> QED BY <2>1 DEF NewRight
<1>9. Calls(g, h, Len(calls))
  <2>1. Len(calls) <= Len(CaptureFiles) BY DEF Substitute
  <2>2. stdout = Goes(g).fd BY <1>3, TopFacts
  <2>3. QED BY <1>2, <1>8, <2>1, <2>2 DEF Calls, e, f
<1>10. /\ Disk(files') /\ DOMAIN files \subseteq DOMAIN files' /\ f \in DOMAIN files'
  <2>1. f # None BY <1>5, PlaceFacts
  <2>2. Disk(files) /\ f \in Files \cup Temps \cup {None}
    BY <1>5 DEF IInv, Streams
  <2>3. files' = Opened(f, FALSE, files) BY DEF Substitute
  <2> HIDE DEF f
  <2>4. QED BY <2>1, <2>2, <2>3, OpenedFacts
<1> HIDE DEF h, f
<1>11. Leads(Append(WithTop(g), h), DOMAIN files', stdout, f)
  <2>1. stdout = Goes(h).fd /\ f \in {None, Goes(h).to, stdout}
    BY <1>6, <1>8
  <2>2. HasFile(h, DOMAIN files') BY <1>10 DEF f, HasFile
  <2>3. /\ g.captured = Top.captured /\ g.entry = Top.entry /\ g.out = Top.out
        /\ h \in GoodFrames /\ h.out = None
    BY <1>2, <1>8
  <2>4. DOMAIN files \subseteq DOMAIN files' BY <1>10
  <2>5. QED BY <1>4, <1>9, <2>1, <2>2, <2>3, <2>4, CallLeads
<1>12. calls' = Append(WithTop(g), h) /\ stdout' = stdout /\ capture' = f
  BY DEF Substitute, g, h, e, f
<1>13. Streams' /\ prog' = prog
  <2>1. mixed' \subseteq {"capture", "pipe"}
    BY DEF Substitute, IInv, Streams
  <2>2. QED BY <1>10, <2>1 DEF Substitute, IInv, Streams, Disk
<1>14. QED BY <1>11, <1>12, <1>13 DEF Moves

LEMMA CallFunctionMoves == ASSUME IOAssumption, IInv, CallFunction PROVE Moves
<1> DEFINE g == [Top EXCEPT !.stage = "call"]
           e == Goes(Top)
           h == NewFrame(TheSeg.cmd.line, e, FALSE)
<1>1. Top \in Frame /\ Fits(Top) /\ Top.stage = "run" /\ TheSeg \in Segment
  BY TopFacts DEF CallFunction, At
<1>2. /\ g \in Frame /\ g.stage = "call" /\ g.line = Top.line /\ g.part = Top.part
      /\ g.seg = Top.seg /\ g.out = Top.out /\ g.err = Top.err /\ g.in = Top.in
      /\ g.captured = Top.captured /\ g.entry = Top.entry
      /\ g.oldOut = Top.oldOut /\ g.oldIn = Top.oldIn
  BY <1>1 DEF Frame
<1>3. Goes(g) = e BY <1>2 DEF Goes
<1> HIDE DEF g
<1>4. g \in GoodFrames
  <2>1. Fits(g) BY <1>1, <1>2 DEF Fits, Idle
  <2>2. QED BY <1>2, <2>1 DEF GoodFrames
<1>5. e \in [to : Places, captured : BOOLEAN, fd : Places] /\ stdout = e.fd
  BY TopFacts
<1>6. ~e.captured => e.to = e.fd BY <1>1 DEF Fits, Goes
<1>7. TheSeg.cmd.line \in Lines
  <2>1. TheSeg.cmd \in Cmd BY <1>1 DEF Segment
  <2>2. TheSeg.cmd.k = "call" BY DEF CallFunction
  <2>3. QED BY <2>1, <2>2 DEF Cmd
<1>8. capture \in {None, e.to, stdout} BY DEF IInv, Leads, Top
<1> HIDE DEF e
<1>9. h \in GoodFrames /\ h.out = None /\ h.captured = FALSE
      /\ h.entry = e /\ Goes(h) = e
  <2>1. NewRight(NewFrame(TheSeg.cmd.line, e, FALSE), e, FALSE)
    BY <1>5, <1>6, <1>7, FALSE \in BOOLEAN, NewFrameGood
  <2> QED BY <2>1 DEF NewRight
<1>10. Calls(g, h, Len(calls)) BY <1>2, <1>3, <1>9 DEF Calls
<1> HIDE DEF h
<1>11. Leads(Append(WithTop(g), h), DOMAIN files, stdout, capture)
  <2> DEFINE fs == DOMAIN files
             cap == capture
             fd == stdout
  <2>1. /\ g.captured = Top.captured /\ g.entry = Top.entry /\ g.out = Top.out
        /\ h \in GoodFrames /\ h.out = None
        /\ HasFile(h, fs) /\ DOMAIN files \subseteq fs
        /\ fd = Goes(h).fd /\ cap \in {None, Goes(h).to, fd}
    BY <1>2, <1>5, <1>8, <1>9 DEF HasFile
  <2> HIDE DEF fs, fd, cap
  <2>2. Leads(Append(WithTop(g), h), fs, fd, cap)
    BY <1>4, <1>10, <2>1, CallLeads
  <2>3. QED BY <2>2 DEF fs, fd, cap
<1>12. QED BY <1>11 DEF CallFunction, Moves, IInv, Streams, g, h, e

\* The top call returns.
LEMMA ReturnLeads ==
    ASSUME IInv, Len(calls) > 1, NEW g \in GoodFrames,
           g.captured = Caller.captured, g.entry = Caller.entry,
           NEW fs, Survives(Len(calls) - 1, fs), g.out # None => g.out \in fs,
           NEW fd, fd = Goes(g).fd, NEW cap \in {None, Goes(g).to, fd}
    PROVE  Leads(Returned(g), fs, fd, cap)
<1> DEFINE t == Returned(g)
           m == Len(calls) - 1
<1>1. StackOK(calls) BY DEF IInv, Leads
<1>2. StackOK(t) /\ Kept(t, m) /\ Last(t) = g /\ Len(t) = m
  BY <1>1, CallReturns
<1>3. m \in 1..Len(calls) /\ t[m] = g
  <2>1. Len(calls) \in Nat BY <1>1 DEF StackOK
  <2>2. t[Len(t)] = g BY <1>2 DEF Last
  <2>3. QED BY <1>2, <2>1, <2>2
<1> HIDE DEF t
<1>4. Survives(m, fs) OBVIOUS
<1> HIDE DEF m
<1>5. Leads(t, fs, fd, cap)
  <2>1. /\ t[m].out # None => t[m].out \in fs
        /\ fd = Goes(t[m]).fd /\ cap \in {None, Goes(t[m]).to, fd}
    BY <1>3
  <2>2. QED BY <1>2, <1>3, <1>4, <2>1, KeepLeads
<1>6. QED BY <1>5 DEF t

\* The calls below the top one.
LEMMA CallerFacts ==
    ASSUME IOAssumption, IInv, Top.captured \/ Len(calls) > 1
    PROVE  /\ Len(calls) > 1 /\ Len(calls) - 1 \in 1..Len(calls)
           /\ Caller \in GoodFrames /\ Caller \in Frame /\ Fits(Caller)
           /\ Caller = calls[Len(calls) - 1]
           /\ Calls(Caller, Top, Len(calls) - 1)
<1>1. StackOK(calls) /\ Len(calls) \in Nat \ {0} /\ Top = calls[Len(calls)]
  BY TopFacts DEF IInv, Leads
<1>2. Len(calls) > 1
  <2>1. ASSUME Top.captured, Len(calls) = 1 PROVE FALSE
    <3>1. calls[1].captured = FALSE BY <1>1 DEF StackOK, Linked
    <3>2. Top = calls[1] BY <1>1, <2>1
    <3>3. QED BY <2>1, <3>1, <3>2
  <2>2. CASE Top.captured
    <3>1. Len(calls) # 1 BY <2>1, <2>2
    <3>2. PICK k \in Nat : k = Len(calls) /\ k # 0 BY <1>1
    <3>3. k > 1 BY ONLY <3>1, <3>2
    <3>4. QED BY <3>2, <3>3
  <2>3. QED BY <2>2
<1>3. Caller = calls[Len(calls) - 1] /\ Len(calls) - 1 \in 1..Len(calls)
      /\ Len(calls) - 1 \in 1..Len(calls) - 1
      /\ (Len(calls) - 1) + 1 = Len(calls)
  BY <1>1, <1>2 DEF Caller
<1>4. Caller \in GoodFrames BY <1>1, <1>3, ElementOfSeq DEF StackOK
<1>5. Calls(Caller, Top, Len(calls) - 1)
  BY <1>1, <1>3 DEF StackOK, Linked
<1>6. QED BY <1>2, <1>3, <1>4, <1>5 DEF GoodFrames

LEMMA CaptureEndsMoves == ASSUME IOAssumption, IInv, CaptureEnds PROVE Moves
<1> DEFINE f == Top.entry.to
           g == [Caller EXCEPT !.value = files[f], !.stage = "seg"]
           n == Len(calls) - 1
<1>1. /\ Top \in Frame /\ Fits(Top) /\ Top.stage = "part" /\ Top.captured
      /\ stdout = Goes(Top).fd
  BY TopFacts DEF CaptureEnds, At
<1>2. /\ Len(calls) > 1 /\ n \in 1..Len(calls)
      /\ Caller \in Frame /\ Fits(Caller) /\ Calls(Caller, Top, n)
  BY <1>1, CallerFacts
<1>3. /\ Caller.stage = "subst" /\ n \in DOMAIN CaptureFiles
      /\ f = CaptureFiles[n] /\ Top.entry.fd = Goes(Caller).fd
  BY <1>1, <1>2, PlaceFacts DEF Calls
<1>4. f \in DOMAIN files
  <2>1. Top = calls[n + 1] /\ n \in 1..Len(calls) - 1 BY <1>2, TopFacts
  <2>2. QED BY <1>1, <1>3, <2>1 DEF IInv, Leads, Present
<1>5. files[f] \in Seq(Values) BY <1>4 DEF IInv, Streams, Disk
<1> HIDE DEF f
<1>6. /\ g \in Frame /\ g.stage = "seg" /\ g.line = Caller.line /\ g.part = Caller.part
      /\ g.seg = Caller.seg /\ g.out = Caller.out /\ g.err = Caller.err
      /\ g.in = Caller.in /\ g.captured = Caller.captured /\ g.entry = Caller.entry
      /\ g.oldOut = Caller.oldOut /\ g.oldIn = Caller.oldIn
  BY <1>2, <1>5 DEF Frame
<1> HIDE DEF g
<1>7. g \in GoodFrames /\ g.out = None
  <2>1. Fits(g) /\ g.out = None BY <1>2, <1>3, <1>6 DEF Fits, Idle
  <2>2. QED BY <1>6, <2>1 DEF GoodFrames
<1>8. stdout = Goes(g).fd
  <2>1. Goes(Top) = Top.entry BY <1>1 DEF Fits, Idle, Goes
  <2>2. Goes(g) = Goes(Caller) BY <1>6 DEF Goes
  <2>3. QED BY <1>1, <1>3, <2>1, <2>2
<1>9. Disk(files') /\ DOMAIN files' = DOMAIN files \ {f}
  BY WithoutFacts DEF CaptureEnds, IInv, Streams, f
<1>10. Survives(n, DOMAIN files')
  <2>1. Survives(n, DOMAIN files) BY <1>2, AllSurvive
  <2>2. calls \in Seq(GoodFrames) /\ n + 1 = Len(calls) /\ n \in Nat /\ Len(calls) \in Nat
    BY <1>2, TopFacts
  <2> HIDE DEF n
  <2>3. ASSUME NEW i \in 1..n - 1, calls[i].out # None PROVE calls[i].out # f
    <3>1. i \in DOMAIN calls BY <2>2
    <3>2. calls[i] \in GoodFrames BY <2>2, <3>1, ElementOfSeq
    <3>3. calls[i].out \in Files \cup PipeFiles
      BY <2>3, <3>2 DEF GoodFrames, Fits
    <3>4. f \notin Files \cup PipeFiles BY <1>3, PlaceFacts
    <3>5. QED BY <3>3, <3>4
  <2>4. ASSUME NEW i \in 1..n - 1, calls[i + 1].captured PROVE CaptureFiles[i] # f
    <3>1. i \in 1..Len(calls) - 1 /\ i # n BY <2>2
    <3>2. Calls(calls[i], calls[i + 1], i)
      BY <3>1 DEF IInv, Leads, StackOK, Linked
    <3>3. i \in DOMAIN CaptureFiles
      BY <2>2, <2>4, <3>2, PlaceFacts DEF Calls
    <3>4. QED BY <1>3, <3>1, <3>3, PlaceFacts
  <2>5. QED BY <1>9, <2>1, <2>3, <2>4 DEF Survives
<1>11. Leads(Returned(g), DOMAIN files', stdout, None)
  BY <1>2, <1>6, <1>7, <1>8, <1>10, ReturnLeads
<1>12. Streams' /\ prog' = prog
  BY <1>9 DEF CaptureEnds, IInv, Streams, Disk
<1>13. calls' = Returned(g) /\ stdout' = stdout /\ capture' = None
  BY DEF CaptureEnds, g, f
<1>14. QED BY <1>11, <1>12, <1>13 DEF Moves

LEMMA FunctionEndsMoves == ASSUME IOAssumption, IInv, FunctionEnds PROVE Moves
<1> DEFINE g == [Caller EXCEPT !.stage = "end"]
           n == Len(calls) - 1
<1>1. /\ Top \in Frame /\ Fits(Top) /\ Top.stage = "part" /\ ~Top.captured
      /\ Len(calls) > 1 /\ stdout = Goes(Top).fd
  BY TopFacts DEF FunctionEnds, At
<1>2. /\ n \in 1..Len(calls) /\ Caller \in Frame /\ Fits(Caller)
      /\ Caller = calls[n] /\ Calls(Caller, Top, n)
  BY <1>1, CallerFacts
<1>3. Caller.stage = "call" /\ Top.entry = Goes(Caller)
  BY <1>1, <1>2 DEF Calls
<1>4. /\ g \in Frame /\ g.stage = "end" /\ g.line = Caller.line /\ g.part = Caller.part
      /\ g.seg = Caller.seg /\ g.out = Caller.out /\ g.err = Caller.err
      /\ g.in = Caller.in /\ g.captured = Caller.captured /\ g.entry = Caller.entry
      /\ g.oldOut = Caller.oldOut /\ g.oldIn = Caller.oldIn
  BY <1>2 DEF Frame
<1> HIDE DEF g
<1>5. g \in GoodFrames
  <2>1. Fits(g) BY <1>2, <1>3, <1>4 DEF Fits, Idle
  <2>2. QED BY <1>4, <2>1 DEF GoodFrames
<1>6. Goes(g) = Goes(Top)
  <2>1. Goes(Top) = Top.entry BY <1>1 DEF Fits, Idle, Goes
  <2>2. Goes(g) = Goes(Caller) BY <1>4 DEF Goes
  <2>3. QED BY <1>3, <2>1, <2>2
<1>7. stdout = Goes(g).fd /\ capture \in {None, Goes(g).to, stdout}
  BY <1>6 DEF IInv, Leads, Top
<1>8. Survives(n, DOMAIN files) /\ (g.out # None => g.out \in DOMAIN files)
  <2>1. Survives(n, DOMAIN files) BY <1>2, AllSurvive
  <2>2. QED BY <1>2, <1>4, <2>1 DEF IInv, Leads, Present
<1>9. Leads(Returned(g), DOMAIN files, stdout, capture)
  BY <1>1, <1>4, <1>5, <1>7, <1>8, ReturnLeads
<1>10. QED BY <1>9 DEF FunctionEnds, Moves, IInv, Streams, g

LEMMA StartSegmentMoves == ASSUME IOAssumption, IInv, StartSegment PROVE Moves
<1> DEFINE old == IF OutFile = None THEN None ELSE stdout
           oldin == IF InFile = None THEN NoInput ELSE stdin
           g == [Top EXCEPT !.stage = "run", !.said = <<>>,
                            !.out = OutFile, !.err = TheSeg.err, !.in = InFile,
                            !.oldOut = old, !.oldIn = oldin]
<1>1. /\ Top \in Frame /\ Fits(Top) /\ Top.stage = "seg"
      /\ stdout = Goes(Top).fd /\ stdout \in Places
  BY TopFacts DEF StartSegment, At
<1>2. /\ Disk(Truncated) /\ DOMAIN files \subseteq DOMAIN Truncated
      /\ OutFile # None => OutFile \in DOMAIN Truncated
      /\ OutFile \in Files \cup PipeFiles \cup {None}
      /\ InFile \in Files \cup PipeFiles \cup {None}
      /\ TheSeg.err \in Files \cup {None}
  BY TruncatedFacts DEF StartSegment
<1>3. /\ OutFile \in Places \cup {None} /\ InFile \in Places \cup {None}
      /\ TheSeg.err \in Places \cup {None}
  BY <1>2, PlaceFacts
<1>4. old \in Places \cup {None} /\ oldin \in Input
  <2>1. NoInput \in Input /\ stdin \in Input
    BY EmptySeq DEF NoInput, Input, IInv, Streams
  <2>2. QED BY <1>1, <2>1
<1>5. stdout = Top.entry.fd BY <1>1 DEF Fits, Idle, Goes
<1>6. (OutFile # None => old = Top.entry.fd) /\ (InFile # None => oldin.file # None)
  BY <1>5 DEF IInv, Streams
<1> HIDE DEF old, oldin
<1>7. /\ g \in Frame /\ g.stage = "run" /\ g.line = Top.line /\ g.part = Top.part
      /\ g.seg = Top.seg /\ g.out = OutFile /\ g.err = TheSeg.err /\ g.in = InFile
      /\ g.captured = Top.captured /\ g.entry = Top.entry
      /\ g.oldOut = old /\ g.oldIn = oldin
  BY <1>1, <1>3, <1>4, EmptySeq DEF Frame
<1>8. calls' = WithTop(g) BY DEF StartSegment, old, oldin
<1> HIDE DEF g
<1>9. g \in GoodFrames
  <2>1. Fits(g) BY <1>1, <1>2, <1>6, <1>7 DEF Fits, Idle
  <2>2. QED BY <1>7, <2>1 DEF GoodFrames
<1>10. Survives(Len(calls), DOMAIN Truncated)
  BY <1>2, TopFacts, AllSurvive
<1>11. stdout' = Goes(g).fd /\ capture' \in {None, Goes(g).to, stdout'}
  <2>1. CASE OutFile # None
    <3>1. Goes(g).to = OutFile /\ Goes(g).fd = OutFile
      BY <1>7, <2>1 DEF Goes
    <3>2. QED BY <2>1, <3>1 DEF StartSegment
  <2>2. CASE OutFile = None
    <3>1. Goes(g) = Goes(Top) BY <1>1, <1>7, <2>2 DEF Goes, Fits, Idle
    <3>2. stdout' = stdout /\ (capture' = capture \/ capture' = stdout)
      BY <2>2 DEF StartSegment
    <3>3. QED BY <1>1, <3>1, <3>2 DEF IInv, Leads, Top
  <2>3. QED BY <2>1, <2>2
<1>12. Leads(WithTop(g), DOMAIN Truncated, stdout', capture')
  <2>1. g.out # None => g.out \in DOMAIN Truncated BY <1>2, <1>7
  <2>2. QED BY <1>7, <1>9, <1>10, <1>11, <2>1, TopLeads
<1>13. Streams'
  <2>1. stdin' \in Input /\ stdin'.file # None
    <3>1. CASE InFile = None BY <3>1 DEF StartSegment, IInv, Streams
    <3>2. CASE InFile # None
      <4>1. InFile \in DOMAIN files
        BY <3>2 DEF StartSegment, OpensIn, CanRead
      <4>2. Truncated[InFile] \in Seq(Values) BY <1>2, <4>1 DEF Disk
      <4>3. stdin' = [file |-> InFile, rest |-> Truncated[InFile]]
        BY <3>2 DEF StartSegment
      <4>4. QED BY <1>3, <3>2, <4>2, <4>3 DEF Input
    <3>3. QED BY <3>1, <3>2
  <2>2. mixed' \subseteq {"capture", "pipe"}
    BY DEF StartSegment, Nesting, IInv, Streams
  <2>3. files' = Truncated BY DEF StartSegment
  <2>4. QED BY <1>2, <2>1, <2>2, <2>3 DEF StartSegment, IInv, Streams, Disk
<1>14. files' = Truncated /\ prog' = prog BY DEF StartSegment
<1>15. QED BY <1>8, <1>12, <1>13, <1>14 DEF Moves

LEMMA EndSegmentMoves == ASSUME IOAssumption, IInv, EndSegment PROVE Moves
<1> DEFINE g == [Top EXCEPT !.stage = "next", !.piped = Top.said,
                            !.out = None, !.err = None, !.in = None]
<1>1. /\ Top \in Frame /\ Fits(Top) /\ Top.stage = "end"
      /\ stdout = Goes(Top).fd
  BY TopFacts DEF EndSegment, Ended, At
<1>2. Top.said \in Seq(Values) /\ Top.oldIn \in Input /\ Top.entry.fd \in Places
  BY <1>1 DEF Frame
<1>3. /\ g \in Frame /\ g.stage = "next" /\ g.line = Top.line /\ g.part = Top.part
      /\ g.seg = Top.seg /\ g.out = None /\ g.err = None /\ g.in = None
      /\ g.captured = Top.captured /\ g.entry = Top.entry
      /\ g.oldOut = Top.oldOut /\ g.oldIn = Top.oldIn
  BY <1>1, <1>2, ZenonT(60) DEF Frame
<1>4. calls' = WithTop(g) BY DEF EndSegment, Ended
<1> HIDE DEF g
<1>5. g \in GoodFrames
  <2>1. Fits(g) BY <1>1, <1>3 DEF Fits, Idle
  <2>2. QED BY <1>3, <2>1 DEF GoodFrames
<1>6. Survives(Len(calls), DOMAIN files) BY TopFacts, AllSurvive
<1>7. Goes(g) = Top.entry BY <1>3 DEF Goes
<1>8. stdout' = Goes(g).fd /\ capture' \in {None, Goes(g).to, stdout'}
  <2>1. CASE Top.out # None
    <3>1. stdout' = Top.oldOut /\ capture' = None
      BY <2>1 DEF EndSegment, Ended, OldOut
    <3>2. Top.oldOut = Top.entry.fd BY <1>1, <2>1 DEF Fits
    <3>3. QED BY <1>7, <3>1, <3>2
  <2>2. CASE Top.out = None
    <3>1. Goes(Top) = Top.entry BY <2>2 DEF Goes
    <3>2. stdout' = stdout /\ capture' \in {None, capture}
      BY <2>2 DEF EndSegment, Ended, OldOut
    <3>3. QED BY <1>1, <1>7, <3>1, <3>2 DEF IInv, Leads, Top
  <2>3. QED BY <2>1, <2>2
<1>9. Leads(WithTop(g), DOMAIN files, stdout', capture')
  BY <1>3, <1>5, <1>6, <1>8, TopLeads
<1>10. Streams' /\ prog' = prog
  <2>1. stdin' \in Input /\ stdin'.file # None
    BY <1>1, <1>2 DEF EndSegment, Ended, OldIn, Fits, IInv, Streams
  <2>2. QED BY <2>1 DEF EndSegment, Ended, IInv, Streams, Disk
<1>11. files' = files BY DEF EndSegment, Ended
<1>12. QED BY <1>4, <1>9, <1>10, <1>11 DEF Moves

\* What a call's output may go to is the console or a file that is there.
LEMMA TargetsExist ==
    ASSUME NEW s, StackOK(s), NEW fs, Present(s, fs)
    PROVE  /\ Goes(Last(s)).to \in fs \cup {Console}
           /\ Goes(Last(s)).fd \in fs \cup {Console}
<1> DEFINE n == Len(s)
<1>1. n \in Nat \ {0} /\ n \in 1..n /\ Last(s) = s[n]
  BY EmptySeq DEF StackOK, Last
<1>2. CASE s[n].out # None BY <1>1, <1>2 DEF Goes, Present
<1>3. CASE s[n].out = None
  <2>1. Goes(s[n]) = s[n].entry BY <1>3 DEF Goes
  <2>2. From(s, s[n].entry.to, n) /\ From(s, s[n].entry.fd, n)
    BY <1>1 DEF StackOK, Rooted
  <2>3. ASSUME NEW x, From(s, x, n) PROVE x \in fs \cup {Console}
    <3>1. \A j \in 1..n - 1 : j \in 1..n BY <1>1
    <3>2. QED BY <2>3, <3>1 DEF From, Present
  <2>4. QED BY <1>1, <2>1, <2>2, <2>3
<1>4. QED BY <1>2, <1>3

\* What is printed goes somewhere, and the files it could go to stay.
LEMMA SaysMoves ==
    ASSUME IOAssumption, IInv, At("run"), NEW text \in Seq(Values), Says(text),
           stdin' \in Input, stdin'.file # None
    PROVE  Moves
<1> DEFINE n == Len(calls)
           said(i) == IF i \in Owners THEN calls[i].said \o text ELSE calls[i].said
           stage(i) == IF i = n THEN "end" ELSE calls[i].stage
           g(i) == [calls[i] EXCEPT !.said = said(i), !.stage = stage(i)]
           t == [i \in DOMAIN calls |-> g(i)]
<1>1. /\ calls \in Seq(GoodFrames) /\ n \in Nat \ {0} /\ n \in 1..n
      /\ Top = calls[n] /\ Top.stage = "run"
      /\ stdout = Goes(Top).fd
  BY TopFacts DEF At
<1>2. calls' = t BY DEF Says
<1>3. ASSUME NEW i \in DOMAIN calls
      PROVE  /\ g(i) \in GoodFrames
             /\ g(i).captured = calls[i].captured /\ g(i).entry = calls[i].entry
             /\ g(i).out = calls[i].out /\ g(i).stage = stage(i)
  <2>1. calls[i] \in GoodFrames BY <1>1, ElementOfSeq
  <2>2. calls[i] \in Frame /\ Fits(calls[i]) BY <2>1 DEF GoodFrames
  <2>3. said(i) \in Seq(Values) BY <2>2, ConcatProperties DEF Frame
  <2>4. stage(i) \in {"part", "subst", "seg", "run", "call", "end", "next"}
    BY <2>2 DEF Frame
  <2>5. stage(i) = calls[i].stage \/ (calls[i].stage = "run" /\ stage(i) = "end")
    BY <1>1
  <2> HIDE DEF said, stage
  <2>6. /\ g(i) \in Frame /\ g(i).stage = stage(i)
        /\ g(i).line = calls[i].line /\ g(i).part = calls[i].part
        /\ g(i).seg = calls[i].seg /\ g(i).out = calls[i].out
        /\ g(i).err = calls[i].err /\ g(i).in = calls[i].in
        /\ g(i).captured = calls[i].captured /\ g(i).entry = calls[i].entry
        /\ g(i).oldOut = calls[i].oldOut /\ g(i).oldIn = calls[i].oldIn
    BY <2>2, <2>3, <2>4, ZenonT(60) DEF Frame
  <2> HIDE DEF g
  <2>7. Fits(g(i)) BY <2>2, <2>5, <2>6 DEF Fits, Idle
  <2>8. QED BY <2>6, <2>7 DEF GoodFrames
<1>4. \A i \in DOMAIN calls : t[i] = g(i) OBVIOUS
<1> HIDE DEF g
<1>5. t \in Seq(GoodFrames) /\ Len(t) = n
  <2>1. t \in [1..n -> GoodFrames]
    <3>1. DOMAIN calls = 1..n BY <1>1
    <3>2. \A i \in 1..n : g(i) \in GoodFrames BY <1>3, <3>1
    <3>3. t = [i \in 1..n |-> g(i)] BY <3>1
    <3> HIDE DEF t
    <3>4. QED BY <3>2, <3>3
  <2> HIDE DEF t
  <2>2. QED BY <1>1, <2>1
<1> HIDE DEF t
<1>6. Kept(t, n)
  <2>1. DOMAIN calls = 1..n /\ \A i \in 1..n - 1 : i \in 1..n /\ i # n
    BY <1>1
  <2>2. \A i \in 1..n : t[i].captured = calls[i].captured /\ t[i].entry = calls[i].entry
    BY <1>3, <1>4, <2>1
  <2>3. \A i \in 1..n - 1 : t[i].out = calls[i].out /\ t[i].stage = calls[i].stage
    BY <1>3, <1>4, <2>1
  <2>4. QED BY <1>5, <2>2, <2>3 DEF Kept
<1>7. t[n].out = Top.out /\ Goes(t[n]) = Goes(Top)
  <2>1. n \in DOMAIN calls BY <1>1
  <2>2. t[n].out = calls[n].out /\ t[n].entry = calls[n].entry
    BY <1>3, <1>4, <2>1
  <2>3. QED BY <1>1, <2>2 DEF Goes
<1>8. capture \in {None, Goes(Top).to, stdout} BY DEF IInv, Leads, Top
<1>9. Disk(files') /\ DOMAIN files' = DOMAIN files /\ screen' \in Seq(Values)
  <2>1. CASE Sink = Console
    <3>1. screen' = screen \o text /\ files' = files
      BY <2>1 DEF Says, Write
    <3>2. screen \in Seq(Values) /\ Disk(files) BY DEF IInv, Streams
    <3>3. screen \o text \in Seq(Values) BY <3>2, ConcatProperties
    <3>4. QED BY <3>1, <3>2, <3>3
  <2>2. CASE Sink # Console
    <3>1. Sink \in {Goes(Top).to, Goes(Top).fd} BY <1>1, <1>8 DEF Sink
    <3>2. Goes(Top).to \in DOMAIN files \cup {Console}
          /\ Goes(Top).fd \in DOMAIN files \cup {Console}
      BY TargetsExist DEF IInv, Leads, Top
    <3>3. Sink \in DOMAIN files BY <2>2, <3>1, <3>2
    <3>4. Disk(files) /\ Sink \in Files \cup Temps /\ files[Sink] \o text \in Seq(Values)
      <4>1. files[Sink] \in Seq(Values) BY <3>3 DEF IInv, Streams, Disk
      <4>2. QED BY <3>3, <4>1, ConcatProperties DEF IInv, Streams, Disk
    <3>5. files' = Put(Sink, files[Sink] \o text, files) /\ screen' = screen
      BY <2>2 DEF Says, Write
    <3>6. Disk(files') /\ DOMAIN files' = DOMAIN files \cup {Sink}
      BY <3>4, <3>5, PutFacts
    <3>7. QED BY <3>3, <3>5, <3>6 DEF IInv, Streams
  <2>3. QED BY <2>1, <2>2
<1>10. Leads(t, DOMAIN files', stdout, capture)
  <2>1. Survives(n, DOMAIN files) /\ (t[n].out # None => t[n].out \in DOMAIN files)
    <3>1. Survives(n, DOMAIN files) BY <1>1, AllSurvive
    <3>2. QED BY <1>1, <1>7, <3>1 DEF IInv, Leads, Present
  <2>2. stdout = Goes(t[n]).fd /\ capture \in {None, Goes(t[n]).to, stdout}
    BY <1>1, <1>7, <1>8
  <2>3. n \in 1..Len(calls) BY <1>1
  <2> DEFINE fs == DOMAIN files
  <2>4. Survives(n, fs) /\ (t[n].out # None => t[n].out \in fs) BY <2>1
  <2> HIDE DEF fs, n
  <2>5. Leads(t, fs, stdout, capture)
    BY <1>6, <2>2, <2>3, <2>4, KeepLeads
  <2>6. QED BY <1>9, <2>5 DEF fs
<1>11. Streams' /\ prog' = prog BY <1>9 DEF Says, IInv, Streams, Disk
<1>12. stdout' = stdout /\ capture' = capture BY DEF Says
<1>13. QED BY <1>2, <1>10, <1>11, <1>12 DEF Moves

LEMMA CommandMoves ==
    ASSUME IOAssumption, IInv, Say \/ Echo \/ Cat
    PROVE  Moves
<1>1. stdin \in Input /\ stdin.file # None BY DEF IInv, Streams
<1>2. CASE Say
  <2>1. TheSeg \in Segment BY <1>2, TopFacts DEF Say, At
  <2>2. TheSeg.cmd \in Cmd /\ TheSeg.cmd.k = "say"
    BY <1>2, <2>1 DEF Say, Segment
  <2>3. TheSeg.cmd.v \in Values BY <2>2 DEF Cmd
  <2>4. <<TheSeg.cmd.v>> \in Seq(Values) BY <2>3
  <2>5. At("run") /\ Says(<<TheSeg.cmd.v>>) /\ stdin' = stdin
    BY <1>2 DEF Say
  <2>6. QED BY <1>1, <2>4, <2>5, SaysMoves
<1>3. CASE Echo
  <2>1. Top.value \in Seq(Values) BY TopFacts DEF Frame
  <2>2. At("run") /\ Says(Top.value) /\ stdin' = stdin BY <1>3 DEF Echo
  <2>3. QED BY <1>1, <2>1, <2>2, SaysMoves
<1>4. CASE Cat
  <2>1. stdin.rest \in Seq(Values) BY <1>1 DEF Input
  <2>2. At("run") /\ Says(stdin.rest) BY <1>4 DEF Cat
  <2>3. stdin' \in Input /\ stdin'.file # None
    BY <1>1, <1>4, EmptySeq DEF Cat, Input
  <2>4. QED BY <2>1, <2>2, <2>3, SaysMoves
<1>5. QED BY <1>2, <1>3, <1>4

(***************************************************************************)
(* Theorems.                                                               *)
(***************************************************************************)
LEMMA InitInv == ASSUME IOAssumption, Init PROVE IInv
<1> DEFINE e == [to |-> Console, captured |-> FALSE, fd |-> Console]
           f == NewFrame(Main, e, FALSE)
<1>1. calls = <<f>> BY DEF Init
<1>2. /\ f \in Frame /\ f.out = None /\ f.err = None /\ f.in = None /\ f.seg = 1
      /\ f.stage = "part" /\ f.captured = FALSE /\ f.entry = e
  <2>1. NoInput \in Input BY EmptySeq DEF NoInput, Input
  <2>2. Main \in Lines /\ Console \in Places
    BY PlaceFacts DEF IOAssumption
  <2>3. QED BY <2>1, <2>2, EmptySeq DEF NewFrame, Frame
<1>3. e.to = Console /\ e.fd = Console /\ e.captured = FALSE OBVIOUS
<1> HIDE DEF f
<1>4. f \in GoodFrames
  <2>1. Fits(f) BY <1>2, <1>3 DEF Fits, Idle
  <2>2. QED BY <1>2, <2>1 DEF GoodFrames
<1>5. /\ calls \in Seq(GoodFrames) /\ calls # <<>> /\ Len(calls) = 1
      /\ calls[1] = f /\ Last(calls) = f
  BY <1>1, <1>4 DEF Last
<1>6. Goes(f) = e BY <1>2 DEF Goes
<1>7. Linked(calls) BY <1>2, <1>5 DEF Linked
<1>8. Rooted(calls) BY <1>2, <1>3, <1>5 DEF Rooted, From
<1>9. Present(calls, DOMAIN files) BY <1>2, <1>5 DEF Present
<1>10. stdout = Goes(Last(calls)).fd /\ capture \in {None, Goes(Last(calls)).to, stdout}
  BY <1>3, <1>5, <1>6 DEF Init
<1>11. Leads(calls, DOMAIN files, stdout, capture)
  BY <1>5, <1>7, <1>8, <1>9, <1>10 DEF Leads, StackOK
<1>12. Streams
  <2>1. stdin \in Input /\ stdin.file # None
    BY PlaceFacts, EmptySeq DEF Init, Input
  <2>2. Disk(files) BY DEF Init, IOAssumption, Disk
  <2>3. screen \in Seq(Values) /\ mixed \subseteq {"capture", "pipe"} /\ prog \in Programs
    BY EmptySeq DEF Init
  <2>4. QED BY <2>1, <2>2, <2>3 DEF Streams
<1>13. QED BY <1>11, <1>12 DEF IInv

\* Every step keeps it.
LEMMA StepInv == ASSUME IOAssumption, IInv, [Next]_vars PROVE IInv'
<1>1. Moves
  <2>1. CASE UNCHANGED vars BY <2>1 DEF vars, Moves, IInv, Streams, Disk
  <2>2. CASE Next
    <3>1. CASE Done BY <2>1, <3>1 DEF Done
    <3>2. CASE ~Done
      BY <2>2, <3>2, SubstituteMoves, NoSubstitutionMoves, CaptureEndsMoves,
         StartSegmentMoves, SegmentFailsMoves, EndSegmentMoves, NextSegmentMoves,
         PartEndsMoves, CommandMoves, CallFunctionMoves, FunctionEndsMoves,
         Zenon DEF Next
    <3>3. QED BY <3>1, <3>2
  <2>3. QED BY <2>1, <2>2
<1>2. prog' = prog /\ Streams' /\ Leads(calls', DOMAIN files', stdout', capture')
  BY <1>1 DEF Moves
<1>3. GoodFrames' = GoodFrames BY <1>2 DEF GoodFrames, Fits
<1>4. Leads(calls, DOMAIN files, stdout, capture)'
  BY <1>2, <1>3 DEF Leads, StackOK
<1>5. QED BY <1>2, <1>4 DEF IInv

\* Type correctness, for every program: descriptors 0 and 1 always lead
\* somewhere, only known files exist, and a part at work is one of its line.
THEOREM TypeCorrect == Spec => []TypeOK
<1>1. Init => IInv BY InitInv, IOAssumption
<1>2. IInv /\ [Next]_vars => IInv' BY StepInv, IOAssumption
<1>3. IInv => TypeOK
  <2>1. ASSUME IInv PROVE TypeOK
    <3>1. /\ calls \in Seq(GoodFrames) /\ calls # <<>> /\ stdout \in Places
          /\ Goes(Top) \in [to : Places, captured : BOOLEAN, fd : Places]
      BY <2>1, TopFacts, IOAssumption
    <3>2. calls \in Seq(Frame)
      <4>1. GoodFrames \subseteq Frame BY DEF GoodFrames
      <4>2. QED BY <3>1, <4>1
    <3>3. capture \in Places \cup {None}
      BY <2>1, <3>1 DEF IInv, Leads, Top
    <3>4. ASSUME NEW i \in DOMAIN calls, calls[i].stage # "part"
          PROVE  /\ calls[i].part \in DOMAIN prog[calls[i].line]
                 /\ calls[i].seg \in DOMAIN prog[calls[i].line][calls[i].part].segs
      <4>1. calls[i] \in GoodFrames BY <3>1, ElementOfSeq
      <4>2. QED BY <3>4, <4>1 DEF GoodFrames, Fits
    <3>5. QED BY <2>1, <3>1, <3>2, <3>3, <3>4 DEF TypeOK, IInv, Streams, Disk
  <2>2. QED BY <2>1
<1>4. QED BY <1>1, <1>2, <1>3, PTL DEF Spec

\* For every program, every nesting of pipelines, functions and $( ... ) and
\* whatever cannot be opened: what is printed under a redirection, but for
\* one directly inside a $( ... ), goes to the innermost one in force.
THEOREM SinkIsInnermost == Spec => []SinkFollowsRedirects
<1>1. Init => IInv BY InitInv, IOAssumption
<1>2. IInv /\ [Next]_vars => IInv' BY StepInv, IOAssumption
<1>3. IInv => SinkFollowsRedirects
  <2>1. ASSUME IInv, ~Goes(Top).captured PROVE Sink = Goes(Top).to
    <3>1. Goes(Top).to = Goes(Top).fd
      BY <2>1, TopFacts, IOAssumption DEF Fits, Goes
    <3>2. stdout = Goes(Top).fd /\ capture \in {None, Goes(Top).to, stdout}
      BY <2>1 DEF IInv, Leads, Top
    <3>3. QED BY <3>1, <3>2 DEF Sink
  <2>2. QED BY <2>1 DEF SinkFollowsRedirects
<1>4. QED BY <1>1, <1>2, <1>3, PTL DEF Spec

(***************************************************************************)
(* What the files hold.                                                    *)
(***************************************************************************)
Segs(f) == prog[f.line][f.part].segs

\* A call that is in the middle of a pipeline.
Piping(f) == f.stage # "part" /\ Len(Segs(f)) > 1

\* What a call has open: the temporary files are those of its pipeline.
Uses(f) ==
    /\ f.err \in Files \cup {None} /\ f.in \in Files \cup PipeFiles \cup {None}
    /\ f.out \in PipeFiles \/ f.in \in PipeFiles => Piping(f)
    /\ f.stage \in {"run", "call", "end"} /\ f.seg < Len(Segs(f)) => f.out = PipeOut(f.seg)
    /\ f.out # None => f.out # f.err
    /\ f.stage = "subst" => f.seg = 1

\* Nobody else writes to the file of a redirection.
Exclusive(s) ==
    \A i, j \in 1..Len(s) : i # j /\ s[i].out # None => s[i].out \notin {s[j].out, s[j].err}

\* Nothing is redirected directly in a $( ... ), and none is in another.
Uncaptured(s) ==
    /\ \A i \in 1..Len(s) : s[i].out # None \/ s[i].err # None => ~s[i].entry.captured
    /\ \A i \in 1..Len(s) - 1 : s[i + 1].captured => ~Goes(s[i]).captured

CaptureOn(s, cap) == Goes(Last(s)).captured => cap = Goes(Last(s)).to

\* The redirection's file of one call.
HoldsOne(f, fs) ==
    f.out # None =>
       /\ IsSuffix(f.said, fs[f.out])
       /\ (f.seg < Len(Segs(f)) \/ ~Segs(f)[f.seg].append) => fs[f.out] = f.said

Holds(s, fs) == \A i \in 1..Len(s) : HoldsOne(s[i], fs)

\* A temporary file is there for a pipeline or a $( ... ) on the stack.
TempsOwned(s, fs) ==
    /\ \A x \in fs \cap PipeFiles : x \notin Unopenable /\ \E i \in 1..Len(s) : Piping(s[i])
    /\ \A j \in DOMAIN CaptureFiles :
          CaptureFiles[j] \in fs => j < Len(s) /\ s[j + 1].captured

\* Between two commands of a pipeline.
HandedOn(f, fs, inp) ==
    /\ f.stage = "next" /\ f.seg < Len(Segs(f)) /\ PipeOut(f.seg) \in DOMAIN fs =>
          fs[PipeOut(f.seg)] = f.piped
    /\ f.stage = "seg" /\ f.seg > 1 /\ PipeOut(f.seg - 1) \in DOMAIN fs =>
          fs[PipeOut(f.seg - 1)] = f.piped
    /\ f.stage = "run" /\ f.seg > 1 => inp.rest = f.piped

AllUse(s) == \A i \in 1..Len(s) : Uses(s[i])

Held(s, fs, cap, mx, inp) ==
    /\ AllUse(s) /\ Exclusive(s) /\ TempsOwned(s, DOMAIN fs)
    /\ "capture" \notin mx => Uncaptured(s) /\ CaptureOn(s, cap) /\ Holds(s, fs)
    /\ mx = {} => HandedOn(Last(s), fs, inp)

HInv == Held(calls, files, capture, mixed, stdin)

(***************************************************************************)
(* The stack after a step.                                                 *)
(***************************************************************************)
\* The first m calls are as they were.
Below(t, m) == \A i \in 1..m : t[i] = calls[i]

LEMMA OnTop ==
    ASSUME IOAssumption, IInv, NEW g \in Frame
    PROVE  /\ Len(WithTop(g)) = Len(calls) /\ WithTop(g)[Len(calls)] = g
           /\ Last(WithTop(g)) = g /\ Below(WithTop(g), Len(calls) - 1)
           /\ WithTop(g) \in Seq(Frame)
<1>1. calls \in Seq(Frame) /\ calls # <<>>
  <2>1. calls \in Seq(GoodFrames) /\ calls # <<>> /\ GoodFrames \subseteq Frame
    BY TopFacts DEF GoodFrames
  <2> QED BY <2>1
<1> QED BY <1>1, SetLastFacts DEF WithTop, Below

LEMMA Pushed ==
    ASSUME IOAssumption, IInv, NEW g \in Frame, NEW h \in Frame
    PROVE  /\ Len(Append(WithTop(g), h)) = Len(calls) + 1
           /\ Append(WithTop(g), h)[Len(calls)] = g
           /\ Append(WithTop(g), h)[Len(calls) + 1] = h
           /\ Last(Append(WithTop(g), h)) = h
           /\ Below(Append(WithTop(g), h), Len(calls) - 1)
<1> DEFINE s == WithTop(g)
           t == Append(s, h)
<1>1. /\ Len(s) = Len(calls) /\ s[Len(calls)] = g /\ Below(s, Len(calls) - 1)
      /\ s \in Seq(Frame) /\ Len(calls) \in Nat \ {0}
  BY OnTop, TopFacts
<1> HIDE DEF s
<1>2. /\ Len(t) = Len(s) + 1 /\ \A i \in 1..Len(s) : t[i] = s[i]
      /\ t[Len(s) + 1] = h
  BY <1>1, AppendFacts
<1> HIDE DEF t
<1>3. Below(t, Len(calls) - 1)
  <2>1. \A i \in 1..Len(calls) - 1 : i \in 1..Len(s) BY <1>1
  <2> QED BY <1>1, <1>2, <2>1 DEF Below
<1>4. Len(calls) \in 1..Len(s) BY <1>1
<1> QED BY <1>1, <1>2, <1>3, <1>4 DEF t, s, Last

LEMMA Popped ==
    ASSUME IOAssumption, IInv, Len(calls) > 1, NEW g \in Frame
    PROVE  /\ Len(Returned(g)) = Len(calls) - 1
           /\ Returned(g)[Len(calls) - 1] = g
           /\ Last(Returned(g)) = g
           /\ Below(Returned(g), Len(calls) - 2)
<1> DEFINE s == Front(calls)
           t == [s EXCEPT ![Len(s)] = g]
<1>1. calls \in Seq(Frame) /\ calls # <<>>
  <2>1. calls \in Seq(GoodFrames) /\ calls # <<>> /\ GoodFrames \subseteq Frame
    BY TopFacts DEF GoodFrames
  <2> QED BY <2>1
<1>2. /\ s \in Seq(Frame) /\ Len(s) = Len(calls) - 1 /\ Len(calls) \in Nat \ {0}
      /\ \A i \in 1..Len(calls) - 1 : s[i] = calls[i]
  BY <1>1, LastFrontFacts
<1>3. Returned(g) = t BY <1>2 DEF Returned
<1> HIDE DEF s
<1>4. s # <<>> BY <1>2, EmptySeq
<1>5. /\ Len(t) = Len(s) /\ Last(t) = g /\ t[Len(s)] = g
      /\ \A i \in 1..Len(s) - 1 : t[i] = s[i]
  BY <1>2, <1>4, SetLastFacts
<1> HIDE DEF t
<1>6. Below(t, Len(calls) - 2)
  <2>1. \A i \in 1..Len(calls) - 2 : i \in 1..Len(s) - 1 /\ i \in 1..Len(calls) - 1
    BY <1>2
  <2> QED BY <1>2, <1>5, <2>1 DEF Below
<1> QED BY <1>2, <1>3, <1>5, <1>6

(***************************************************************************)
(* What a step that opens nothing keeps.                                   *)
(***************************************************************************)
\* Call i of t has nothing open, or what it had, and it holds the same.
CalmAt(t, i, fs) ==
    \/ t[i].out = None /\ t[i].err = None
    \/ /\ i \in 1..Len(calls)
       /\ t[i].out = calls[i].out /\ t[i].err = calls[i].err
       /\ t[i].entry = calls[i].entry /\ t[i].said = calls[i].said
       /\ t[i].line = calls[i].line /\ t[i].part = calls[i].part /\ t[i].seg = calls[i].seg
       /\ t[i].out # None => fs[t[i].out] = files[t[i].out]

Calm(t, fs) == \A i \in 1..Len(t) : CalmAt(t, i, fs)

LEMMA CalmExclusive ==
    ASSUME NEW t, NEW fs, Calm(t, fs), Exclusive(calls)
    PROVE  Exclusive(t)
<1> SUFFICES ASSUME NEW i \in 1..Len(t), NEW j \in 1..Len(t), i # j, t[i].out # None
             PROVE  t[i].out \notin {t[j].out, t[j].err}
  BY DEF Exclusive
<1>1. CalmAt(t, i, fs) /\ CalmAt(t, j, fs) BY DEF Calm
<1>2. i \in 1..Len(calls) /\ t[i].out = calls[i].out BY <1>1 DEF CalmAt
<1>3. CASE t[j].out = None /\ t[j].err = None BY <1>3
<1>4. CASE j \in 1..Len(calls) /\ t[j].out = calls[j].out /\ t[j].err = calls[j].err
  BY <1>2, <1>4 DEF Exclusive
<1> QED BY <1>1, <1>3, <1>4 DEF CalmAt

LEMMA CalmHolds ==
    ASSUME NEW t, NEW fs, Calm(t, fs), Holds(calls, files)
    PROVE  Holds(t, fs)
<1> SUFFICES ASSUME NEW i \in 1..Len(t), t[i].out # None PROVE HoldsOne(t[i], fs)
  BY DEF Holds, HoldsOne
<1>1. CalmAt(t, i, fs) BY DEF Calm
<1>2. /\ i \in 1..Len(calls)
      /\ t[i].out = calls[i].out /\ t[i].said = calls[i].said
      /\ t[i].line = calls[i].line /\ t[i].part = calls[i].part /\ t[i].seg = calls[i].seg
      /\ fs[t[i].out] = files[t[i].out]
  BY <1>1 DEF CalmAt
<1>3. HoldsOne(calls[i], files) BY <1>2 DEF Holds
<1>4. Segs(t[i]) = Segs(calls[i]) BY <1>2 DEF Segs
<1> QED BY <1>2, <1>3, <1>4 DEF HoldsOne

\* No call is captured that was not.
LEMMA CalmUncaptured ==
    ASSUME NEW t, NEW fs, Calm(t, fs), Uncaptured(calls),
           \A i \in 1..Len(t) - 1 : t[i + 1].captured => ~Goes(t[i]).captured
    PROVE  Uncaptured(t)
<1> SUFFICES ASSUME NEW i \in 1..Len(t), t[i].out # None \/ t[i].err # None
             PROVE  ~t[i].entry.captured
  BY DEF Uncaptured
<1>1. CalmAt(t, i, fs) BY DEF Calm
<1>2. /\ i \in 1..Len(calls)
      /\ t[i].out = calls[i].out /\ t[i].err = calls[i].err /\ t[i].entry = calls[i].entry
  BY <1>1 DEF CalmAt
<1> QED BY <1>2 DEF Uncaptured

\* Every sequence ends in the empty one, and what ends in another still does
\* when the same is added to both.
LEMMA ReverseFacts ==
    ASSUME NEW S, NEW s \in Seq(S)
    PROVE  /\ Reverse(s) \in Seq(S) /\ Len(Reverse(s)) = Len(s)
           /\ \A i \in 1..Len(s) : Reverse(s)[i] = s[(Len(s) - i) + 1]
<1>1. Len(s) \in Nat /\ \A i \in 1..Len(s) : s[i] \in S OBVIOUS
<1>2. \A i \in 1..Len(s) : (Len(s) - i) + 1 \in 1..Len(s) BY <1>1
<1> DEFINE r == Reverse(s)
<1>3. r = [i \in 1..Len(s) |-> s[(Len(s) - i) + 1]] BY DEF Reverse
<1> HIDE DEF r
<1>4. /\ r = [i \in 1..Len(s) |-> r[i]]
      /\ \A i \in 1..Len(s) : r[i] = s[(Len(s) - i) + 1]
  BY <1>3
<1>5. \A i \in 1..Len(s) : r[i] \in S BY <1>1, <1>2, <1>4
<1>6. r \in Seq(S) /\ Len(r) = Len(s) BY <1>1, <1>4, <1>5, SeqOfFunction
<1> QED BY <1>4, <1>6 DEF r

\* The last values of t are those of s.
Ends(s, t) ==
    /\ Len(s) =< Len(t)
    /\ \A i \in 1..Len(s) : s[(Len(s) - i) + 1] = t[(Len(t) - i) + 1]

LEMMA SuffixIs ==
    ASSUME NEW S, NEW s \in Seq(S), NEW t \in Seq(S)
    PROVE  IsSuffix(s, t) <=> Ends(s, t)
<1> DEFINE a == Reverse(s)
           b == Reverse(t)
           n == Len(s)
<1>1. /\ a \in Seq(S) /\ Len(a) = n /\ \A i \in 1..n : a[i] = s[(n - i) + 1]
      /\ b \in Seq(S) /\ Len(b) = Len(t) /\ \A i \in 1..Len(t) : b[i] = t[(Len(t) - i) + 1]
      /\ n \in Nat /\ Len(t) \in Nat
  BY ReverseFacts
<1>2. IsSuffix(s, t) <=> (Len(a) =< Len(b) /\ SubSeq(a, 1, Len(a)) = SubSeq(b, 1, Len(a)))
  BY DEF IsSuffix, IsPrefix
<1> HIDE DEF a, b
<1>3. CASE ~(n =< Len(t)) BY <1>1, <1>2, <1>3 DEF Ends
<1>4. CASE n =< Len(t)
  <2> DEFINE c == SubSeq(a, 1, n)
             d == SubSeq(b, 1, n)
  <2>1. /\ c \in Seq(S) /\ Len(c) = n /\ \A i \in 1..n : c[i] = a[i]
        /\ d \in Seq(S) /\ Len(d) = n /\ \A i \in 1..n : d[i] = b[i]
    BY <1>1, <1>4
  <2> HIDE DEF c, d
  <2>2. c = d <=> \A i \in 1..n : c[i] = d[i]
    <3>1. c = [i \in 1..n |-> c[i]] /\ d = [i \in 1..n |-> d[i]]
      BY <1>1, <2>1
    <3> QED BY <3>1
  <2>3. \A i \in 1..n : i \in 1..Len(t) BY <1>1, <1>4
  <2>4. ASSUME NEW i \in 1..n
        PROVE  c[i] = s[(n - i) + 1] /\ d[i] = t[(Len(t) - i) + 1]
    BY <1>1, <2>1, <2>3
  <2>5. IsSuffix(s, t) <=> c = d BY <1>1, <1>2, <1>4 DEF c, d
  <2> QED BY <1>4, <2>2, <2>4, <2>5 DEF Ends
<1> QED BY <1>3, <1>4

LEMMA SuffixEmpty ==
    ASSUME NEW S, NEW t \in Seq(S)
    PROVE  IsSuffix(<<>>, t)
<1>1. <<>> \in Seq(S) /\ Len(<<>>) = 0 /\ Len(t) \in Nat OBVIOUS
<1>2. Ends(<<>>, t) BY <1>1 DEF Ends
<1> QED BY <1>1, <1>2, SuffixIs

LEMMA SuffixGrows ==
    ASSUME NEW S, NEW s \in Seq(S), NEW t \in Seq(S), NEW u \in Seq(S), IsSuffix(s, t)
    PROVE  IsSuffix(s \o u, t \o u)
<1> DEFINE a == s \o u
           b == t \o u
<1>1. Ends(s, t) BY SuffixIs
<1>2. /\ a \in Seq(S) /\ b \in Seq(S)
      /\ Len(a) = Len(s) + Len(u) /\ Len(b) = Len(t) + Len(u)
      /\ Len(s) \in Nat /\ Len(t) \in Nat /\ Len(u) \in Nat
      /\ \A i \in 1..Len(s) : a[i] = s[i]
      /\ \A i \in 1..Len(t) : b[i] = t[i]
      /\ \A i \in Len(s) + 1..Len(s) + Len(u) : a[i] = u[i - Len(s)]
      /\ \A i \in Len(t) + 1..Len(t) + Len(u) : b[i] = u[i - Len(t)]
  BY ConcatProperties
<1> HIDE DEF a, b
<1>3. Len(a) =< Len(b) BY <1>1, <1>2 DEF Ends
<1>4. ASSUME NEW i \in 1..Len(a)
      PROVE  a[(Len(a) - i) + 1] = b[(Len(b) - i) + 1]
  <2>1. PICK x \in Nat, y \in Nat, z \in Nat : x = Len(s) /\ y = Len(t) /\ z = Len(u)
    BY <1>2
  <2>2. i \in Nat /\ i >= 1 /\ i =< x + z /\ x =< y
    BY <1>1, <1>2, <2>1 DEF Ends
  <2>3. CASE i =< z
    <3>1. /\ ((x + z) - i) + 1 \in x + 1..x + z
          /\ ((y + z) - i) + 1 \in y + 1..y + z
          /\ (((x + z) - i) + 1) - x = (((y + z) - i) + 1) - y
      BY <2>2, <2>3
    <3>2. /\ a[((x + z) - i) + 1] = u[(((x + z) - i) + 1) - x]
          /\ b[((y + z) - i) + 1] = u[(((y + z) - i) + 1) - y]
      BY <1>2, <2>1, <3>1
    <3> QED BY <1>2, <2>1, <3>1, <3>2
  <2>4. CASE i > z
    <3> DEFINE j == i - z
    <3>1. /\ j \in 1..x
          /\ ((x + z) - i) + 1 = (x - j) + 1 /\ (x - j) + 1 \in 1..x
          /\ ((y + z) - i) + 1 = (y - j) + 1 /\ (y - j) + 1 \in 1..y
      BY <2>2, <2>4
    <3> HIDE DEF j
    <3>2. s[(x - j) + 1] = t[(y - j) + 1] BY <1>1, <2>1, <3>1 DEF Ends
    <3>3. a[(x - j) + 1] = s[(x - j) + 1] /\ b[(y - j) + 1] = t[(y - j) + 1]
      BY <1>2, <2>1, <3>1
    <3> QED BY <1>2, <2>1, <3>1, <3>2, <3>3
  <2> QED BY <2>2, <2>3, <2>4
<1>5. Ends(a, b) BY <1>3, <1>4 DEF Ends
<1>6. IsSuffix(a, b) BY <1>2, <1>5, SuffixIs
<1> QED BY <1>6 DEF a, b

(***************************************************************************)
(* What holds of a stack whose top call changed.                           *)
(***************************************************************************)
\* The files of the first m calls are as they were.
FilesKept(m, fs) ==
    \A i \in 1..m : calls[i].out # None => fs[calls[i].out] = files[calls[i].out]

\* What g has open is what f had, and it holds the same, or it has nothing.
Same(f, g, fs) ==
    \/ g.out = None /\ g.err = None
    \/ /\ g.out = f.out /\ g.err = f.err /\ g.entry = f.entry /\ g.said = f.said
       /\ g.line = f.line /\ g.part = f.part /\ g.seg = f.seg
       /\ g.out # None => fs[g.out] = files[g.out]

CaptureTop(g, cap) == Goes(g).captured => cap = Goes(g).to

LEMMA CalmTop ==
    ASSUME NEW t, NEW m \in Nat, Len(t) = m + 1, m + 1 =< Len(calls), Len(calls) \in Nat,
           Below(t, m), NEW fs, FilesKept(m, fs), Same(calls[m + 1], t[m + 1], fs)
    PROVE  Calm(t, fs)
<1> SUFFICES ASSUME NEW i \in 1..m + 1 PROVE CalmAt(t, i, fs)
  BY DEF Calm
<1>1. i \in 1..Len(calls) OBVIOUS
<1>2. CASE i = m + 1 BY <1>1, <1>2 DEF CalmAt, Same
<1>3. CASE i # m + 1
  <2>1. i \in 1..m BY <1>3
  <2>2. t[i] = calls[i] BY <2>1 DEF Below
  <2>3. t[i].out # None => fs[t[i].out] = files[t[i].out]
    BY <2>1, <2>2 DEF FilesKept
  <2> QED BY <1>1, <2>2, <2>3 DEF CalmAt
<1> QED BY <1>2, <1>3

\* t has the first m calls, and g on them, which was there or is new and idle.
LEMMA HeldOn ==
    ASSUME HInv, NEW t, NEW m \in Nat, Len(t) = m + 1, Below(t, m), NEW g, t[m + 1] = g, Last(t) = g,
           m =< Len(calls), Len(calls) \in Nat,
           NEW fs, Calm(t, fs), TempsOwned(t, DOMAIN fs), Uses(g),
           NEW mx, mixed \subseteq mx, NEW cap, NEW inp,
           "capture" \notin mx => CaptureTop(g, cap) /\
              (m > 0 /\ g.captured => ~Goes(calls[m]).captured),
           mx = {} => HandedOn(g, fs, inp)
    PROVE  Held(t, fs, cap, mx, inp)
<1>0. /\ AllUse(calls) /\ Exclusive(calls)
      /\ "capture" \notin mixed => Uncaptured(calls) /\ CaptureOn(calls, capture) /\ Holds(calls, files)
  BY DEF HInv, Held
<1>1. AllUse(t)
  <2>1. ASSUME NEW i \in 1..m + 1 PROVE Uses(t[i])
    <3>1. CASE i = m + 1 BY <3>1
    <3>2. CASE i # m + 1
      <4>1. i \in 1..m /\ i \in 1..Len(calls) BY <3>2
      <4> QED BY <1>0, <4>1 DEF AllUse, Below
    <3> QED BY <3>1, <3>2
  <2> QED BY <2>1 DEF AllUse
<1>2. Exclusive(t) BY <1>0, CalmExclusive
<1>3. ASSUME "capture" \notin mx
      PROVE  Uncaptured(t) /\ CaptureOn(t, cap) /\ Holds(t, fs)
  <2>1. Uncaptured(calls) /\ Holds(calls, files) BY <1>0, <1>3
  <2>2. Holds(t, fs) BY <2>1, CalmHolds
  <2>3. CaptureOn(t, cap) BY <1>3 DEF CaptureOn, CaptureTop
  <2>4. ASSUME NEW i \in 1..m, t[i + 1].captured PROVE ~Goes(t[i]).captured
    <3>1. t[i] = calls[i] BY DEF Below
    <3>2. CASE i = m BY <1>3, <2>4, <3>1, <3>2
    <3>3. CASE i # m
      <4>1. i + 1 \in 1..m /\ i \in 1..Len(calls) - 1 BY <3>3
      <4>2. t[i + 1] = calls[i + 1] BY <4>1 DEF Below
      <4> QED BY <2>1, <2>4, <3>1, <4>1, <4>2 DEF Uncaptured
    <3> QED BY <3>2, <3>3
  <2>5. 1..Len(t) - 1 = 1..m OBVIOUS
  <2>6. \A i \in 1..Len(t) - 1 : t[i + 1].captured => ~Goes(t[i]).captured
    BY <2>4, <2>5
  <2>7. Uncaptured(t) BY <2>1, <2>6, CalmUncaptured
  <2> QED BY <2>2, <2>3, <2>7
<1> QED BY <1>1, <1>2, <1>3 DEF Held

(***************************************************************************)
(* Steps that change only where the top call stands.                       *)
(***************************************************************************)
LEMMA HeldTop ==
    ASSUME IOAssumption, IInv, HInv, NEW g \in Frame, g.captured = Top.captured, Uses(g),
           NEW fs, FilesKept(Len(calls) - 1, fs), Same(Top, g, fs),
           TempsOwned(WithTop(g), DOMAIN fs),
           NEW mx, mixed \subseteq mx, NEW cap, NEW inp,
           "capture" \notin mx => CaptureTop(g, cap),
           mx = {} => HandedOn(g, fs, inp)
    PROVE  Held(WithTop(g), fs, cap, mx, inp)
<1> DEFINE t == WithTop(g)
<1>1. Len(calls) \in Nat \ {0} /\ Top = calls[Len(calls)] BY TopFacts
<1>2. PICK m \in Nat : Len(calls) = m + 1 /\ m = Len(calls) - 1 BY <1>1
<1>3. /\ Len(t) = m + 1 /\ t[m + 1] = g /\ Last(t) = g /\ Below(t, m)
      /\ FilesKept(m, fs) /\ Same(calls[m + 1], g, fs) /\ TempsOwned(t, DOMAIN fs)
  BY <1>1, <1>2, OnTop
<1> HIDE DEF t
<1>4. m + 1 =< Len(calls) /\ m =< Len(calls) /\ Len(calls) \in Nat
  BY <1>2
<1>5. Calm(t, fs) BY <1>3, <1>4, CalmTop
<1>6. "capture" \notin mx => CaptureTop(g, cap) /\
              (m > 0 /\ g.captured => ~Goes(calls[m]).captured)
  <2>1. ASSUME "capture" \notin mx, m > 0, g.captured PROVE ~Goes(calls[m]).captured
    <3>1. Uncaptured(calls) BY <2>1 DEF HInv, Held
    <3>2. m \in 1..Len(calls) - 1 /\ calls[m + 1].captured
      BY <1>1, <1>2, <2>1
    <3> QED BY <3>1, <3>2 DEF Uncaptured
  <2> QED BY <2>1
<1>7. Held(t, fs, cap, mx, inp) BY <1>3, <1>4, <1>5, <1>6, HeldOn
<1> QED BY <1>7 DEF t

\* A file that comes to be is a redirection's or, if it can be written, that
\* of the pipeline the top call is in.
MayAppear(g, fs) ==
    \A x \in fs \ DOMAIN files : x \in Files \/ (x \in PipeFiles \ Unopenable /\ Piping(g))

LEMMA OwnedTop ==
    ASSUME IOAssumption, IInv, HInv, NEW g \in Frame, g.captured = Top.captured,
           Piping(Top) => Piping(g), NEW fs, MayAppear(g, fs)
    PROVE  TempsOwned(WithTop(g), fs)
<1> DEFINE t == WithTop(g)
           n == Len(calls)
<1>1. n \in Nat \ {0} /\ Top = calls[n] /\ n \in 1..n BY TopFacts
<1>2. Len(t) = n /\ t[n] = g /\ \A i \in 1..n - 1 : t[i] = calls[i]
  BY OnTop DEF Below
<1>3. TempsOwned(calls, DOMAIN files) BY DEF HInv, Held
<1> HIDE DEF t
<1>4. \A i \in 1..n : Piping(calls[i]) => i \in 1..Len(t) /\ Piping(t[i])
  <2>1. ASSUME NEW i \in 1..n, Piping(calls[i]) PROVE i \in 1..Len(t) /\ Piping(t[i])
    <3>1. i = n \/ i \in 1..n - 1 BY <1>1
    <3> QED BY <1>1, <1>2, <2>1, <3>1
  <2> QED BY <2>1
<1>5. \A j \in 1..n - 1 : t[j + 1].captured = calls[j + 1].captured
  <2>1. ASSUME NEW j \in 1..n - 1 PROVE t[j + 1].captured = calls[j + 1].captured
    <3>1. j + 1 = n \/ j + 1 \in 1..n - 1 BY <1>1
    <3> QED BY <1>1, <1>2, <3>1
  <2> QED BY <2>1
<1>6. \A j \in DOMAIN CaptureFiles : j \in Nat /\ j >= 1 /\ CaptureFiles[j] \notin Files \cup PipeFiles
  BY PlaceFacts
<1>7. ASSUME NEW j \in DOMAIN CaptureFiles, CaptureFiles[j] \in fs
      PROVE  j < Len(t) /\ t[j + 1].captured
  <2>1. CaptureFiles[j] \in DOMAIN files BY <1>6, <1>7 DEF MayAppear
  <2>2. j < n /\ calls[j + 1].captured BY <1>3, <2>1 DEF TempsOwned
  <2>3. j \in 1..n - 1 BY <1>1, <1>6, <2>2
  <2> QED BY <1>2, <1>5, <2>2, <2>3
<1>8. ASSUME NEW x \in fs \cap PipeFiles
      PROVE  x \notin Unopenable /\ \E i \in 1..Len(t) : Piping(t[i])
  <2>1. CASE x \in DOMAIN files
    <3>1. x \notin Unopenable /\ \E i \in 1..n : Piping(calls[i])
      BY <1>3, <2>1 DEF TempsOwned
    <3> QED BY <1>4, <3>1
  <2>2. CASE x \notin DOMAIN files
    <3>1. x \notin Files BY PlaceFacts DEF IOAssumption
    <3>2. x \notin Unopenable /\ Piping(t[n])
      BY <1>2, <2>2, <3>1 DEF MayAppear
    <3> QED BY <1>1, <1>2, <3>2
  <2> QED BY <2>1, <2>2
<1>9. TempsOwned(t, fs) BY <1>7, <1>8 DEF TempsOwned
<1> QED BY <1>9 DEF t

LEMMA AllKept == \A m : FilesKept(m, files)
BY DEF FilesKept

\* The top call is one that has what Uses says.
LEMMA TopUses ==
    ASSUME IOAssumption, IInv, HInv
    PROVE  Uses(Top) /\ Len(calls) - 1 \in Nat
<1>1. Len(calls) \in Nat \ {0} /\ Top = calls[Len(calls)] /\ Len(calls) \in 1..Len(calls)
  BY TopFacts
<1> QED BY <1>1 DEF HInv, Held, AllUse

LEMMA IdleUses ==
    ASSUME NEW g, g.stage \in {"part", "seg", "next"}, g.out = None, g.err = None, g.in = None,
           IOAssumption
    PROVE  Uses(g)
<1>1. None \notin PipeFiles BY PlaceFacts
<1> QED BY <1>1 DEF Uses

LEMMA NoSubstitutionHeld ==
    ASSUME IOAssumption, IInv, HInv, NoSubstitution
    PROVE  Held(calls', files', capture', mixed', stdin')
<1> DEFINE g == [Top EXCEPT !.stage = "seg"]
<1>1. Top \in Frame /\ Fits(Top) /\ Top.stage = "part" /\ Top.seg = 1
  BY TopFacts DEF NoSubstitution, At
<1>2. /\ g \in Frame /\ g.stage = "seg" /\ g.seg = 1 /\ g.entry = Top.entry
      /\ g.out = Top.out /\ g.err = Top.err /\ g.in = Top.in /\ g.captured = Top.captured
  BY <1>1 DEF Frame
<1> HIDE DEF g
<1>3. g.out = None /\ g.err = None /\ g.in = None /\ Goes(g) = Goes(Top)
  BY <1>1, <1>2 DEF Fits, Idle, Goes
<1>4. Uses(g) BY <1>2, <1>3, IdleUses
<1>5. FilesKept(Len(calls) - 1, files) /\ Same(Top, g, files)
  BY <1>3, AllKept DEF Same
<1>6. TempsOwned(WithTop(g), DOMAIN files)
  <2>1. Piping(Top) => Piping(g) BY <1>1 DEF Piping
  <2>2. MayAppear(g, DOMAIN files) BY DEF MayAppear
  <2> QED BY <1>2, <2>1, <2>2, OwnedTop
<1>7. "capture" \notin mixed => CaptureTop(g, capture)
  BY <1>3 DEF HInv, Held, CaptureOn, CaptureTop, Top
<1>8. HandedOn(g, files, stdin) BY <1>2 DEF HandedOn
<1>9. Held(WithTop(g), files, capture, mixed, stdin)
  BY <1>2, <1>4, <1>5, <1>6, <1>7, <1>8, HeldTop
<1> QED BY <1>9 DEF NoSubstitution, g

LEMMA NextSegmentHeld ==
    ASSUME IOAssumption, IInv, HInv, NextSegment
    PROVE  Held(calls', files', capture', mixed', stdin')
<1> DEFINE g == [Top EXCEPT !.stage = "seg", !.seg = Top.seg + 1]
<1>1. /\ Top \in Frame /\ Fits(Top) /\ Top.stage = "next"
      /\ Top.seg \in 1..Len(ThePart.segs) /\ Len(ThePart.segs) \in Nat
  BY TopFacts DEF NextSegment, At
<1>2. Top.seg + 1 \in Nat \ {0} /\ Top.seg < Len(ThePart.segs) /\ (Top.seg + 1) - 1 = Top.seg
  BY <1>1 DEF NextSegment, IsLast
<1>3. /\ g \in Frame /\ g.stage = "seg" /\ g.seg = Top.seg + 1 /\ g.entry = Top.entry
      /\ g.line = Top.line /\ g.part = Top.part /\ g.piped = Top.piped
      /\ g.out = Top.out /\ g.err = Top.err /\ g.in = Top.in /\ g.captured = Top.captured
  BY <1>1, <1>2, ZenonT(60) DEF Frame
<1> HIDE DEF g
<1>4. g.out = None /\ g.err = None /\ g.in = None /\ Goes(g) = Goes(Top)
  BY <1>1, <1>3 DEF Fits, Idle, Goes
<1>5. Uses(g)
  <2>1. g.stage \in {"part", "seg", "next"} /\ g.out = None /\ g.err = None /\ g.in = None
    BY <1>3, <1>4
  <2> QED BY <2>1, IdleUses
<1>6. FilesKept(Len(calls) - 1, files) /\ Same(Top, g, files)
  BY <1>4, AllKept DEF Same
<1>7. TempsOwned(WithTop(g), DOMAIN files)
  <2>1. Piping(Top) => Piping(g) BY <1>1, <1>3 DEF Piping, Segs
  <2>2. MayAppear(g, DOMAIN files) BY DEF MayAppear
  <2> QED BY <1>3, <2>1, <2>2, OwnedTop
<1>8. "capture" \notin mixed => CaptureTop(g, capture)
  BY <1>4 DEF HInv, Held, CaptureOn, CaptureTop, Top
<1>9. mixed = {} => HandedOn(g, files, stdin)
  <2>1. ASSUME mixed = {} PROVE HandedOn(g, files, stdin)
    <3>1. HandedOn(Top, files, stdin) BY <2>1 DEF HInv, Held, Top
    <3>2. Segs(Top) = ThePart.segs BY DEF Segs, ThePart
    <3>3. PipeOut(Top.seg) \in DOMAIN files => files[PipeOut(Top.seg)] = Top.piped
      BY <1>1, <1>2, <3>1, <3>2 DEF HandedOn
    <3> QED BY <1>2, <1>3, <3>3 DEF HandedOn
  <2> QED BY <2>1
<1>10. Held(WithTop(g), files, capture, mixed, stdin)
  BY <1>3, <1>5, <1>6, <1>7, <1>8, <1>9, HeldTop
<1> QED BY <1>10 DEF NextSegment, g

LEMMA EndSegmentHeld ==
    ASSUME IOAssumption, IInv, HInv, EndSegment
    PROVE  Held(calls', files', capture', mixed', stdin')
<1> DEFINE g == [Top EXCEPT !.stage = "next", !.piped = Top.said,
                            !.out = None, !.err = None, !.in = None]
           n == Len(calls)
<1>1. /\ Top \in Frame /\ Fits(Top) /\ Top.stage = "end" /\ Top.said \in Seq(Values)
  BY TopFacts DEF EndSegment, Ended, At, Frame
<1>2. /\ g \in Frame /\ g.stage = "next" /\ g.seg = Top.seg /\ g.entry = Top.entry
      /\ g.line = Top.line /\ g.part = Top.part /\ g.piped = Top.said
      /\ g.out = None /\ g.err = None /\ g.in = None /\ g.captured = Top.captured
  BY <1>1 DEF Frame
<1> HIDE DEF g
<1>3. Goes(g) = Top.entry /\ Segs(g) = Segs(Top) BY <1>2 DEF Goes, Segs
<1>4. Uses(g)
  <2>1. g.stage \in {"part", "seg", "next"} /\ g.out = None /\ g.err = None /\ g.in = None
    BY <1>2
  <2> QED BY <2>1, IdleUses
<1>5. FilesKept(Len(calls) - 1, files) /\ Same(Top, g, files)
  BY <1>2, AllKept DEF Same
<1>6. TempsOwned(WithTop(g), DOMAIN files)
  <2>1. Piping(Top) => Piping(g) BY <1>1, <1>2, <1>3 DEF Piping
  <2>2. MayAppear(g, DOMAIN files) BY DEF MayAppear
  <2> QED BY <1>2, <2>1, <2>2, OwnedTop
<1>7. n \in 1..Len(calls) /\ Top = calls[n] BY TopFacts
<1>8. "capture" \notin mixed => CaptureTop(g, capture')
  <2>1. ASSUME "capture" \notin mixed, Top.entry.captured PROVE capture' = Top.entry.to
    <3>1. Uncaptured(calls) /\ CaptureOn(calls, capture)
      BY <2>1 DEF HInv, Held
    <3>2. Top.out = None /\ Top.err = None
      BY <1>7, <2>1, <3>1 DEF Uncaptured
    <3>3. capture' = capture BY <3>2 DEF EndSegment, Ended
    <3>4. Goes(Top) = Top.entry BY <3>2 DEF Goes
    <3> QED BY <2>1, <3>1, <3>3, <3>4 DEF CaptureOn, Top
  <2> QED BY <1>3, <2>1 DEF CaptureTop
<1>9. mixed = {} => HandedOn(g, files, stdin')
  <2>1. ASSUME mixed = {}, g.seg < Len(Segs(g)) PROVE files[PipeOut(g.seg)] = g.piped
    <3>1. Holds(calls, files) BY <2>1 DEF HInv, Held
    <3>2. HoldsOne(Top, files) BY <1>7, <3>1 DEF Holds
    <3>3. Uses(Top) BY TopUses
    <3>4. Top.seg < Len(Segs(Top)) BY <1>2, <1>3, <2>1
    <3>5. Top.out = PipeOut(Top.seg) BY <1>1, <3>3, <3>4 DEF Uses
    <3>6. Top.out # None
      <4>1. PipeOut(Top.seg) \in PipeFiles BY DEF PipeOut, PipeFiles
      <4> QED BY <3>5, <4>1, PlaceFacts
    <3>7. files[Top.out] = Top.said BY <3>2, <3>4, <3>6 DEF HoldsOne
    <3> QED BY <1>2, <3>5, <3>7
  <2> QED BY <1>2, <2>1 DEF HandedOn
<1>10. Held(WithTop(g), files, capture', mixed, stdin')
  BY <1>2, <1>4, <1>5, <1>6, <1>8, <1>9, HeldTop
<1> QED BY <1>10 DEF EndSegment, Ended, g

(***************************************************************************)
(* Files that a segment opens.                                             *)
(***************************************************************************)
\* Opening a file leaves the others as they are, and empties it unless it is
\* appended to.
LEMMA OpenedAt ==
    ASSUME NEW fs, NEW f, NEW append, NEW x \in DOMAIN fs
    PROVE  x # f => x \in DOMAIN Opened(f, append, fs) /\ Opened(f, append, fs)[x] = fs[x]
<1>1. CASE f = None BY <1>1 DEF Opened
<1>2. CASE f # None
  <2> DEFINE text == IF append /\ f \in DOMAIN fs THEN fs[f] ELSE <<>>
  <2>1. Opened(f, append, fs) = Put(f, text, fs) BY <1>2 DEF Opened
  <2> HIDE DEF text
  <2> QED BY <2>1 DEF Put
<1> QED BY <1>1, <1>2

LEMMA OpenedEmpty ==
    ASSUME NEW fs, NEW f, f # None
    PROVE  f \in DOMAIN Opened(f, FALSE, fs) /\ Opened(f, FALSE, fs)[f] = <<>>
           /\ DOMAIN Opened(f, FALSE, fs) = DOMAIN fs \cup {f}
<1>1. Opened(f, FALSE, fs) = Put(f, <<>>, fs) BY DEF Opened
<1> QED BY <1>1 DEF Put

LEMMA OpenedDomain ==
    ASSUME NEW fs, NEW f, NEW append
    PROVE  DOMAIN Opened(f, append, fs) \subseteq DOMAIN fs \cup {f}
           /\ DOMAIN fs \subseteq DOMAIN Opened(f, append, fs)
BY DEF Opened, Put

\* What the start of a segment does to the files.
LEMMA TruncatedAt ==
    ASSUME NEW x \in DOMAIN files,
           x # OutFile \/ ~OpensOut, x # TheSeg.err \/ ~OpensOut \/ ~OpensErr
    PROVE  Truncated[x] = files[x]
<1> DEFINE one == Opened(OutFile, Appends, files)
           two == Opened(TheSeg.err, FALSE, one)
<1>1. Truncated = IF ~OpensOut THEN files ELSE IF ~OpensErr THEN one ELSE two
  BY DEF Truncated
<1>2. CASE ~OpensOut BY <1>1, <1>2
<1>3. CASE OpensOut
  <2>1. x \in DOMAIN one /\ one[x] = files[x] BY <1>3, OpenedAt
  <2> HIDE DEF one
  <2>2. x # TheSeg.err => two[x] = one[x] BY <2>1, OpenedAt
  <2> QED BY <1>1, <1>3, <2>1, <2>2
<1> QED BY <1>2, <1>3

LEMMA TruncatedOut ==
    ASSUME OpensOut, OutFile # None, OutFile # TheSeg.err, ~Appends
    PROVE  Truncated[OutFile] = <<>>
<1> DEFINE one == Opened(OutFile, Appends, files)
           two == Opened(TheSeg.err, FALSE, one)
           o == OutFile
<1>1. Truncated = IF ~OpensErr THEN one ELSE two BY DEF Truncated
<1>2. one = Opened(o, FALSE, files) BY DEF Appends
<1>3. o \in DOMAIN one /\ one[o] = <<>>
  <2>1. o # None OBVIOUS
  <2> HIDE DEF o, one
  <2>2. o \in DOMAIN Opened(o, FALSE, files) /\ Opened(o, FALSE, files)[o] = <<>>
    BY <2>1, OpenedEmpty
  <2> QED BY <1>2, <2>2
<1> HIDE DEF one
<1>4. two[o] = one[o] BY <1>3, OpenedAt
<1> QED BY <1>1, <1>3, <1>4

LEMMA TruncatedDomain ==
    /\ OpensOut => DOMAIN Truncated \subseteq DOMAIN files \cup {OutFile, TheSeg.err}
    /\ ~OpensOut => Truncated = files
<1> DEFINE one == Opened(OutFile, Appends, files)
           two == Opened(TheSeg.err, FALSE, one)
<1>1. Truncated = IF ~OpensOut THEN files ELSE IF ~OpensErr THEN one ELSE two
  BY DEF Truncated
<1>2. DOMAIN one \subseteq DOMAIN files \cup {OutFile} BY OpenedDomain
<1> HIDE DEF one
<1>3. DOMAIN two \subseteq DOMAIN one \cup {TheSeg.err} BY OpenedDomain
<1> HIDE DEF two
<1> QED BY <1>1, <1>2, <1>3

\* Whatever else is opened, the files of the calls on the stack stay.
LEMMA OpenStays ==
    ASSUME IOAssumption, IInv, At("seg")
    PROVE  FilesKept(Len(calls) - 1, Truncated)
<1> SUFFICES ASSUME NEW i \in 1..Len(calls) - 1, calls[i].out # None
             PROVE  Truncated[calls[i].out] = files[calls[i].out]
  BY DEF FilesKept
<1>1. Len(calls) \in Nat /\ calls \in Seq(GoodFrames) BY TopFacts
<1>2. i \in DOMAIN calls /\ i \in 1..Len(calls) BY <1>1
<1> DEFINE x == calls[i].out
<1>3. x \in DOMAIN files BY <1>2 DEF IInv, Leads, Present
<1>4. x \in Written BY <1>2, WrittenFacts
<1>5. x # None OBVIOUS
<1> HIDE DEF x
<1>6. x # OutFile \/ ~OpensOut BY <1>4, <1>5 DEF OpensOut, CanWrite
<1>7. x # TheSeg.err \/ ~OpensErr BY <1>4, <1>5 DEF OpensErr, CanWrite
<1>8. Truncated[x] = files[x] BY <1>3, <1>6, <1>7, TruncatedAt
<1> QED BY <1>8 DEF x

\* A file that a call has open, and that is a pipeline's, is that of one
\* further down than the top call if that has none open.
LEMMA OpenPipe ==
    ASSUME IOAssumption, IInv, HInv, Top.stage \in Idle, NEW x \in PipeFiles, x \in Written \cup Read
    PROVE  \E i \in 1..Len(calls) - 1 : Piping(calls[i])
<1>1. Len(calls) \in Nat \ {0} /\ calls \in Seq(GoodFrames) /\ Top = calls[Len(calls)] /\ Fits(Top)
  BY TopFacts
<1>2. x # None /\ x \notin Files BY PlaceFacts DEF IOAssumption
<1>3. DOMAIN calls = 1..Len(calls) BY <1>1
<1>4. PICK i \in 1..Len(calls) : x \in {calls[i].out, calls[i].err, calls[i].in}
  BY <1>3 DEF Written, Read
<1>5. Uses(calls[i]) BY DEF HInv, Held, AllUse
<1>6. x = calls[i].out \/ x = calls[i].in BY <1>2, <1>4, <1>5 DEF Uses
<1>7. Piping(calls[i]) BY <1>5, <1>6 DEF Uses
<1>8. i # Len(calls)
  <2>1. Top.out = None /\ Top.in = None BY <1>1 DEF Fits
  <2> QED BY <1>1, <1>2, <1>6, <2>1
<1>9. i \in 1..Len(calls) - 1 BY <1>1, <1>8
<1> QED BY <1>7, <1>9

\* The new files of a segment.
LEMMA OpenAppears ==
    ASSUME IOAssumption, IInv, At("seg"), NEW g,
           g.stage # "part" /\ Segs(g) = ThePart.segs
    PROVE  MayAppear(g, DOMAIN Truncated)
<1> SUFFICES ASSUME NEW x \in DOMAIN Truncated, x \notin DOMAIN files, x \notin Files
             PROVE  x \in PipeFiles \ Unopenable /\ Piping(g)
  BY DEF MayAppear
<1>1. /\ OutFile \in Files \cup PipeFiles \cup {None} /\ TheSeg.err \in Files \cup {None}
      /\ Disk(Truncated)
  BY TruncatedFacts
<1>2. /\ ThePart \in Part /\ TheSeg \in Segment
      /\ Top.seg \in 1..Len(ThePart.segs) /\ Len(ThePart.segs) \in Nat
  BY TopFacts DEF At
<1>3. OpensOut /\ x \in {OutFile, TheSeg.err} BY TruncatedDomain
<1>4. x # None
  <2>1. x \in Files \cup Temps BY <1>1 DEF Disk
  <2> QED BY <2>1, PlaceFacts
<1>5. x = OutFile /\ x \in PipeFiles /\ x \notin Unopenable
  BY <1>1, <1>3, <1>4 DEF OpensOut, CanWrite
<1>6. ~IsLast
  <2>1. IsLast => OutFile \in Files \cup {None}
    BY <1>2 DEF OutFile, Segment
  <2> QED BY <1>4, <1>5, <2>1
<1>7. Len(ThePart.segs) > 1 BY <1>2, <1>6 DEF IsLast
<1> QED BY <1>5, <1>7 DEF Piping

LEMMA SegmentFailsHeld ==
    ASSUME IOAssumption, IInv, HInv, SegmentFails
    PROVE  Held(calls', files', capture', mixed', stdin')
<1> DEFINE g == [Top EXCEPT !.stage = "next", !.piped = <<>>]
           n == Len(calls)
           mx == mixed \cup Nesting
<1>1. /\ Top \in Frame /\ Fits(Top) /\ Top.stage = "seg" /\ At("seg")
      /\ Top.seg \in 1..Len(ThePart.segs) /\ Len(ThePart.segs) \in Nat
      /\ n \in Nat \ {0}
  BY TopFacts DEF SegmentFails, At
<1>2. /\ g \in Frame /\ g.stage = "next" /\ g.seg = Top.seg /\ g.entry = Top.entry
      /\ g.line = Top.line /\ g.part = Top.part /\ g.piped = <<>>
      /\ g.out = Top.out /\ g.err = Top.err /\ g.in = Top.in /\ g.captured = Top.captured
  BY <1>1, EmptySeq DEF Frame
<1>3. calls' = WithTop(g) /\ files' = Truncated /\ mixed' = mx /\ stdin' = stdin
  BY DEF SegmentFails
<1> HIDE DEF g
<1>4. g.out = None /\ g.err = None /\ g.in = None
  BY <1>1, <1>2 DEF Fits, Idle
<1>5. Goes(g) = Top.entry /\ Goes(Top) = Top.entry /\ Segs(g) = ThePart.segs /\ Segs(Top) = ThePart.segs
  BY <1>2, <1>4 DEF Goes, Segs, ThePart
<1>6. Uses(g)
  <2>1. g.stage \in {"part", "seg", "next"} /\ g.out = None /\ g.err = None /\ g.in = None
    BY <1>2, <1>4
  <2> QED BY <2>1, IdleUses
<1>7. FilesKept(n - 1, Truncated) /\ Same(Top, g, Truncated)
  <2>1. Same(Top, g, Truncated) BY <1>4 DEF Same
  <2> QED BY <1>1, <2>1, OpenStays
<1>8. TempsOwned(WithTop(g), DOMAIN Truncated)
  <2>1. Piping(Top) => Piping(g) BY <1>1, <1>2, <1>5 DEF Piping
  <2>2. MayAppear(g, DOMAIN Truncated) BY <1>1, <1>2, <1>5, OpenAppears
  <2> QED BY <1>2, <2>1, <2>2, OwnedTop
<1>9. "capture" \notin mx => CaptureTop(g, capture')
  <2>1. ASSUME "capture" \notin mx, Top.entry.captured PROVE capture' = Top.entry.to
    <3>1. CaptureOn(calls, capture) BY <2>1 DEF HInv, Held
    <3>2. OutFile = None /\ TheSeg.err = None BY <1>5, <2>1 DEF Nesting
    <3>3. capture' = capture BY <3>2 DEF SegmentFails
    <3> QED BY <1>5, <2>1, <3>1, <3>3 DEF CaptureOn, Top
  <2> QED BY <1>5, <2>1 DEF CaptureTop
<1>10. mx = {} => HandedOn(g, Truncated, stdin)
  <2> DEFINE x == PipeOut(Top.seg)
  <2>1. ASSUME mx = {}, Top.seg < Len(ThePart.segs), x \in DOMAIN Truncated
        PROVE  Truncated[x] = <<>>
    <3>1. ~IsLast /\ IsPipe BY <1>1, <2>1 DEF IsLast, IsPipe
    <3>2. OutFile = x /\ ~Appends BY <3>1 DEF OutFile, Appends
    <3>3. x \in PipeFiles /\ x # None /\ x \notin Files
      <4>1. x \in PipeFiles BY DEF PipeOut, PipeFiles
      <4> QED BY <4>1, PlaceFacts DEF IOAssumption
    <3>4. CASE OpensOut
      <4>1. TheSeg.err \in Files \cup {None} BY <1>1, TruncatedFacts
      <4> QED BY <3>2, <3>3, <3>4, <4>1, TruncatedOut
    <3>5. CASE ~OpensOut
      <4>1. x \in DOMAIN files BY <2>1, <3>5, TruncatedDomain
      <4>2. x \in Unopenable \cup Written \cup Read
        BY <3>2, <3>5 DEF OpensOut, CanWrite
      <4>3. x \notin Unopenable BY <3>3, <4>1 DEF HInv, Held, TempsOwned
      <4>4. Top.stage \in Idle BY <1>1 DEF Idle
      <4>5. PICK i \in 1..n - 1 : Piping(calls[i])
        BY <3>3, <4>2, <4>3, <4>4, OpenPipe
      <4>6. InPipe BY <4>5 DEF InPipe, Piping, Segs
      <4> QED BY <2>1, <3>1, <4>6 DEF Nesting
    <3> QED BY <3>4, <3>5
  <2> QED BY <1>2, <1>5, <2>1 DEF HandedOn
<1>11. mixed \subseteq mx OBVIOUS
<1> HIDE DEF mx
<1>12. Held(WithTop(g), Truncated, capture', mx, stdin)
  BY <1>2, <1>6, <1>7, <1>8, <1>9, <1>10, <1>11, HeldTop
<1> QED BY <1>3, <1>12

LEMMA PartEndsHeld ==
    ASSUME IOAssumption, IInv, HInv, PartEnds
    PROVE  Held(calls', files', capture', mixed', stdin')
<1> DEFINE g == [Top EXCEPT !.stage = "part", !.part = Top.part + 1, !.seg = 1]
           n == Len(calls)
           fs == IF IsPipe THEN Without(files, Removable) ELSE files
<1>1. /\ Top \in Frame /\ Fits(Top) /\ Top.stage = "next"
      /\ n \in Nat \ {0} /\ Top = calls[n] /\ n \in 1..n
      /\ Len(ThePart.segs) \in Nat
  BY TopFacts DEF PartEnds, At
<1>2. Top.part + 1 \in Nat \ {0} /\ 1 \in Nat \ {0} BY <1>1 DEF Frame
<1>3. /\ g \in Frame /\ g.stage = "part" /\ g.entry = Top.entry
      /\ g.out = Top.out /\ g.err = Top.err /\ g.in = Top.in /\ g.captured = Top.captured
  BY <1>1, <1>2, ZenonT(60) DEF Frame
<1>4. calls' = WithTop(g) /\ files' = fs /\ capture' = capture /\ mixed' = mixed /\ stdin' = stdin
  BY DEF PartEnds
<1> HIDE DEF g
<1>5. g.out = None /\ g.err = None /\ g.in = None /\ Goes(g) = Top.entry /\ Goes(Top) = Top.entry
  BY <1>1, <1>3 DEF Fits, Idle, Goes
<1>6. Uses(g)
  <2>1. g.stage \in {"part", "seg", "next"} /\ g.out = None /\ g.err = None /\ g.in = None
    BY <1>3, <1>5
  <2> QED BY <2>1, IdleUses
<1>7. /\ DOMAIN fs \subseteq DOMAIN files
      /\ \A x \in DOMAIN fs : fs[x] = files[x]
      /\ \A x \in DOMAIN files : x \notin DOMAIN fs => IsPipe /\ x \in Removable
      /\ \A x \in DOMAIN fs : IsPipe => x \notin Removable
  BY DEF Without
<1> HIDE DEF fs
<1>8. FilesKept(n - 1, fs)
  <2> SUFFICES ASSUME NEW i \in 1..n - 1, calls[i].out # None
               PROVE  fs[calls[i].out] = files[calls[i].out]
    BY DEF FilesKept
  <2>1. i \in DOMAIN calls /\ i \in 1..n
    <3>1. calls \in Seq(GoodFrames) BY TopFacts
    <3> QED BY <1>1, <3>1
  <2>2. calls[i].out \in DOMAIN files BY <2>1 DEF IInv, Leads, Present
  <2>3. calls[i].out \in Written BY <2>1, WrittenFacts
  <2> QED BY <1>7, <2>2, <2>3 DEF Removable
<1>9. Same(Top, g, fs) BY <1>5 DEF Same
<1>10. TempsOwned(WithTop(g), DOMAIN fs)
  <2> DEFINE t == WithTop(g)
  <2>0. TempsOwned(calls, DOMAIN files) BY DEF HInv, Held
  <2>1. Len(t) = n /\ t[n] = g /\ \A i \in 1..n - 1 : t[i] = calls[i]
    BY <1>3, OnTop DEF Below
  <2> HIDE DEF t
  <2>2. ASSUME NEW x \in DOMAIN fs \cap PipeFiles
        PROVE  x \notin Unopenable /\ \E i \in 1..Len(t) : Piping(t[i])
    <3>1. x \notin Unopenable /\ \E i \in 1..n : Piping(calls[i])
      BY <1>7, <2>0 DEF TempsOwned
    <3>2. \E i \in 1..n - 1 : Piping(calls[i])
      <4>1. CASE IsPipe
        <5>1. x \in Written \cup Read
          BY <1>7, <4>1 DEF Removable, PipeFiles
        <5>2. Top.stage \in Idle BY <1>1 DEF Idle
        <5> QED BY <5>1, <5>2, OpenPipe
      <4>2. CASE ~IsPipe
        <5>1. ~Piping(Top) BY <4>2 DEF Piping, Segs, IsPipe, ThePart
        <5>2. PICK i \in 1..n : Piping(calls[i]) BY <3>1
        <5>3. i # n BY <1>1, <5>1, <5>2
        <5>4. i \in 1..n - 1 BY <1>1, <5>3
        <5> QED BY <5>2, <5>4
      <4> QED BY <4>1, <4>2
    <3>3. PICK i \in 1..n - 1 : Piping(calls[i]) BY <3>2
    <3>4. i \in 1..Len(t) /\ Piping(t[i]) BY <1>1, <2>1, <3>3
    <3> QED BY <3>1, <3>4
  <2>3. ASSUME NEW j \in DOMAIN CaptureFiles, CaptureFiles[j] \in DOMAIN fs
        PROVE  j < Len(t) /\ t[j + 1].captured
    <3>1. j < n /\ calls[j + 1].captured
      BY <1>7, <2>0, <2>3 DEF TempsOwned
    <3>2. j \in Nat /\ (j + 1 = n \/ j + 1 \in 1..n - 1)
      BY <1>1, <3>1, PlaceFacts
    <3> QED BY <1>1, <1>3, <2>1, <3>1, <3>2
  <2>4. TempsOwned(t, DOMAIN fs) BY <2>2, <2>3 DEF TempsOwned
  <2> QED BY <2>4 DEF t
<1>11. "capture" \notin mixed => CaptureTop(g, capture)
  BY <1>5 DEF HInv, Held, CaptureOn, CaptureTop, Top
<1>12. HandedOn(g, fs, stdin) BY <1>3 DEF HandedOn
<1>13. Held(WithTop(g), fs, capture, mixed, stdin)
  BY <1>3, <1>6, <1>8, <1>9, <1>10, <1>11, <1>12, HeldTop
<1> QED BY <1>4, <1>13

LEMMA StartSegmentHeld ==
    ASSUME IOAssumption, IInv, HInv, StartSegment
    PROVE  Held(calls', files', capture', mixed', stdin')
<1> DEFINE old == IF OutFile = None THEN None ELSE stdout
           oldin == IF InFile = None THEN NoInput ELSE stdin
           g == [Top EXCEPT !.stage = "run", !.said = <<>>,
                            !.out = OutFile, !.err = TheSeg.err, !.in = InFile,
                            !.oldOut = old, !.oldIn = oldin]
           n == Len(calls)
           t == WithTop(g)
           fs == Truncated
           mx == mixed \cup Nesting
<1>1. /\ Top \in Frame /\ Fits(Top) /\ Top.stage = "seg" /\ At("seg")
      /\ n \in Nat \ {0} /\ Top = calls[n] /\ n \in 1..n
      /\ stdout \in Places /\ calls \in Seq(GoodFrames)
  BY TopFacts DEF StartSegment, At
<1>2. /\ OutFile \in Files \cup PipeFiles \cup {None}
      /\ InFile \in Files \cup PipeFiles \cup {None}
      /\ TheSeg.err \in Files \cup {None}
  BY <1>1, TruncatedFacts
<1>3. /\ OutFile \in Places \cup {None} /\ InFile \in Places \cup {None}
      /\ TheSeg.err \in Places \cup {None} /\ old \in Places \cup {None} /\ oldin \in Input
  <2>1. NoInput \in Input /\ stdin \in Input
    BY EmptySeq DEF NoInput, Input, IInv, Streams
  <2> QED BY <1>1, <1>2, <2>1, PlaceFacts
<1>4. /\ calls' = t /\ files' = fs /\ mixed' = mx
      /\ OpensOut /\ OpensErr /\ OpensIn
  BY DEF StartSegment
<1> HIDE DEF old, oldin
<1>5. /\ g \in Frame /\ g.stage = "run" /\ g.line = Top.line /\ g.part = Top.part
      /\ g.seg = Top.seg /\ g.out = OutFile /\ g.err = TheSeg.err /\ g.in = InFile
      /\ g.captured = Top.captured /\ g.entry = Top.entry
      /\ g.said = <<>> /\ g.piped = Top.piped
  BY <1>1, <1>3, EmptySeq, ZenonT(60) DEF Frame
<1> HIDE DEF g
<1>6. Segs(g) = ThePart.segs /\ Segs(Top) = ThePart.segs /\ Goes(Top) = Top.entry
  BY <1>1, <1>5 DEF Segs, ThePart, Fits, Idle, Goes
<1>7. /\ ThePart \in Part /\ TheSeg \in Segment /\ TheSeg = ThePart.segs[Top.seg]
      /\ Top.seg \in 1..Len(ThePart.segs) /\ Len(ThePart.segs) \in Nat
  BY <1>1, TopFacts DEF TheSeg
<1>8. /\ Len(t) = n /\ t[n] = g /\ Last(t) = g /\ \A i \in 1..n - 1 : t[i] = calls[i]
  BY <1>5, OnTop DEF Below
<1>9. Files \cap PipeFiles = {} BY PlaceFacts DEF IOAssumption
<1>10. Uses(g)
  <2>1. g.out \in PipeFiles => ~IsLast
    BY <1>5, <1>7, <1>9, PlaceFacts DEF OutFile, Segment
  <2>2. g.in \in PipeFiles => Top.seg # 1
    BY <1>5, <1>7, <1>9, PlaceFacts DEF InFile, Segment
  <2>3. g.out \in PipeFiles \/ g.in \in PipeFiles => Len(ThePart.segs) > 1
    BY <1>7, <2>1, <2>2 DEF IsLast
  <2>4. g.seg < Len(Segs(g)) => g.out = PipeOut(g.seg)
    <3>1. g.seg < Len(Segs(g)) => ~IsLast BY <1>5, <1>6, <1>7 DEF IsLast
    <3> QED BY <1>5, <3>1 DEF OutFile
  <2>5. g.out # None => g.out # g.err BY <1>4, <1>5 DEF OpensErr
  <2> QED BY <1>2, <1>5, <1>6, <2>3, <2>4, <2>5 DEF Uses, Piping
<1>11. HInv OBVIOUS
<1> HIDE DEF t
<1>12. AllUse(t)
  <2>1. ASSUME NEW i \in 1..n PROVE Uses(t[i])
    <3>1. i = n \/ i \in 1..n - 1 BY <1>1
    <3> QED BY <1>8, <1>10, <1>11, <3>1 DEF HInv, Held, AllUse
  <2> QED BY <1>8, <2>1 DEF AllUse
<1>13. FilesKept(n - 1, fs) BY <1>1, OpenStays
<1>14. ASSUME NEW i \in 1..n - 1
       PROVE  /\ calls[i].out # None => calls[i].out \notin {g.out, g.err}
              /\ g.out # None => g.out \notin {calls[i].out, calls[i].err}
  <2>1. i \in DOMAIN calls BY <1>1
  <2>2. calls[i].out # None => calls[i].out \in Written
    BY <2>1, WrittenFacts
  <2>3. g.out # None => g.out \notin Written
    BY <1>4, <1>5 DEF OpensOut, CanWrite
  <2>4. g.err # None => g.err \notin Written
    BY <1>4, <1>5 DEF OpensErr, CanWrite
  <2>5. calls[i].err # None => calls[i].err \in Written
    <3>1. {calls[i].out, calls[i].err} \in {{calls[k].out, calls[k].err} : k \in DOMAIN calls}
      BY <2>1
    <3> QED BY <3>1 DEF Written
  <2> QED BY <2>2, <2>3, <2>4, <2>5
<1>15. Exclusive(t)
  <2> SUFFICES ASSUME NEW i \in 1..n, NEW j \in 1..n, i # j, t[i].out # None
               PROVE  t[i].out \notin {t[j].out, t[j].err}
    BY <1>8 DEF Exclusive
  <2>1. (i = n \/ i \in 1..n - 1) /\ (j = n \/ j \in 1..n - 1) BY <1>1
  <2>2. CASE i = n /\ j # n BY <1>8, <1>14, <2>1, <2>2
  <2>3. CASE i # n /\ j = n BY <1>8, <1>14, <2>1, <2>3
  <2>4. CASE i # n /\ j # n
    <3>1. Exclusive(calls) BY <1>11 DEF HInv, Held
    <3>2. t[i] = calls[i] /\ t[j] = calls[j] BY <1>8, <2>1, <2>4
    <3> QED BY <3>1, <3>2 DEF Exclusive
  <2> QED BY <2>2, <2>3, <2>4
<1>16. TempsOwned(t, DOMAIN fs)
  <2>1. Piping(Top) => Piping(g) BY <1>1, <1>5, <1>6 DEF Piping
  <2>2. MayAppear(g, DOMAIN fs) BY <1>1, <1>5, <1>6, OpenAppears
  <2> QED BY <1>5, <2>1, <2>2, OwnedTop DEF t
<1>17. ASSUME "capture" \notin mx
       PROVE  Uncaptured(t) /\ CaptureOn(t, capture') /\ Holds(t, fs)
  <2>1. Uncaptured(calls) /\ CaptureOn(calls, capture) /\ Holds(calls, files)
    BY <1>11, <1>17 DEF HInv, Held
  <2>2. g.out # None \/ g.err # None => ~g.entry.captured
    BY <1>5, <1>6, <1>17 DEF Nesting
  <2>3. Uncaptured(t)
    <3>1. ASSUME NEW i \in 1..Len(t), t[i].out # None \/ t[i].err # None
          PROVE  ~t[i].entry.captured
      <4>1. i = n \/ i \in 1..n - 1 BY <1>1, <1>8
      <4>2. CASE i = n BY <1>8, <2>2, <3>1, <4>2
      <4>3. CASE i \in 1..n - 1 BY <1>8, <2>1, <3>1, <4>3 DEF Uncaptured
      <4> QED BY <4>1, <4>2, <4>3
    <3>2. ASSUME NEW i \in 1..Len(t) - 1, t[i + 1].captured
          PROVE  ~Goes(t[i]).captured
      <4>1. i \in 1..n - 1 /\ (i + 1 = n \/ i + 1 \in 1..n - 1)
        BY <1>1, <1>8
      <4>2. t[i] = calls[i] /\ t[i + 1].captured = calls[i + 1].captured
        BY <1>1, <1>5, <1>8, <4>1
      <4> QED BY <2>1, <3>2, <4>1, <4>2 DEF Uncaptured
    <3> QED BY <3>1, <3>2 DEF Uncaptured
  <2>4. CaptureOn(t, capture')
    <3>1. ASSUME Goes(g).captured PROVE capture' = Goes(g).to
      <4>1. g.out = None BY <3>1 DEF Goes
      <4>2. Goes(g) = g.entry /\ g.entry.captured BY <3>1, <4>1 DEF Goes
      <4>3. OutFile = None /\ TheSeg.err = None BY <1>5, <2>2, <4>2
      <4>4. capture' = capture BY <4>3 DEF StartSegment
      <4> QED BY <1>5, <1>6, <2>1, <4>2, <4>4 DEF CaptureOn, Top
    <3> QED BY <1>8, <3>1 DEF CaptureOn
  <2>5. HoldsOne(g, fs)
    <3> SUFFICES ASSUME OutFile # None PROVE HoldsOne(g, fs)
      BY <1>5 DEF HoldsOne
    <3>1. OutFile \in DOMAIN fs /\ Disk(fs)
      BY <1>1, <1>4, TruncatedFacts
    <3>2. fs[OutFile] \in Seq(Values) BY <3>1 DEF Disk
    <3>3. IsSuffix(g.said, fs[g.out]) BY <1>5, <3>2, SuffixEmpty
    <3>4. ASSUME g.seg < Len(Segs(g)) \/ ~Segs(g)[g.seg].append PROVE fs[g.out] = g.said
      <4>1. ~Appends BY <1>5, <1>6, <1>7, <3>4 DEF Appends, IsLast
      <4>2. OutFile # TheSeg.err BY <1>4 DEF OpensErr
      <4> QED BY <1>4, <1>5, <4>1, <4>2, TruncatedOut
    <3> QED BY <3>3, <3>4 DEF HoldsOne
  <2>6. Holds(t, fs)
    <3> SUFFICES ASSUME NEW i \in 1..n PROVE HoldsOne(t[i], fs)
      BY <1>8 DEF Holds
    <3>1. CASE i = n BY <1>8, <2>5, <3>1
    <3>2. CASE i # n
      <4>1. i \in 1..n - 1 BY <1>1, <3>2
      <4>2. HoldsOne(calls[i], files) /\ t[i] = calls[i]
        BY <1>8, <2>1, <4>1 DEF Holds
      <4>3. calls[i].out # None => fs[calls[i].out] = files[calls[i].out]
        BY <1>13, <4>1 DEF FilesKept
      <4> QED BY <4>2, <4>3 DEF HoldsOne
    <3> QED BY <3>1, <3>2
  <2> QED BY <2>3, <2>4, <2>6
<1>18. ASSUME mx = {} PROVE HandedOn(g, fs, stdin')
  <2>1. ASSUME Top.seg > 1 PROVE stdin'.rest = Top.piped
    <3>1. InFile = PipeOut(Top.seg - 1) /\ InFile \in PipeFiles
      BY <1>7, <2>1 DEF InFile, PipeOut, PipeFiles
    <3>2. InFile # None BY <3>1, PlaceFacts
    <3>3. stdin'.rest = fs[InFile] BY <3>2 DEF StartSegment
    <3>4. InFile \in DOMAIN files /\ InFile \notin {OutFile, TheSeg.err}
      BY <1>4, <3>2 DEF OpensIn, CanRead
    <3>5. fs[InFile] = files[InFile] BY <3>4, TruncatedAt
    <3>6. HandedOn(Top, files, stdin)
      BY <1>11, <1>18 DEF HInv, Held, Top
    <3>7. files[InFile] = Top.piped
      BY <1>1, <2>1, <3>1, <3>4, <3>6 DEF HandedOn
    <3> QED BY <3>3, <3>5, <3>7
  <2> QED BY <1>5, <2>1 DEF HandedOn
<1> HIDE DEF fs, mx
<1>19. Held(t, fs, capture', mx, stdin')
  BY <1>8, <1>12, <1>15, <1>16, <1>17, <1>18 DEF Held
<1> QED BY <1>4, <1>19

(***************************************************************************)
(* Commands print.                                                         *)
(***************************************************************************)
LEMMA SaysHeld ==
    ASSUME IOAssumption, IInv, HInv, At("run"), NEW text \in Seq(Values), Says(text)
    PROVE  Held(calls', files', capture', mixed', stdin')
<1> DEFINE n == Len(calls)
           said(i) == IF i \in Owners THEN calls[i].said \o text ELSE calls[i].said
           stage(i) == IF i = n THEN "end" ELSE calls[i].stage
           g(i) == [calls[i] EXCEPT !.said = said(i), !.stage = stage(i)]
           t == [i \in DOMAIN calls |-> g(i)]
           to == Goes(Top).to
<1>1. /\ calls \in Seq(GoodFrames) /\ n \in Nat \ {0} /\ n \in 1..n
      /\ Top = calls[n] /\ Top.stage = "run" /\ DOMAIN calls = 1..n
      /\ Goes(Top) \in [to : Places, captured : BOOLEAN, fd : Places]
  BY TopFacts DEF At
<1>2. calls' = t /\ capture' = capture /\ mixed' = mixed /\ Write(text)
  BY DEF Says
<1>3. ASSUME NEW i \in 1..n
      PROVE  /\ calls[i] \in Frame /\ Fits(calls[i])
             /\ g(i).stage = stage(i) /\ g(i).said = said(i)
             /\ g(i).line = calls[i].line /\ g(i).part = calls[i].part
             /\ g(i).seg = calls[i].seg /\ g(i).out = calls[i].out
             /\ g(i).err = calls[i].err /\ g(i).in = calls[i].in
             /\ g(i).captured = calls[i].captured /\ g(i).entry = calls[i].entry
  <2>1. calls[i] \in GoodFrames BY <1>1, ElementOfSeq
  <2>2. calls[i] \in Frame /\ Fits(calls[i]) BY <2>1 DEF GoodFrames
  <2> HIDE DEF said, stage
  <2> QED BY <2>2 DEF Frame
<1>4. Len(t) = n /\ \A i \in 1..n : t[i] = g(i)
  <2>1. t = [i \in 1..n |-> t[i]] /\ \A i \in 1..n : t[i] = g(i) BY <1>1
  <2> HIDE DEF t
  <2>2. Len(t) = n
    <3> DEFINE T == {t[k] : k \in 1..n}
    <3>1. \A i \in 1..n : t[i] \in T OBVIOUS
    <3> HIDE DEF T
    <3> QED BY <1>1, <2>1, <3>1, SeqOfFunction
  <2> QED BY <2>1, <2>2
<1> HIDE DEF g
<1>5. ASSUME NEW i \in 1..n
      PROVE  /\ t[i].stage = stage(i) /\ t[i].said = said(i)
             /\ t[i].line = calls[i].line /\ t[i].part = calls[i].part
             /\ t[i].seg = calls[i].seg /\ t[i].out = calls[i].out
             /\ t[i].err = calls[i].err /\ t[i].in = calls[i].in
             /\ t[i].captured = calls[i].captured /\ t[i].entry = calls[i].entry
             /\ Goes(t[i]) = Goes(calls[i]) /\ Segs(t[i]) = Segs(calls[i])
  <2>1. /\ t[i].stage = stage(i) /\ t[i].said = said(i)
        /\ t[i].line = calls[i].line /\ t[i].part = calls[i].part
        /\ t[i].seg = calls[i].seg /\ t[i].out = calls[i].out
        /\ t[i].err = calls[i].err /\ t[i].in = calls[i].in
        /\ t[i].captured = calls[i].captured /\ t[i].entry = calls[i].entry
    BY <1>3, <1>4
  <2> HIDE DEF t, said, stage
  <2>2. Goes(t[i]) = Goes(calls[i]) BY <2>1 DEF Goes
  <2>3. Segs(t[i]) = Segs(calls[i]) BY <2>1 DEF Segs
  <2> QED BY <2>1, <2>2, <2>3
<1> HIDE DEF t
<1>6. ASSUME NEW i \in 1..n PROVE Piping(t[i]) <=> Piping(calls[i])
  BY <1>1, <1>5 DEF Piping
<1>7. AllUse(t)
  <2>1. ASSUME NEW i \in 1..n PROVE Uses(t[i])
    <3>1. Uses(calls[i]) BY DEF HInv, Held, AllUse
    <3>2. /\ t[i].stage = "subst" => calls[i].stage = "subst"
          /\ t[i].stage \in {"run", "call", "end"} => calls[i].stage \in {"run", "call", "end"}
      BY <1>1, <1>5
    <3>3. /\ t[i].seg = calls[i].seg /\ t[i].out = calls[i].out
          /\ t[i].err = calls[i].err /\ t[i].in = calls[i].in
          /\ Segs(t[i]) = Segs(calls[i]) /\ (Piping(t[i]) <=> Piping(calls[i]))
      BY <1>5, <1>6
    <3> QED BY <3>1, <3>2, <3>3 DEF Uses
  <2> QED BY <1>4, <2>1 DEF AllUse
<1>8. Exclusive(t)
  <2> SUFFICES ASSUME NEW i \in 1..n, NEW j \in 1..n, i # j, t[i].out # None
               PROVE  t[i].out \notin {t[j].out, t[j].err}
    BY <1>4 DEF Exclusive
  <2>1. Exclusive(calls) BY DEF HInv, Held
  <2>2. t[i].out = calls[i].out /\ t[j].out = calls[j].out /\ t[j].err = calls[j].err
    BY <1>5
  <2> QED BY <2>1, <2>2 DEF Exclusive
<1>9. Sink = Console \/ Sink \in DOMAIN files
  <2>1. capture \in {None, Goes(Top).to, stdout} /\ stdout = Goes(Top).fd
    BY DEF IInv, Leads, Top
  <2>2. Goes(Top).to \in DOMAIN files \cup {Console}
        /\ Goes(Top).fd \in DOMAIN files \cup {Console}
    BY TargetsExist DEF IInv, Leads, Top
  <2> QED BY <2>1, <2>2 DEF Sink
<1>10. /\ DOMAIN files' = DOMAIN files
       /\ \A x \in DOMAIN files : x # Sink => files'[x] = files[x]
       /\ Sink # Console => files'[Sink] = files[Sink] \o text
  <2>1. CASE Sink = Console BY <1>2, <2>1 DEF Write
  <2>2. CASE Sink # Console
    <3>1. files' = Put(Sink, files[Sink] \o text, files)
      BY <1>2, <2>2 DEF Write
    <3> QED BY <1>9, <2>2, <3>1 DEF Put
  <2> QED BY <2>1, <2>2
<1>11. TempsOwned(t, DOMAIN files)
  <2>1. TempsOwned(calls, DOMAIN files) BY DEF HInv, Held
  <2>2. ASSUME NEW x \in DOMAIN files \cap PipeFiles
        PROVE  x \notin Unopenable /\ \E i \in 1..Len(t) : Piping(t[i])
    BY <1>4, <1>6, <2>1 DEF TempsOwned
  <2>3. ASSUME NEW j \in DOMAIN CaptureFiles, CaptureFiles[j] \in DOMAIN files
        PROVE  j < Len(t) /\ t[j + 1].captured
    <3>1. j < n /\ calls[j + 1].captured BY <2>1, <2>3 DEF TempsOwned
    <3>2. j + 1 \in 1..n BY <1>1, <3>1, PlaceFacts
    <3> QED BY <1>4, <1>5, <3>1, <3>2
  <2> QED BY <2>2, <2>3 DEF TempsOwned
<1>12. ASSUME "capture" \notin mixed
       PROVE  Uncaptured(t) /\ CaptureOn(t, capture) /\ Holds(t, files')
  <2>1. Uncaptured(calls) /\ CaptureOn(calls, capture) /\ Holds(calls, files)
    BY <1>12 DEF HInv, Held
  <2>2. Uncaptured(t)
    <3>1. ASSUME NEW i \in 1..n, t[i].out # None \/ t[i].err # None
          PROVE  ~t[i].entry.captured
      BY <1>5, <2>1, <3>1 DEF Uncaptured
    <3>2. ASSUME NEW i \in 1..n - 1, t[i + 1].captured PROVE ~Goes(t[i]).captured
      <4>1. i \in 1..n /\ i + 1 \in 1..n BY <1>1
      <4> QED BY <1>5, <2>1, <3>2, <4>1 DEF Uncaptured
    <3> QED BY <1>4, <3>1, <3>2 DEF Uncaptured
  <2>3. CaptureOn(t, capture)
    <3>1. Last(t) = t[n] BY <1>4 DEF Last
    <3>2. Goes(Last(t)) = Goes(Top) BY <1>1, <1>5, <3>1
    <3> QED BY <2>1, <3>2 DEF CaptureOn, Top
  <2>4. Sink = to
    <3>1. CASE Goes(Top).captured
      <4>1. capture = to BY <2>1, <3>1 DEF CaptureOn, Top
      <4>2. to # None BY <1>1, PlaceFacts
      <4> QED BY <4>1, <4>2 DEF Sink
    <3>2. CASE ~Goes(Top).captured
      <4>1. Goes(Top).to = Goes(Top).fd
        BY <1>1, <1>3, <3>2 DEF Fits, Goes
      <4>2. capture \in {None, Goes(Top).to, stdout} /\ stdout = Goes(Top).fd
        BY DEF IInv, Leads, Top
      <4> QED BY <4>1, <4>2 DEF Sink
    <3> QED BY <3>1, <3>2
  <2>5. ASSUME NEW i \in 1..n, t[i].out # None PROVE HoldsOne(t[i], files')
    <3> DEFINE x == calls[i].out
    <3>1. x # None /\ t[i].out = x BY <1>5, <2>5
    <3>2. x \in DOMAIN files /\ x # Console
      <4>1. x \in DOMAIN files BY <3>1 DEF IInv, Leads, Present
      <4>2. DOMAIN files \subseteq Files \cup Temps
        BY DEF IInv, Streams, Disk
      <4> QED BY <4>1, <4>2, PlaceFacts
    <3>3. HoldsOne(calls[i], files) BY <2>1 DEF Holds
    <3>4. CASE x = to
      <4>1. t[i].said = calls[i].said \o text
        <5>1. i \in Owners BY <1>1, <3>1, <3>4 DEF Owners
        <5> QED BY <1>5, <5>1
      <4>2. files'[x] = files[x] \o text BY <1>10, <2>4, <3>2, <3>4
      <4>3. calls[i].said \in Seq(Values) /\ files[x] \in Seq(Values)
        BY <1>3, <3>2 DEF Frame, IInv, Streams, Disk
      <4>4. IsSuffix(calls[i].said, files[x]) BY <3>1, <3>3 DEF HoldsOne
      <4>5. IsSuffix(t[i].said, files'[t[i].out])
        <5> DEFINE a == calls[i].said
                   b == files[x]
        <5>1. a \in Seq(Values) /\ b \in Seq(Values) /\ IsSuffix(a, b)
          BY <4>3, <4>4
        <5>2. t[i].said = a \o text /\ files'[t[i].out] = b \o text
          BY <3>1, <4>1, <4>2
        <5> HIDE DEF a, b
        <5>3. IsSuffix(a \o text, b \o text) BY <5>1, SuffixGrows
        <5> QED BY <5>2, <5>3
      <4>6. t[i].seg = calls[i].seg /\ Segs(t[i]) = Segs(calls[i])
        BY <1>5
      <4> QED BY <3>1, <3>3, <4>1, <4>2, <4>5, <4>6 DEF HoldsOne
    <3>5. CASE x # to
      <4>1. t[i].said = calls[i].said
        <5>1. i \notin Owners BY <3>5 DEF Owners
        <5> QED BY <1>5, <5>1
      <4>2. files'[x] = files[x] BY <1>10, <2>4, <3>2, <3>5
      <4>3. t[i].seg = calls[i].seg /\ Segs(t[i]) = Segs(calls[i])
        BY <1>5
      <4> QED BY <3>1, <3>3, <4>1, <4>2, <4>3 DEF HoldsOne
    <3> QED BY <3>4, <3>5
  <2>6. Holds(t, files') BY <1>4, <2>5 DEF Holds, HoldsOne
  <2> QED BY <2>2, <2>3, <2>6
<1>13. HandedOn(Last(t), files', stdin')
  <2>1. Last(t) = t[n] /\ t[n].stage = "end"
    BY <1>1, <1>4, <1>5 DEF Last
  <2> QED BY <2>1 DEF HandedOn
<1>14. Held(t, files', capture, mixed, stdin')
  BY <1>7, <1>8, <1>10, <1>11, <1>12, <1>13 DEF Held
<1> QED BY <1>2, <1>14

(***************************************************************************)
(* Calls are made.                                                         *)
(***************************************************************************)
\* h is called by the top call, which is as g says.
LEMMA HeldPushed ==
    ASSUME IOAssumption, IInv, HInv, NEW g \in Frame, NEW h \in Frame,
           g.out = Top.out, g.err = Top.err, g.entry = Top.entry, g.said = Top.said,
           g.line = Top.line, g.part = Top.part, g.seg = Top.seg,
           Uses(g), h.out = None, h.err = None, Uses(h),
           NEW fs, FilesKept(Len(calls), fs),
           TempsOwned(Append(WithTop(g), h), DOMAIN fs), g.captured = Top.captured,
           NEW mx, mixed \subseteq mx, NEW cap, NEW inp,
           "capture" \notin mx => CaptureTop(h, cap) /\ (h.captured => ~Goes(Top).captured),
           HandedOn(h, fs, inp)
    PROVE  Held(Append(WithTop(g), h), fs, cap, mx, inp)
<1> DEFINE t == Append(WithTop(g), h)
           n == Len(calls)
<1>1. n \in Nat \ {0} /\ Top = calls[n] /\ n \in 1..n BY TopFacts
<1>2. /\ Len(t) = n + 1 /\ t[n] = g /\ t[n + 1] = h /\ Last(t) = h
      /\ \A i \in 1..n - 1 : t[i] = calls[i]
  <2>1. /\ Len(t) = n + 1 /\ t[n] = g /\ t[n + 1] = h /\ Last(t) = h
        /\ Below(t, n - 1)
    <3>1. g \in Frame /\ h \in Frame /\ IOAssumption /\ IInv OBVIOUS
    <3> QED BY ONLY <3>1, Pushed
  <2> HIDE DEF t
  <2> QED BY <2>1 DEF Below
<1>3. TempsOwned(t, DOMAIN fs) OBVIOUS
<1> HIDE DEF t
<1>4. /\ AllUse(calls) /\ Exclusive(calls)
      /\ "capture" \notin mixed => Uncaptured(calls) /\ Holds(calls, files)
  BY DEF HInv, Held
<1>5. Calm(t, fs)
  <2>1. ASSUME NEW i \in 1..n + 1 PROVE CalmAt(t, i, fs)
    <3>1. i = n + 1 \/ i = n \/ i \in 1..n - 1 BY <1>1
    <3>2. CASE i = n + 1 BY <1>2, <3>2 DEF CalmAt
    <3>3. CASE i = n
      <4>1. calls[i].out # None => fs[calls[i].out] = files[calls[i].out]
        BY <1>1, <3>3 DEF FilesKept
      <4> QED BY <1>1, <1>2, <3>3, <4>1 DEF CalmAt
    <3>4. CASE i \in 1..n - 1
      <4>1. t[i] = calls[i] /\ i \in 1..n BY <1>2, <3>4
      <4>2. calls[i].out # None => fs[calls[i].out] = files[calls[i].out]
        BY <4>1 DEF FilesKept
      <4> QED BY <4>1, <4>2 DEF CalmAt
    <3> QED BY <3>1, <3>2, <3>3, <3>4
  <2> QED BY <1>2, <2>1 DEF Calm
<1>6. AllUse(t)
  <2>1. ASSUME NEW i \in 1..n + 1 PROVE Uses(t[i])
    <3>1. i = n + 1 \/ i = n \/ i \in 1..n - 1 BY <1>1
    <3> QED BY <1>2, <1>4, <3>1 DEF AllUse
  <2> QED BY <1>2, <2>1 DEF AllUse
<1>7. Exclusive(t) BY <1>4, <1>5, CalmExclusive
<1>8. ASSUME "capture" \notin mx
      PROVE  Uncaptured(t) /\ CaptureOn(t, cap) /\ Holds(t, fs)
  <2>1. Uncaptured(calls) /\ Holds(calls, files) BY <1>4, <1>8
  <2>2. ASSUME NEW i \in 1..n, t[i + 1].captured PROVE ~Goes(t[i]).captured
    <3>1. i = n \/ (i \in 1..n - 1 /\ i + 1 \in 1..n - 1) \/ (i \in 1..n - 1 /\ i + 1 = n)
      BY <1>1
    <3>2. Goes(g) = Goes(Top) BY DEF Goes
    <3>3. CASE i = n BY <1>2, <1>8, <2>2, <3>2, <3>3
    <3>4. CASE i \in 1..n - 1 /\ i + 1 \in 1..n - 1
      BY <1>2, <2>1, <2>2, <3>4 DEF Uncaptured
    <3>5. CASE i \in 1..n - 1 /\ i + 1 = n
      <4>1. t[i] = calls[i] /\ calls[i + 1].captured
        BY <1>1, <1>2, <2>2, <3>5
      <4> QED BY <2>1, <3>5, <4>1 DEF Uncaptured
    <3> QED BY <3>1, <3>3, <3>4, <3>5
  <2>3. 1..Len(t) - 1 = 1..n BY <1>1, <1>2
  <2>4. \A i \in 1..Len(t) - 1 : t[i + 1].captured => ~Goes(t[i]).captured
    BY <2>2, <2>3
  <2>5. Uncaptured(t) BY <1>5, <2>1, <2>4, CalmUncaptured
  <2>6. Holds(t, fs) BY <1>5, <2>1, CalmHolds
  <2>7. CaptureOn(t, cap) BY <1>2, <1>8 DEF CaptureOn, CaptureTop
  <2> QED BY <2>5, <2>6, <2>7
<1>9. HandedOn(Last(t), fs, inp) BY <1>2
<1>10. Held(t, fs, cap, mx, inp)
  BY <1>3, <1>6, <1>7, <1>8, <1>9 DEF Held
<1> QED BY <1>10 DEF t

\* Its file is there for a $( ... ), if that is what it is.
LEMMA OwnedPushed ==
    ASSUME IOAssumption, IInv, HInv, NEW g \in Frame, NEW h \in Frame,
           g.captured = Top.captured, Piping(Top) => Piping(g),
           NEW fs,
           \A x \in fs \ DOMAIN files :
              h.captured /\ Len(calls) \in DOMAIN CaptureFiles /\ x = CaptureFiles[Len(calls)]
    PROVE  TempsOwned(Append(WithTop(g), h), fs)
<1> DEFINE t == Append(WithTop(g), h)
           n == Len(calls)
<1>1. n \in Nat \ {0} /\ Top = calls[n] /\ n \in 1..n BY TopFacts
<1>2. /\ Len(t) = n + 1 /\ t[n] = g /\ t[n + 1] = h
      /\ \A i \in 1..n - 1 : t[i] = calls[i]
  <2>1. /\ Len(t) = n + 1 /\ t[n] = g /\ t[n + 1] = h /\ Last(t) = h
        /\ Below(t, n - 1)
    <3>1. g \in Frame /\ h \in Frame /\ IOAssumption /\ IInv OBVIOUS
    <3> QED BY ONLY <3>1, Pushed
  <2> HIDE DEF t
  <2> QED BY <2>1 DEF Below
<1>3. TempsOwned(calls, DOMAIN files) BY DEF HInv, Held
<1> HIDE DEF t
<1>4. ASSUME NEW x \in fs \cap PipeFiles
      PROVE  x \notin Unopenable /\ \E i \in 1..Len(t) : Piping(t[i])
  <2>1. x \in DOMAIN files BY PlaceFacts
  <2>2. PICK i \in 1..n : Piping(calls[i]) BY <1>3, <2>1 DEF TempsOwned
  <2>3. i \in 1..Len(t) /\ Piping(t[i])
    <3>1. i = n \/ i \in 1..n - 1 BY <1>1
    <3> QED BY <1>1, <1>2, <2>2, <3>1
  <2> QED BY <1>3, <2>1, <2>3 DEF TempsOwned
<1>5. ASSUME NEW j \in DOMAIN CaptureFiles, CaptureFiles[j] \in fs
      PROVE  j < Len(t) /\ t[j + 1].captured
  <2>1. CASE CaptureFiles[j] \in DOMAIN files
    <3>1. j < n /\ calls[j + 1].captured BY <1>3, <2>1 DEF TempsOwned
    <3>2. j \in Nat /\ (j + 1 = n \/ j + 1 \in 1..n - 1)
      BY <1>1, <3>1, PlaceFacts
    <3> QED BY <1>1, <1>2, <3>1, <3>2
  <2>2. CASE CaptureFiles[j] \notin DOMAIN files
    <3>1. h.captured /\ n \in DOMAIN CaptureFiles /\ CaptureFiles[j] = CaptureFiles[n]
      BY <1>5, <2>2
    <3>2. j = n BY <3>1, PlaceFacts
    <3> QED BY <1>1, <1>2, <3>1, <3>2
  <2> QED BY <2>1, <2>2
<1>6. TempsOwned(t, fs) BY <1>4, <1>5 DEF TempsOwned
<1> QED BY <1>6 DEF t

LEMMA NewFrameIdle ==
    ASSUME IOAssumption, NEW l, NEW e, NEW c
    PROVE  LET h == NewFrame(l, e, c)
           IN  h.out = None /\ h.err = None /\ Uses(h) /\ \A fs, inp : HandedOn(h, fs, inp)
<1> DEFINE h == NewFrame(l, e, c)
<1>1. h.stage = "part" /\ h.out = None /\ h.err = None /\ h.in = None
  BY DEF NewFrame
<1> HIDE DEF h
<1>2. Uses(h)
  <2>1. h.stage \in {"part", "seg", "next"} BY <1>1
  <2> QED BY <1>1, <2>1, IdleUses
<1>3. \A fs, inp : HandedOn(h, fs, inp) BY <1>1 DEF HandedOn
<1> QED BY <1>1, <1>2, <1>3 DEF h

LEMMA CallFunctionHeld ==
    ASSUME IOAssumption, IInv, HInv, CallFunction
    PROVE  Held(calls', files', capture', mixed', stdin')
<1> DEFINE g == [Top EXCEPT !.stage = "call"]
           e == Goes(Top)
           h == NewFrame(TheSeg.cmd.line, e, FALSE)
<1>1. Top \in Frame /\ Fits(Top) /\ Top.stage = "run" /\ TheSeg \in Segment
  BY TopFacts DEF CallFunction, At
<1>2. /\ g \in Frame /\ g.stage = "call" /\ g.line = Top.line /\ g.part = Top.part
      /\ g.seg = Top.seg /\ g.out = Top.out /\ g.err = Top.err /\ g.in = Top.in
      /\ g.captured = Top.captured /\ g.entry = Top.entry /\ g.said = Top.said
  BY <1>1 DEF Frame
<1> HIDE DEF g
<1>3. e \in [to : Places, captured : BOOLEAN, fd : Places] BY TopFacts
<1>4. ~e.captured => e.to = e.fd BY <1>1 DEF Fits, Goes
<1>5. TheSeg.cmd.line \in Lines
  <2>1. TheSeg.cmd \in Cmd BY <1>1 DEF Segment
  <2>2. TheSeg.cmd.k = "call" BY DEF CallFunction
  <2> QED BY <2>1, <2>2 DEF Cmd
<1>6. /\ h \in GoodFrames /\ h.out = None /\ h.captured = FALSE
      /\ h.entry = e /\ Goes(h) = e
  <2> HIDE DEF e
  <2>1. NewRight(NewFrame(TheSeg.cmd.line, e, FALSE), e, FALSE)
    BY <1>3, <1>4, <1>5, FALSE \in BOOLEAN, NewFrameGood
  <2> QED BY <2>1 DEF NewRight
<1>7. h.out = None /\ h.err = None /\ Uses(h) /\ \A fs, inp : HandedOn(h, fs, inp)
  BY NewFrameIdle
<1> HIDE DEF h
<1>8. h \in Frame BY <1>6 DEF GoodFrames
<1>9. Segs(g) = Segs(Top) /\ (Piping(g) <=> Piping(Top))
  BY <1>1, <1>2 DEF Segs, Piping
<1>10. Uses(g)
  <2>1. Uses(Top) BY TopUses
  <2> QED BY <1>1, <1>2, <1>9, <2>1 DEF Uses
<1>11. FilesKept(Len(calls), files) BY AllKept
<1>12. TempsOwned(Append(WithTop(g), h), DOMAIN files)
  <2>1. \A x \in DOMAIN files \ DOMAIN files :
           h.captured /\ Len(calls) \in DOMAIN CaptureFiles /\ x = CaptureFiles[Len(calls)]
    OBVIOUS
  <2> QED BY <1>2, <1>8, <1>9, <2>1, OwnedPushed
<1>13. "capture" \notin mixed => CaptureTop(h, capture) /\ (h.captured => ~Goes(Top).captured)
  BY <1>6 DEF HInv, Held, CaptureOn, CaptureTop, Top
<1>14. HandedOn(h, files, stdin) BY <1>7
<1>15. Held(Append(WithTop(g), h), files, capture, mixed, stdin)
  BY <1>2, <1>7, <1>8, <1>10, <1>11, <1>12, <1>13, <1>14, HeldPushed
<1> QED BY <1>15 DEF CallFunction, g, h, e

LEMMA SubstituteHeld ==
    ASSUME IOAssumption, IInv, HInv, Substitute
    PROVE  Held(calls', files', capture', mixed', stdin')
<1> DEFINE g == [Top EXCEPT !.stage = "subst"]
           n == Len(calls)
           f == CaptureFiles[n]
           e == [to |-> f, captured |-> TRUE, fd |-> stdout]
           h == NewFrame(ThePart.subst, e, TRUE)
           fs == Opened(f, FALSE, files)
           mx == IF Goes(Top).captured THEN mixed \cup {"capture"} ELSE mixed
<1>1. /\ Top \in Frame /\ Fits(Top) /\ Top.stage = "part" /\ Top.seg = 1
      /\ ThePart \in Part /\ stdout \in Places /\ n \in Nat \ {0}
  BY TopFacts DEF Substitute, At
<1>2. /\ g \in Frame /\ g.stage = "subst" /\ g.line = Top.line /\ g.part = Top.part
      /\ g.seg = Top.seg /\ g.out = Top.out /\ g.err = Top.err /\ g.in = Top.in
      /\ g.captured = Top.captured /\ g.entry = Top.entry /\ g.said = Top.said
  BY <1>1 DEF Frame
<1> HIDE DEF g
<1>3. /\ n \in DOMAIN CaptureFiles /\ f \in Places
      /\ f \notin Files \cup PipeFiles /\ f # None
  <2>1. n <= Len(CaptureFiles) BY DEF Substitute
  <2>2. n \in DOMAIN CaptureFiles BY <1>1, <2>1, PlaceFacts
  <2> QED BY <2>2, PlaceFacts
<1>4. /\ calls' = Append(WithTop(g), h) /\ files' = fs /\ capture' = f /\ mixed' = mx
      /\ stdin' = stdin
  BY DEF Substitute, g
<1>5. e \in [to : Places, captured : BOOLEAN, fd : Places] /\ e.captured /\ e.to = f
  BY <1>1, <1>3
<1>6. ThePart.subst \in Lines BY <1>1 DEF Substitute, Part
<1> HIDE DEF e
<1>7. /\ h \in GoodFrames /\ h.captured = TRUE /\ h.entry = e /\ Goes(h) = e
  <2>1. NewRight(NewFrame(ThePart.subst, e, TRUE), e, TRUE)
    BY <1>5, <1>6, TRUE \in BOOLEAN, NewFrameGood
  <2> QED BY <2>1 DEF NewRight
<1>8. h.out = None /\ h.err = None /\ Uses(h) /\ \A gs, inp : HandedOn(h, gs, inp)
  BY NewFrameIdle
<1> HIDE DEF h
<1>9. h \in Frame BY <1>7 DEF GoodFrames
<1>10. g.out = None /\ g.err = None /\ g.in = None
  BY <1>1, <1>2 DEF Fits, Idle
<1>11. Uses(g)
  <2>1. None \notin PipeFiles BY PlaceFacts
  <2> QED BY <1>1, <1>2, <1>10, <2>1 DEF Uses
<1>12. /\ \A x \in DOMAIN files : x # f => fs[x] = files[x]
       /\ DOMAIN fs = DOMAIN files \cup {f}
  <2>1. \A x \in DOMAIN files : x # f => fs[x] = files[x]
    <3> HIDE DEF f
    <3>1. ASSUME NEW x \in DOMAIN files, x # f PROVE Opened(f, FALSE, files)[x] = files[x]
      BY ONLY <3>1, OpenedAt
    <3> QED BY <3>1
  <2> HIDE DEF f
  <2>2. DOMAIN Opened(f, FALSE, files) = DOMAIN files \cup {f}
    BY <1>3, OpenedEmpty
  <2> QED BY <2>1, <2>2
<1> HIDE DEF fs
<1>13. FilesKept(n, fs)
  <2> SUFFICES ASSUME NEW i \in 1..n, calls[i].out # None
               PROVE  fs[calls[i].out] = files[calls[i].out]
    BY DEF FilesKept
  <2>1. calls[i].out \in DOMAIN files BY DEF IInv, Leads, Present
  <2>2. calls[i] \in GoodFrames BY TopFacts, ElementOfSeq
  <2>3. calls[i].out \in Files \cup PipeFiles
    BY <2>2 DEF GoodFrames, Fits
  <2> QED BY <1>3, <1>12, <2>1, <2>3
<1>14. TempsOwned(Append(WithTop(g), h), DOMAIN fs)
  <2>1. \A x \in DOMAIN fs \ DOMAIN files :
           h.captured /\ Len(calls) \in DOMAIN CaptureFiles /\ x = CaptureFiles[Len(calls)]
    BY <1>3, <1>7, <1>12
  <2>2. Piping(Top) => Piping(g) BY <1>1 DEF Piping
  <2> QED BY <1>2, <1>9, <2>1, <2>2, OwnedPushed
<1>15. mixed \subseteq mx /\ ("capture" \notin mx => ~Goes(Top).captured)
  OBVIOUS
<1> HIDE DEF mx
<1>16. "capture" \notin mx => CaptureTop(h, f) /\ (h.captured => ~Goes(Top).captured)
  BY <1>5, <1>7, <1>15 DEF CaptureTop
<1>17. HandedOn(h, fs, stdin) BY <1>8
<1> HIDE DEF f
<1>18. Held(Append(WithTop(g), h), fs, f, mx, stdin)
  BY <1>2, <1>8, <1>9, <1>11, <1>13, <1>14, <1>15, <1>16, <1>17, HeldPushed
<1> QED BY <1>4, <1>18

(***************************************************************************)
(* Calls return.                                                           *)
(***************************************************************************)
LEMMA HeldReturned ==
    ASSUME IOAssumption, IInv, HInv, Len(calls) > 1, NEW g \in Frame,
           g.captured = Caller.captured, Uses(g),
           NEW fs, Same(Caller, g, fs), FilesKept(Len(calls) - 2, fs), TempsOwned(Returned(g), DOMAIN fs),
           NEW mx, mixed \subseteq mx, NEW cap, NEW inp,
           "capture" \notin mx => CaptureTop(g, cap),
           HandedOn(g, fs, inp)
    PROVE  Held(Returned(g), fs, cap, mx, inp)
<1> DEFINE t == Returned(g)
<1>1. Len(calls) \in Nat \ {0} /\ Caller = calls[Len(calls) - 1]
  BY TopFacts, CallerFacts
<1>2. PICK m \in Nat : Len(calls) = m + 2 /\ m = Len(calls) - 2 /\ m + 1 = Len(calls) - 1
  <2>1. PICK k \in Nat : k = Len(calls) /\ k > 1 BY <1>1
  <2>2. k - 2 \in Nat /\ k = (k - 2) + 2 /\ (k - 2) + 1 = k - 1 BY <2>1
  <2> QED BY <2>1, <2>2
<1>3. /\ Len(t) = m + 1 /\ t[m + 1] = g /\ Last(t) = g /\ Below(t, m)
      /\ FilesKept(m, fs) /\ Same(calls[m + 1], g, fs) /\ TempsOwned(t, DOMAIN fs)
  BY <1>1, <1>2, Popped
<1> HIDE DEF t
<1>4. m + 1 =< Len(calls) /\ m =< Len(calls) /\ Len(calls) \in Nat
  BY <1>2
<1>5. Calm(t, fs) BY <1>3, <1>4, CalmTop
<1>6. "capture" \notin mx => CaptureTop(g, cap) /\
              (m > 0 /\ g.captured => ~Goes(calls[m]).captured)
  <2>1. ASSUME "capture" \notin mx, m > 0, g.captured PROVE ~Goes(calls[m]).captured
    <3>1. Uncaptured(calls) BY <2>1 DEF HInv, Held
    <3>2. m \in 1..Len(calls) - 1 /\ calls[m + 1].captured
      BY <1>1, <1>2, <2>1
    <3> QED BY <3>1, <3>2 DEF Uncaptured
  <2> QED BY <2>1
<1>7. Held(t, fs, cap, mx, inp) BY <1>3, <1>4, <1>5, <1>6, HeldOn
<1> QED BY <1>7 DEF t

LEMMA OwnedReturned ==
    ASSUME IOAssumption, IInv, HInv, Len(calls) > 1, Top.stage = "part", NEW g \in Frame,
           g.captured = Caller.captured, Piping(Caller) => Piping(g),
           NEW fs, fs \subseteq DOMAIN files,
           Top.captured => CaptureFiles[Len(calls) - 1] \notin fs
    PROVE  TempsOwned(Returned(g), fs)
<1> DEFINE t == Returned(g)
           n == Len(calls)
<1>1. n \in Nat \ {0} /\ n > 1 /\ Top = calls[n] /\ Caller = calls[n - 1]
  BY TopFacts, CallerFacts
<1>2. Len(t) = n - 1 /\ t[n - 1] = g /\ \A i \in 1..n - 2 : t[i] = calls[i]
  <2>1. Len(t) = n - 1 /\ t[n - 1] = g /\ Below(t, n - 2) BY Popped
  <2> HIDE DEF t
  <2> QED BY <2>1 DEF Below
<1>3. TempsOwned(calls, DOMAIN files) BY DEF HInv, Held
<1> HIDE DEF t
<1>4. ASSUME NEW x \in fs \cap PipeFiles
      PROVE  x \notin Unopenable /\ \E i \in 1..Len(t) : Piping(t[i])
  <2>1. PICK i \in 1..n : Piping(calls[i]) BY <1>3 DEF TempsOwned
  <2>2. i # n BY <1>1, <2>1 DEF Piping
  <2>3. i = n - 1 \/ i \in 1..n - 2 BY <1>1, <2>2
  <2>4. i \in 1..Len(t) BY <1>1, <1>2, <2>2
  <2>5. Piping(t[i]) BY <1>1, <1>2, <2>1, <2>3
  <2> QED BY <1>3, <2>4, <2>5 DEF TempsOwned
<1>5. ASSUME NEW j \in DOMAIN CaptureFiles, CaptureFiles[j] \in fs
      PROVE  j < Len(t) /\ t[j + 1].captured
  <2>1. j < n /\ calls[j + 1].captured /\ j \in Nat
    BY <1>3, <1>5, PlaceFacts DEF TempsOwned
  <2>2. j # n - 1
    <3>1. ASSUME j = n - 1 PROVE FALSE
      <4>1. j + 1 = n BY <1>1, <3>1
      <4>2. Top.captured BY <1>1, <2>1, <4>1
      <4> QED BY <1>5, <3>1, <4>2
    <3> QED BY <3>1
  <2>3. j < n - 1 /\ (j + 1 = n - 1 \/ j + 1 \in 1..n - 2)
    BY <1>1, <2>1, <2>2
  <2> QED BY <1>1, <1>2, <2>1, <2>3
<1>6. TempsOwned(t, fs) BY <1>4, <1>5 DEF TempsOwned
<1> QED BY <1>6 DEF t

\* The caller is one that has what Uses says.
LEMMA CallerUses ==
    ASSUME IOAssumption, IInv, HInv, Len(calls) > 1
    PROVE  Uses(Caller)
<1>1. Len(calls) - 1 \in 1..Len(calls) /\ Caller = calls[Len(calls) - 1]
  BY CallerFacts
<1> QED BY <1>1 DEF HInv, Held, AllUse

LEMMA FunctionEndsHeld ==
    ASSUME IOAssumption, IInv, HInv, FunctionEnds
    PROVE  Held(calls', files', capture', mixed', stdin')
<1> DEFINE g == [Caller EXCEPT !.stage = "end"]
           n == Len(calls) - 1
<1>1. /\ Top \in Frame /\ Fits(Top) /\ Top.stage = "part" /\ ~Top.captured
      /\ Len(calls) > 1
  BY TopFacts DEF FunctionEnds, At
<1>2. /\ n \in 1..Len(calls) /\ Caller \in Frame /\ Fits(Caller)
      /\ Caller = calls[n] /\ Calls(Caller, Top, n)
  BY <1>1, CallerFacts
<1>3. Caller.stage = "call" /\ Top.entry = Goes(Caller)
  BY <1>1, <1>2 DEF Calls
<1>4. /\ g \in Frame /\ g.stage = "end" /\ g.line = Caller.line /\ g.part = Caller.part
      /\ g.seg = Caller.seg /\ g.out = Caller.out /\ g.err = Caller.err /\ g.said = Caller.said
      /\ g.in = Caller.in /\ g.captured = Caller.captured /\ g.entry = Caller.entry
  BY <1>2 DEF Frame
<1> HIDE DEF g
<1>5. Goes(g) = Goes(Top)
  <2>1. Goes(Top) = Top.entry BY <1>1 DEF Fits, Idle, Goes
  <2>2. Goes(g) = Goes(Caller) BY <1>4 DEF Goes
  <2> QED BY <1>3, <2>1, <2>2
<1>6. Segs(g) = Segs(Caller) /\ (Piping(g) <=> Piping(Caller))
  BY <1>3, <1>4 DEF Segs, Piping
<1>7. Uses(g)
  <2>1. Uses(Caller) BY <1>1, CallerUses
  <2> QED BY <1>3, <1>4, <1>6, <2>1 DEF Uses
<1>8. Same(Caller, g, files) /\ FilesKept(Len(calls) - 2, files)
  BY <1>4, AllKept DEF Same
<1>9. TempsOwned(Returned(g), DOMAIN files)
  BY <1>1, <1>4, <1>6, OwnedReturned
<1>10. "capture" \notin mixed => CaptureTop(g, capture)
  BY <1>5 DEF HInv, Held, CaptureOn, CaptureTop, Top
<1>11. HandedOn(g, files, stdin) BY <1>4 DEF HandedOn
<1>12. Held(Returned(g), files, capture, mixed, stdin)
  BY <1>1, <1>4, <1>7, <1>8, <1>9, <1>10, <1>11, HeldReturned
<1> QED BY <1>12 DEF FunctionEnds, g

LEMMA CaptureEndsHeld ==
    ASSUME IOAssumption, IInv, HInv, CaptureEnds
    PROVE  Held(calls', files', capture', mixed', stdin')
<1> DEFINE f == Top.entry.to
           g == [Caller EXCEPT !.value = files[f], !.stage = "seg"]
           n == Len(calls) - 1
           fs == Without(files, {f})
<1>1. Top \in Frame /\ Fits(Top) /\ Top.stage = "part" /\ Top.captured
  BY TopFacts DEF CaptureEnds, At
<1>2. /\ Len(calls) > 1 /\ n \in 1..Len(calls) /\ n \in 1..Len(calls) - 1
      /\ Len(calls) \in Nat /\ n + 1 = Len(calls)
      /\ Caller \in Frame /\ Fits(Caller) /\ Caller = calls[n] /\ Calls(Caller, Top, n)
  <2>1. /\ Len(calls) > 1 /\ n \in 1..Len(calls)
        /\ Caller \in Frame /\ Fits(Caller) /\ Caller = calls[n] /\ Calls(Caller, Top, n)
    BY <1>1, CallerFacts
  <2>2. Len(calls) \in Nat BY TopFacts
  <2> QED BY <2>1, <2>2
<1>3. Caller.stage = "subst" /\ n \in DOMAIN CaptureFiles /\ f = CaptureFiles[n]
  BY <1>1, <1>2, PlaceFacts DEF Calls
<1>4. f \in DOMAIN files /\ f \notin Files \cup PipeFiles
  <2>1. Top = calls[n + 1] BY <1>2, TopFacts
  <2>2. f \in DOMAIN files
    BY <1>1, <1>2, <1>3, <2>1 DEF IInv, Leads, Present
  <2> QED BY <1>3, <2>2, PlaceFacts
<1>5. files[f] \in Seq(Values) BY <1>4 DEF IInv, Streams, Disk
<1>6. calls' = Returned(g) /\ files' = fs /\ capture' = None /\ mixed' = mixed /\ stdin' = stdin
  BY DEF CaptureEnds
<1> HIDE DEF f
<1>7. /\ g \in Frame /\ g.stage = "seg" /\ g.line = Caller.line /\ g.part = Caller.part
      /\ g.seg = Caller.seg /\ g.out = Caller.out /\ g.err = Caller.err
      /\ g.in = Caller.in /\ g.captured = Caller.captured /\ g.entry = Caller.entry
  BY <1>2, <1>5 DEF Frame
<1> HIDE DEF g
<1>8. /\ g.out = None /\ g.err = None /\ g.in = None
      /\ Goes(g) = Caller.entry /\ Goes(Caller) = Caller.entry /\ Segs(g) = Segs(Caller)
  BY <1>2, <1>3, <1>7 DEF Fits, Idle, Goes, Segs
<1>9. Uses(g)
  <2>1. g.stage \in {"part", "seg", "next"} /\ g.out = None /\ g.err = None /\ g.in = None
    BY <1>7, <1>8
  <2> QED BY <2>1, IdleUses
<1>10. DOMAIN fs = DOMAIN files \ {f} /\ \A x \in DOMAIN files : x # f => fs[x] = files[x]
  BY DEF Without
<1> HIDE DEF fs
<1>11. Same(Caller, g, fs) BY <1>8 DEF Same
<1>12. FilesKept(Len(calls) - 2, fs)
  <2> SUFFICES ASSUME NEW i \in 1..Len(calls) - 2, calls[i].out # None
               PROVE  fs[calls[i].out] = files[calls[i].out]
    BY DEF FilesKept
  <2>1. i \in 1..Len(calls) BY <1>2
  <2>2. calls[i].out \in DOMAIN files BY <2>1 DEF IInv, Leads, Present
  <2>3. calls[i] \in GoodFrames BY <2>1, TopFacts, ElementOfSeq
  <2>4. calls[i].out \in Files \cup PipeFiles
    BY <2>3 DEF GoodFrames, Fits
  <2> QED BY <1>4, <1>10, <2>2, <2>4
<1>13. TempsOwned(Returned(g), DOMAIN fs)
  <2>1. Piping(Caller) => Piping(g) BY <1>7, <1>8 DEF Piping
  <2>2. CaptureFiles[Len(calls) - 1] \notin DOMAIN fs BY <1>3, <1>10
  <2>3. DOMAIN fs \subseteq DOMAIN files BY <1>10
  <2> QED BY <1>1, <1>2, <1>7, <2>1, <2>2, <2>3, OwnedReturned
<1>14. "capture" \notin mixed => CaptureTop(g, None)
  <2>1. ASSUME "capture" \notin mixed PROVE ~Goes(g).captured
    <3>1. Uncaptured(calls) BY <2>1 DEF HInv, Held
    <3>2. calls[n + 1].captured BY <1>1, <1>2, TopFacts
    <3>3. ~Goes(calls[n]).captured BY <1>2, <3>1, <3>2 DEF Uncaptured
    <3> QED BY <1>2, <1>8, <3>3
  <2> QED BY <2>1 DEF CaptureTop
<1>15. HandedOn(g, fs, stdin)
  <2>1. Uses(Caller) BY <1>2, CallerUses
  <2>2. g.seg = 1 BY <1>3, <1>7, <2>1 DEF Uses
  <2> QED BY <1>7, <2>2 DEF HandedOn
<1>16. Held(Returned(g), fs, None, mixed, stdin)
  BY <1>2, <1>7, <1>9, <1>11, <1>12, <1>13, <1>14, <1>15, HeldReturned
<1> QED BY <1>6, <1>16

LEMMA InitHeld == ASSUME IOAssumption, Init PROVE HInv
<1> DEFINE e == [to |-> Console, captured |-> FALSE, fd |-> Console]
           f == NewFrame(Main, e, FALSE)
<1>1. calls = <<f>> /\ capture = None /\ files = Contents /\ mixed = {}
  BY DEF Init
<1>2. /\ f.out = None /\ f.err = None /\ Uses(f) /\ \A fs, inp : HandedOn(f, fs, inp)
  BY NewFrameIdle
<1>3. f.entry = e /\ ~e.captured BY DEF NewFrame
<1> HIDE DEF e
<1> HIDE DEF f
<1>4. Len(calls) = 1 /\ calls[1] = f /\ Last(calls) = f BY <1>1 DEF Last
<1>5. AllUse(calls) /\ Exclusive(calls) /\ HandedOn(Last(calls), files, stdin)
  BY <1>2, <1>4 DEF AllUse, Exclusive
<1>6. Uncaptured(calls) /\ CaptureOn(calls, capture) /\ Holds(calls, files)
  <2>1. Goes(f) = e BY <1>2, <1>3 DEF Goes
  <2>2. Uncaptured(calls) BY <1>2, <1>4 DEF Uncaptured
  <2>3. CaptureOn(calls, capture) BY <1>3, <1>4, <2>1 DEF CaptureOn
  <2>4. Holds(calls, files) BY <1>2, <1>4 DEF Holds, HoldsOne
  <2> QED BY <2>2, <2>3, <2>4
<1>7. TempsOwned(calls, DOMAIN files)
  <2>1. DOMAIN files \cap Temps = {} BY <1>1 DEF IOAssumption
  <2>2. \A j \in DOMAIN CaptureFiles : CaptureFiles[j] \in Temps
    BY PlaceFacts
  <2>3. PipeFiles \subseteq Temps BY PlaceFacts
  <2> QED BY <2>1, <2>2, <2>3 DEF TempsOwned
<1> QED BY <1>5, <1>6, <1>7 DEF HInv, Held

LEMMA StepHeld == ASSUME IOAssumption, IInv, HInv, [Next]_vars PROVE HInv'
<1>1. Held(calls', files', capture', mixed', stdin') /\ prog' = prog
  <2>1. prog' = prog
    <3>1. CASE UNCHANGED vars BY <3>1 DEF vars
    <3>2. CASE Next
      BY <3>2 DEF Next, Done, Substitute, NoSubstitution, CaptureEnds, StartSegment, SegmentFails,
         EndSegment, Ended, NextSegment, PartEnds, Say, Echo, Cat, Says, CallFunction,
         FunctionEnds, vars
    <3> QED BY <3>1, <3>2
  <2>2. CASE UNCHANGED vars BY <2>1, <2>2 DEF vars, HInv
  <2>3. CASE Next
    <3>1. CASE Done BY <2>2, <3>1 DEF Done
    <3>2. CASE Say \/ Echo \/ Cat
      <4>1. CASE Say
        <5>1. TheSeg \in Segment /\ TheSeg.cmd.k = "say"
          BY <4>1, TopFacts DEF Say, At
        <5>2. TheSeg.cmd.v \in Values BY <5>1 DEF Segment, Cmd
        <5>3. <<TheSeg.cmd.v>> \in Seq(Values) /\ At("run") /\ Says(<<TheSeg.cmd.v>>)
          BY <4>1, <5>2 DEF Say
        <5> QED BY <2>1, <5>3, SaysHeld
      <4>2. CASE Echo
        <5>1. Top.value \in Seq(Values) BY TopFacts DEF Frame
        <5>2. At("run") /\ Says(Top.value) BY <4>2 DEF Echo
        <5> QED BY <2>1, <5>1, <5>2, SaysHeld
      <4>3. CASE Cat
        <5>1. stdin.rest \in Seq(Values) BY DEF IInv, Streams, Input
        <5>2. At("run") /\ Says(stdin.rest) BY <4>3 DEF Cat
        <5> QED BY <2>1, <5>1, <5>2, SaysHeld
      <4> QED BY <3>2, <4>1, <4>2, <4>3
    <3>3. CASE ~Done /\ ~(Say \/ Echo \/ Cat)
      <4>1. Held(calls', files', capture', mixed', stdin')
        BY <2>3, <3>3, SubstituteHeld, NoSubstitutionHeld, CaptureEndsHeld,
           StartSegmentHeld, SegmentFailsHeld, EndSegmentHeld, NextSegmentHeld,
           PartEndsHeld, CallFunctionHeld, FunctionEndsHeld, Zenon DEF Next
      <4> QED BY <2>1, <4>1
    <3> QED BY <3>1, <3>2, <3>3
  <2> QED BY <2>2, <2>3
<1>2. HInv'
  <2>1. HInv' <=> Held(calls, files, capture, mixed, stdin)' BY DEF HInv
  <2>2. Held(calls, files, capture, mixed, stdin)'
    BY <1>1 DEF Held, AllUse, Uses, Piping, Segs, TempsOwned, Holds, HoldsOne, HandedOn,
       Uncaptured, CaptureOn, Exclusive
  <2> QED BY <2>1, <2>2
<1> QED BY <1>2

\* For every program, every nesting and whatever cannot be opened: nobody
\* writes to the file of a redirection but what is printed under it, a
\* pipeline hands on what was printed, and no temporary file is left.
THEOREM FilesHoldWhatWasSent == Spec => []FilesHold
<1> DEFINE Both == IInv /\ HInv
<1>1. Init => Both BY InitInv, InitHeld, IOAssumption
<1>2. Both /\ [Next]_vars => Both' BY StepInv, StepHeld, IOAssumption
<1>3. Both => FilesHold
  <2> SUFFICES ASSUME IInv, HInv PROVE FilesHold OBVIOUS
  <2>1. /\ Len(calls) \in Nat \ {0} /\ Top = calls[Len(calls)] /\ calls \in Seq(GoodFrames)
        /\ DOMAIN calls = 1..Len(calls)
    BY TopFacts, IOAssumption
  <2>2. RedirectHolds
    <3> SUFFICES ASSUME "capture" \notin mixed, NEW i \in DOMAIN calls, calls[i].out # None
                 PROVE  /\ IsSuffix(calls[i].said, files[calls[i].out])
                        /\ (calls[i].seg < Len(Segs(calls[i]))
                              \/ ~Segs(calls[i])[calls[i].seg].append)
                             => files[calls[i].out] = calls[i].said
      BY DEF RedirectHolds, Segs
    <3>1. HoldsOne(calls[i], files) BY <2>1 DEF HInv, Held, Holds
    <3> QED BY <3>1 DEF HoldsOne
  <2>3. PipeCarries
    BY <2>1 DEF PipeCarries, HInv, Held, HandedOn, Top, At
  <2>4. NoTempsLeft
    <3> SUFFICES ASSUME Over, NEW x \in DOMAIN files \cap Temps PROVE FALSE
      BY DEF NoTempsLeft
    <3>1. TempsOwned(calls, DOMAIN files) BY DEF HInv, Held
    <3>2. Len(calls) = 1 /\ ~Piping(calls[1]) /\ ~calls[1].captured
      BY <2>1 DEF Over, At, Piping, IInv, Leads, StackOK, Linked
    <3>3. x \in PipeFiles \/ \E j \in DOMAIN CaptureFiles : x = CaptureFiles[j]
      BY DEF Temps, PipeFiles, Range
    <3>4. CASE x \in PipeFiles
      <4>1. PICK i \in 1..Len(calls) : Piping(calls[i])
        BY <3>1, <3>4 DEF TempsOwned
      <4> QED BY <3>2, <4>1
    <3>5. ASSUME NEW j \in DOMAIN CaptureFiles, x = CaptureFiles[j] PROVE FALSE
      <4>1. j < Len(calls) /\ j \in Nat \ {0}
        BY <3>1, <3>5, PlaceFacts, IOAssumption DEF TempsOwned
      <4> QED BY <3>2, <4>1
    <3> QED BY <3>3, <3>4, <3>5
  <2> QED BY <2>2, <2>3, <2>4 DEF FilesHold
<1> QED BY <1>1, <1>2, <1>3, PTL DEF Spec

=============================================================================
