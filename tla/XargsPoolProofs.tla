--------------------------- MODULE XargsPoolProofs ---------------------------
(***************************************************************************)
(* Proofs about XargsPool, for every input, setting, exit status and order *)
(* in which children end: types, the process slots, the limits of command  *)
(* lines, the delivery of the input, and that the exit status is true.     *)
(***************************************************************************)
EXTENDS XargsPool, SeqFacts, SequenceTheorems, TLAPS

(***************************************************************************)
(* Type correctness.  The position within the group and the group itself   *)
(* are in range because of where the program is.                           *)
(***************************************************************************)
Control ==
    /\ pc = "begin" => g = 0
    /\ InGroup => g \in 1..Len(input)
    /\ pc = "held" => pos < Len(input[g])
    /\ pc \in {"run", "throttle"} /\ site = "overflow" => pos < Len(input[g])

TInv == TypeOK /\ Control

LEMMA TInvInit == Init => TInv
<1> SUFFICES ASSUME Init PROVE TInv OBVIOUS
<1>1. input \in Seq(Seq(Items)) BY ItemsAssumption DEF Init
<1>2. Len(input) \in Nat /\ <<>> \in Seq(Items) /\ <<>> \in Seq(Nat)
      /\ <<>> \in Seq(Child) /\ <<>> \in Seq(DOMAIN children)
  BY <1>1, EmptySeq, LenProperties
<1>3. opts \in Settings BY OptionsAssumption DEF Init
<1>4. pos \in 0..(IF g = 0 THEN 0 ELSE Len(input[g])) BY DEF Init
<1>5. TypeOK
  <2>1. /\ batch \in Seq(Items) /\ freeSlots \in Seq(Nat)
        /\ children \in Seq(Child) /\ running \in Seq(DOMAIN children)
        /\ handled \in Seq(Items)
    BY <1>2, Zenon DEF Init
  <2>2. /\ pc = "begin" /\ site = "empty" /\ stop = FALSE
    BY Zenon DEF Init
  <2>3. /\ g \in 0..Len(input) /\ nextSlot \in Nat
        /\ exitCode \in Int /\ result \in Int
    BY <1>2 DEF Init
  <2>4. QED BY <1>1, <1>3, <1>4, <2>1, <2>2, <2>3, Zenon DEF TypeOK
<1>6. Control BY DEF Init, Control, InGroup
<1>7. QED BY <1>5, <1>6 DEF TInv

LEMMA MapsToInt == ASSUME NEW s \in Int PROVE map_child_exit_status(s) \in Int
BY DEF map_child_exit_status, ChildFailed, ChildSaid255

\* The pool part of wait_one: types are kept, whatever the rest does.
LEMMA WaitTypes ==
    ASSUME TypeOK, wait_one
    PROVE  /\ children' \in Seq(Child)
           /\ DOMAIN children' = DOMAIN children
           /\ running' \in Seq(DOMAIN children')
           /\ freeSlots' \in Seq(Nat)
           /\ nextSlot' \in Nat
           /\ stop' \in BOOLEAN
           /\ exitCode' \in Int
<1>1. /\ Oldest \in DOMAIN children
      /\ Tail(running) \in Seq(DOMAIN children)
  BY HeadTailProperties DEF TypeOK, wait_one, Oldest
<1>2. children[Oldest] \in Child
  BY <1>1, ElementOfSeq, LenProperties DEF TypeOK
<1>3. /\ children' = [children EXCEPT ![Oldest] = [@ EXCEPT !.reaped = TRUE]]
      /\ [children[Oldest] EXCEPT !.reaped = TRUE] \in Child
  BY <1>2 DEF wait_one, Child
<1>4. /\ children' \in Seq(Child)
      /\ DOMAIN children' = DOMAIN children
  BY <1>1, <1>3, ExceptSeq, LenProperties DEF TypeOK
<1>5. freeSlots' \in Seq(Nat)
  BY <1>2, AppendFacts DEF TypeOK, wait_one, Released, Child
<1>6. stop' \in BOOLEAN /\ exitCode' \in Int
  BY <1>2, MapsToInt DEF TypeOK, wait_one, Child
<1>7. QED BY <1>1, <1>4, <1>5, <1>6 DEF TypeOK, wait_one

LEMMA SlotTypes ==
    ASSUME TypeOK
    PROVE  /\ Slot \in Nat
           /\ SlotsAfterAllocation.free \in Seq(Nat)
           /\ SlotsAfterAllocation.next \in Nat
<1>1. CASE ~opts.slotVar BY <1>1 DEF TypeOK, Slot, SlotsAfterAllocation
<1>2. CASE opts.slotVar /\ freeSlots # <<>>
  <2>1. Last(freeSlots) \in Nat /\ Front(freeSlots) \in Seq(Nat)
    BY <1>2, LastFrontFacts DEF TypeOK
  <2>2. QED BY <1>2, <2>1 DEF TypeOK, Slot, SlotsAfterAllocation
<1>3. CASE opts.slotVar /\ freeSlots = <<>>
  BY <1>3 DEF TypeOK, Slot, SlotsAfterAllocation
<1>4. QED BY <1>1, <1>2, <1>3

\* The item that is next in the group.
LEMMA NextItemType ==
    ASSUME TypeOK, g \in 1..Len(input), pos < Len(input[g])
    PROVE  /\ input[g] \in Seq(Items) /\ Len(input[g]) \in Nat
           /\ NextItem \in Items /\ pos + 1 \in 0..Len(input[g])
<1>1. input \in Seq(Seq(Items)) /\ pos \in 0..(IF g = 0 THEN 0 ELSE Len(input[g]))
  BY DEF TypeOK
<1>2. input[g] \in Seq(Items)
  BY ONLY <1>1, g \in 1..Len(input), ElementOfSeq
<1>3. Len(input[g]) \in Nat BY <1>2, LenProperties
<1>4. pos \in 0..Len(input[g]) /\ pos + 1 \in 1..Len(input[g])
  BY <1>1, <1>3
<1>5. input[g][pos + 1] \in Items BY ONLY <1>2, <1>4, ElementOfSeq
<1> QED BY <1>2, <1>3, <1>4, <1>5 DEF NextItem

LEMMA TInvStep == TInv /\ [Next]_vars => TInv'
<1> SUFFICES ASSUME TInv, [Next]_vars PROVE TInv' OBVIOUS
<1> USE DEF TInv, TypeOK, Control, InGroup, pool
<1>1. CASE SkipEmptyInput BY <1>1 DEF SkipEmptyInput
<1>2. CASE Begin BY <1>2 DEF Begin
<1>3. CASE AllGroupsDone BY <1>3 DEF AllGroupsDone
<1>4. CASE EnterGroup
  <2>1. /\ g + 1 \in 1..Len(input)
        /\ input[g + 1] \in Seq(Items)
    BY <1>4, ElementOfSeq, LenProperties DEF EnterGroup
  <2>2. /\ Len(input[g + 1]) \in Nat
        /\ <<>> \in Seq(Items) /\ <<>> \in Seq(Nat)
        /\ <<>> \in Seq(DOMAIN children)
    BY <2>1, EmptySeq, LenProperties
  <2>3. /\ pc' \in {"group", "read", "run"} /\ result' \in Int
        /\ g' = g + 1 /\ input' = input /\ FreshLocals
        /\ UNCHANGED <<opts, children, handled>>
    BY <1>4 DEF EnterGroup, ReturnFromGroup, SizeExceeded, FinalCodes
  <2>4. TypeOK'
    <3>1. /\ batch' \in Seq(Items) /\ freeSlots' \in Seq(Nat)
          /\ children' \in Seq(Child) /\ running' \in Seq(DOMAIN children')
          /\ handled' \in Seq(Items)
      BY <2>2, <2>3, Zenon DEF FreshLocals
    <3>2. stop' = FALSE /\ site' = "empty" /\ pos' = 0 /\ g' = g + 1
      BY <2>3, Zenon DEF FreshLocals
    <3>3. /\ nextSlot' \in Nat /\ exitCode' \in Int /\ g' \in 0..Len(input')
      BY <2>1, <2>2, <2>3 DEF FreshLocals
    <3>4. pos' \in 0..(IF g' = 0 THEN 0 ELSE Len(input'[g']))
      BY <2>1, <2>2, <2>3, <3>2
    <3>5. QED BY <2>3, <3>1, <3>2, <3>3, <3>4, Zenon
  <2>5. Control' BY <2>1, <2>2, <2>3 DEF FreshLocals
  <2>6. QED BY <2>4, <2>5
<1>5. CASE TakeItem
  <2>1. /\ input[g] \in Seq(Items) /\ Len(input[g]) \in Nat
        /\ NextItem \in Items /\ pos + 1 \in 0..Len(input[g])
    BY <1>5, NextItemType DEF TakeItem
  <2>2. Append(batch, NextItem) \in Seq(Items) BY <2>1, AppendFacts
  <2>3. QED BY <1>5, <2>1, <2>2 DEF TakeItem
<1>6. CASE Overflow BY <1>6 DEF Overflow
<1>7. CASE TakeHeldItem
  <2>1. /\ input[g] \in Seq(Items) /\ Len(input[g]) \in Nat
        /\ NextItem \in Items /\ pos + 1 \in 0..Len(input[g])
    BY <1>7, NextItemType DEF TakeHeldItem
  <2>2. <<NextItem>> \in Seq(Items) BY <2>1
  <2>3. pc' \in {"group", "exit", "read"} /\ result' \in Int
    BY <1>7 DEF TakeHeldItem, ReturnFromGroup, SizeExceeded, FinalCodes
  <2>4. QED BY <1>7, <2>1, <2>2, <2>3 DEF TakeHeldItem
<1>8. CASE EndOfGroup BY <1>8 DEF EndOfGroup
<1>9. CASE Decline BY <1>9, ConcatProperties DEF Decline, Resume
<1>10. CASE Launch
  <2> DEFINE child == [items |-> batch, slot |-> Slot, alive |-> TRUE,
                       status |-> 0, reaped |-> FALSE]
  <2>1. child \in Child BY SlotTypes DEF Child
  <2>2. /\ children' \in Seq(Child)
        /\ DOMAIN children' = 1..Len(children) + 1
    BY <1>10, <2>1, AppendFacts DEF Launch
  <2>3. running \in Seq(DOMAIN children')
    BY <2>2, SeqMonotonic, LenProperties
  <2>4. running' \in Seq(DOMAIN children')
    BY <1>10, <2>2, <2>3, AppendFacts, LenProperties DEF Launch
  <2>5. QED BY <1>10, <2>2, <2>4, SlotTypes, ConcatProperties DEF Launch, Resume
<1>11. CASE LaunchFails
  <2>1. freeSlots' \in Seq(Nat) /\ nextSlot' \in Nat
    BY <1>11, SlotTypes, AppendFacts DEF LaunchFails, Released
  <2>2. /\ pc' \in {"drain", "group", "exit"} /\ result' \in Int
        /\ pc' = "drain" => pc = "run" /\ site = "empty"
    BY <1>11 DEF LaunchFails, GiveUp, ReturnFromGroup, CannotLaunch, FinalCodes
  <2>3. /\ pc = "run" /\ exitCode' \in Int /\ stop' = TRUE /\ batch' = <<>>
        /\ UNCHANGED <<opts, input, g, pos, site, running, children, handled>>
    BY <1>11 DEF LaunchFails, CannotLaunch
  <2>4. QED BY <2>1, <2>2, <2>3
<1>12. CASE Throttle
  BY <1>12, WaitTypes DEF Throttle, GiveUp, ReturnFromGroup, FinalCodes, Resume
<1>13. CASE Drain BY <1>13, WaitTypes DEF Drain
<1>14. CASE GroupDone
  BY <1>14 DEF GroupDone, ReturnFromGroup, FinalCodes
<1>15. ASSUME NEW c \in DOMAIN children, ChildExits(c) PROVE TInv'
  <2>1. PICK s \in Statuses :
           children' = [children EXCEPT ![c].alive = FALSE, ![c].status = s]
    BY <1>15 DEF ChildExits
  <2>2. s \in Int /\ children[c] \in Child
    BY ItemsAssumption, ElementOfSeq, LenProperties
  <2>3. /\ children' = [children EXCEPT ![c] =
                           [@ EXCEPT !.alive = FALSE, !.status = s]]
        /\ [children[c] EXCEPT !.alive = FALSE, !.status = s] \in Child
    BY <2>1, <2>2 DEF Child
  <2>4. children' \in Seq(Child) /\ DOMAIN children' = DOMAIN children
    BY <2>3, ExceptSeq, LenProperties
  <2>5. QED BY <1>15, <2>4 DEF ChildExits
<1>16. CASE UNCHANGED vars BY <1>16 DEF vars
<1>17. CASE Terminated BY <1>16, <1>17 DEF Terminated
<1>18. QED
  BY <1>1, <1>2, <1>3, <1>4, <1>5, <1>6, <1>7, <1>8, <1>9, <1>10, <1>11,
     <1>12, <1>13, <1>14, <1>15, <1>16, <1>17 DEF Next, Xargs

\* Every variable of the batch builder and pool keeps its type: positions stay
\* within the input, and the pool only names children that were started.
THEOREM TypeCorrect == Spec => []TypeOK
<1>1. TInv => TypeOK BY DEF TInv
<1>2. QED BY TInvInit, TInvStep, <1>1, PTL DEF Spec

(***************************************************************************)
(* What the pool does to a partition of the slots.                         *)
(***************************************************************************)
\* The oldest child's slot is released.
LEMMA ReleaseKeepsPartition ==
    ASSUME NEW used \in Seq(Nat), NEW free \in Seq(Nat), NEW next \in Nat,
           used # <<>>, Partition(used, free, next)
    PROVE  Partition(Tail(used), Append(free, used[1]), next)
<1> DEFINE u == Tail(used)
           f == Append(free, used[1])
<1>1. /\ Len(used) \in Nat \ {0} /\ Len(free) \in Nat /\ used[1] \in Nat
      /\ u \in Seq(Nat) /\ Len(u) = Len(used) - 1
      /\ \A i \in 1..Len(u) : u[i] = used[i + 1]
  BY EmptySeq, LenProperties, HeadTailProperties, ElementOfSeq
<1>2. /\ Len(f) = Len(free) + 1
      /\ \A i \in 1..Len(free) : f[i] = free[i]
      /\ f[Len(free) + 1] = used[1]
  BY <1>1, AppendFacts
<1> HIDE DEF u, f
<1>3. /\ \A i \in 1..Len(u) : i + 1 \in 1..Len(used) /\ used[i + 1] # used[1]
      /\ \A j \in 1..Len(f) : j \in 1..Len(free) \/ j = Len(free) + 1
      /\ \A j \in 1..Len(free) : used[1] # free[j]
  <2>1. /\ \A i \in 1..Len(u) : i + 1 \in 1..Len(used) /\ i + 1 # 1
        /\ 1 \in 1..Len(used)
        /\ \A j \in 1..Len(f) : j \in 1..Len(free) \/ j = Len(free) + 1
    BY <1>1, <1>2
  <2>2. \A i \in 1..Len(u) : used[i + 1] # used[1]
    BY <2>1 DEF Partition, Distinct
  <2>3. \A j \in 1..Len(free) : used[1] # free[j]
    BY <2>1 DEF Partition, Disjoint
  <2>4. QED BY <2>1, <2>2, <2>3
<1>4. Distinct(u) /\ Below(u, next)
  <2>1. ASSUME NEW i \in 1..Len(u), NEW j \in 1..Len(u), u[i] = u[j]
        PROVE  i = j
    <3>1. used[i + 1] = used[j + 1] BY <1>1, <2>1
    <3>2. i + 1 = j + 1 BY <1>3, <3>1 DEF Partition, Distinct
    <3>3. QED BY <1>1, <3>2
  <2>2. ASSUME NEW i \in 1..Len(u) PROVE u[i] < next
    BY <1>1, <1>3 DEF Partition, Below
  <2>3. QED BY <2>1, <2>2 DEF Distinct, Below
<1>5. Distinct(f) /\ Below(f, next)
  <2>1. ASSUME NEW i \in 1..Len(f), NEW j \in 1..Len(f), f[i] = f[j]
        PROVE  i = j
    <3>1. CASE i \in 1..Len(free) /\ j \in 1..Len(free)
      BY <1>2, <2>1, <3>1 DEF Partition, Distinct
    <3>2. CASE i \in 1..Len(free) /\ j = Len(free) + 1
      BY <1>2, <1>3, <2>1, <3>2
    <3>3. CASE i = Len(free) + 1 /\ j \in 1..Len(free)
      BY <1>2, <1>3, <2>1, <3>3
    <3>4. QED BY <1>3, <3>1, <3>2, <3>3
  <2>2. ASSUME NEW i \in 1..Len(f) PROVE f[i] < next
    <3>1. used[1] < next /\ \A j \in 1..Len(free) : free[j] < next
      BY <1>1 DEF Partition, Below
    <3>2. QED BY <1>2, <1>3, <3>1
  <2>3. QED BY <2>1, <2>2 DEF Distinct, Below
<1>6. Disjoint(u, f)
  <2>1. ASSUME NEW i \in 1..Len(u), NEW j \in 1..Len(f) PROVE u[i] # f[j]
    <3>1. CASE j \in 1..Len(free)
      <4>1. u[i] = used[i + 1] /\ i + 1 \in 1..Len(used) BY <1>1, <1>3
      <4>2. used[i + 1] # free[j] BY <3>1, <4>1 DEF Partition, Disjoint
      <4>3. QED BY <1>2, <3>1, <4>1, <4>2
    <3>2. CASE j = Len(free) + 1 BY <1>1, <1>2, <1>3, <3>2
    <3>3. QED BY <1>3, <3>1, <3>2
  <2>2. QED BY <2>1 DEF Disjoint
<1>7. next = Len(u) + Len(f) BY <1>1, <1>2 DEF Partition
<1>8. QED BY <1>4, <1>5, <1>6, <1>7 DEF Partition, u, f

\* The slot released last is taken again.
LEMMA ReuseKeepsPartition ==
    ASSUME NEW used \in Seq(Nat), NEW free \in Seq(Nat), NEW next \in Nat,
           free # <<>>, Partition(used, free, next)
    PROVE  Partition(Append(used, Last(free)), Front(free), next)
<1> DEFINE u == Append(used, Last(free))
           f == Front(free)
<1>1. /\ Len(free) \in Nat \ {0} /\ Len(used) \in Nat
      /\ Last(free) = free[Len(free)] /\ Last(free) \in Nat
      /\ Len(f) = Len(free) - 1
      /\ \A i \in 1..Len(free) - 1 : f[i] = free[i]
  BY LastFrontFacts, LenProperties
<1>2. /\ Len(u) = Len(used) + 1
      /\ \A i \in 1..Len(used) : u[i] = used[i]
      /\ u[Len(used) + 1] = Last(free)
  BY <1>1, AppendFacts
<1> HIDE DEF u, f
<1>3. /\ \A j \in 1..Len(f) :
            j \in 1..Len(free) /\ j # Len(free) /\ f[j] = free[j]
      /\ Len(free) \in 1..Len(free)
      /\ \A i \in 1..Len(u) : i \in 1..Len(used) \/ i = Len(used) + 1
      /\ \A i \in 1..Len(used) : used[i] # Last(free)
  <2>1. \A i \in 1..Len(used) : used[i] # free[Len(free)]
    BY <1>1 DEF Partition, Disjoint
  <2>2. \A j \in 1..Len(f) : j \in 1..Len(free) /\ j # Len(free) /\ f[j] = free[j]
    BY ONLY <1>1
  <2>3. /\ Len(free) \in 1..Len(free)
        /\ \A i \in 1..Len(u) : i \in 1..Len(used) \/ i = Len(used) + 1
    BY ONLY <1>1, <1>2
  <2> QED BY <1>1, <2>1, <2>2, <2>3
<1>4. Distinct(u) /\ Below(u, next)
  <2>1. ASSUME NEW i \in 1..Len(u), NEW j \in 1..Len(u), u[i] = u[j]
        PROVE  i = j
    <3>1. CASE i \in 1..Len(used) /\ j \in 1..Len(used)
      BY <1>2, <2>1, <3>1 DEF Partition, Distinct
    <3>2. CASE i \in 1..Len(used) /\ j = Len(used) + 1
      BY <1>2, <1>3, <2>1, <3>2
    <3>3. CASE i = Len(used) + 1 /\ j \in 1..Len(used)
      BY <1>2, <1>3, <2>1, <3>3
    <3>4. QED BY <1>3, <3>1, <3>2, <3>3
  <2>2. ASSUME NEW i \in 1..Len(u) PROVE u[i] < next
    BY <1>1, <1>2, <1>3 DEF Partition, Below
  <2>3. QED BY <2>1, <2>2 DEF Distinct, Below
<1>5. Distinct(f) /\ Below(f, next)
  BY <1>3 DEF Partition, Distinct, Below
<1>6. Disjoint(u, f)
  <2>1. ASSUME NEW i \in 1..Len(u), NEW j \in 1..Len(f) PROVE u[i] # f[j]
    <3>1. CASE i \in 1..Len(used)
      BY <1>2, <1>3, <3>1 DEF Partition, Disjoint
    <3>2. CASE i = Len(used) + 1
      BY <1>1, <1>2, <1>3, <3>2 DEF Partition, Distinct
    <3>3. QED BY <1>3, <3>1, <3>2
  <2>2. QED BY <2>1 DEF Disjoint
<1>7. next = Len(u) + Len(f) BY <1>1, <1>2 DEF Partition
<1>8. QED BY <1>4, <1>5, <1>6, <1>7 DEF Partition, u, f

\* No slot is free: the next new one is taken.
LEMMA NewSlotKeepsPartition ==
    ASSUME NEW used \in Seq(Nat), NEW next \in Nat,
           Partition(used, <<>>, next)
    PROVE  /\ Partition(Append(used, next), <<>>, next + 1)
           /\ Partition(used, <<next>>, next + 1)
           /\ next = Len(used)
<1> DEFINE u == Append(used, next)
<1>1. /\ Len(used) \in Nat /\ Len(<<>>) = 0 /\ Len(<<next>>) = 1
      /\ <<next>>[1] = next /\ \A i \in 1..Len(used) : used[i] \in Nat
  BY LenProperties, ElementOfSeq
<1>2. /\ Len(u) = Len(used) + 1
      /\ \A i \in 1..Len(used) : u[i] = used[i]
      /\ u[Len(used) + 1] = next
  BY AppendFacts
<1> HIDE DEF u
<1>3. next = Len(used) BY <1>1 DEF Partition
<1>4. Distinct(u) /\ Below(u, next + 1)
  <2>1. \A i \in 1..Len(u) : i \in 1..Len(used) \/ i = Len(used) + 1
    BY ONLY <1>1, <1>2
  <2>2. \A i \in 1..Len(used) : used[i] \in Nat /\ used[i] < next
    BY <1>1 DEF Partition, Below
  <2>3. \A i, j \in 1..Len(used) : used[i] = used[j] => i = j
    BY DEF Partition, Distinct
  <2>4. \A i \in 1..Len(u) : u[i] \in Nat /\ u[i] < next + 1
    BY <1>2, <2>1, <2>2
  <2>5. ASSUME NEW i \in 1..Len(u), NEW j \in 1..Len(u), u[i] = u[j] PROVE i = j
    BY <1>2, <2>1, <2>2, <2>3, <2>5
  <2> QED BY <2>4, <2>5 DEF Distinct, Below
<1>5. /\ Distinct(<<>>) /\ Below(<<>>, next + 1) /\ Disjoint(u, <<>>)
  BY <1>1 DEF Distinct, Below, Disjoint
<1>6. Partition(u, <<>>, next + 1)
  BY <1>1, <1>2, <1>3, <1>4, <1>5 DEF Partition
<1>7. /\ Distinct(used) /\ Below(used, next + 1)
  BY <1>1 DEF Partition, Below
<1>8. /\ Distinct(<<next>>) /\ Below(<<next>>, next + 1)
      /\ Disjoint(used, <<next>>)
  BY <1>1 DEF Distinct, Below, Disjoint, Partition
<1>9. Partition(used, <<next>>, next + 1)
  BY <1>1, <1>3, <1>7, <1>8 DEF Partition
<1>10. QED BY <1>3, <1>6, <1>9 DEF u

(***************************************************************************)
(* The slots.  SlotsSound needs the bound on the pool: a new slot is made  *)
(* only when none is free, and then as many slots exist as children run,   *)
(* fewer than -P of them wherever run_batch can be entered.                *)
(***************************************************************************)
PoolBound ==
    /\ pc \in {"read", "held", "run"} => Len(running) < opts.maxProcs
    /\ pc = "throttle" => Len(running) <= opts.maxProcs

SInv == TInv /\ SlotsSound /\ PoolBound

\* Every child in the pool has a slot, a natural number.
LEMMA SlotsOfRun ==
    ASSUME NEW kids \in Seq(Child), NEW run \in Seq(DOMAIN kids)
    PROVE  /\ [i \in 1..Len(run) |-> kids[run[i]].slot] \in Seq(Nat)
           /\ Len([i \in 1..Len(run) |-> kids[run[i]].slot]) = Len(run)
           /\ Len(run) \in Nat
           /\ \A i \in 1..Len(run) :
                 run[i] \in DOMAIN kids /\ kids[run[i]] \in Child
<1>1. \A i \in 1..Len(run) : run[i] \in DOMAIN kids /\ kids[run[i]] \in Child
  BY ElementOfSeq, LenProperties
<1>2. Len(run) \in Nat BY LenProperties
<1>3. \A i \in 1..Len(run) : kids[run[i]].slot \in Nat BY <1>1 DEF Child
<1>4. QED BY <1>1, <1>2, <1>3, IsASeq, LenProperties

LEMMA PoolSlotsType ==
    ASSUME TypeOK
    PROVE  /\ PoolSlots \in Seq(Nat)
           /\ Len(PoolSlots) = Len(running)
           /\ Len(running) \in Nat
           /\ \A i \in 1..Len(running) :
                 running[i] \in DOMAIN children /\ children[running[i]] \in Child
BY SlotsOfRun DEF TypeOK, PoolSlots

LEMMA NextPoolSlotsType ==
    ASSUME TypeOK'
    PROVE  PoolSlots' \in Seq(Nat) /\ Len(PoolSlots') = Len(running')
BY SlotsOfRun DEF TypeOK, PoolSlots

LEMMA SInvInit == Init => SInv
<1> SUFFICES ASSUME Init PROVE SInv OBVIOUS
<1>1. TInv /\ TypeOK BY TInvInit DEF TInv
<1>2. /\ Len(running) = 0 /\ freeSlots = <<>> /\ nextSlot = 0 /\ Len(<<>>) = 0
  BY DEF Init
<1>3. opts.maxProcs \in Nat \ {0} /\ Len(PoolSlots) = 0
  BY <1>1, <1>2, PoolSlotsType DEF TypeOK, Settings
<1>4. Partition(PoolSlots, freeSlots, nextSlot)
  BY <1>2, <1>3 DEF Partition, Distinct, Below, Disjoint
<1>5. QED BY <1>1, <1>2, <1>3, <1>4 DEF Init, SInv, SlotsSound, PoolBound

\* SlotsSound speaks of the settings, the lists and the children's slots only.
LEMMA SlotsUnchanged ==
    ASSUME TypeOK, SlotsSound, opts' = opts, running' = running,
           freeSlots' = freeSlots, nextSlot' = nextSlot,
           \A c \in DOMAIN children : children'[c].slot = children[c].slot
    PROVE  SlotsSound'
<1>1. PoolSlots' = PoolSlots BY PoolSlotsType DEF PoolSlots
<1>2. QED BY <1>1 DEF SlotsSound

\* wait_one moves the oldest child's slot from the pool to the free slots.
LEMMA WaitSlots ==
    ASSUME TypeOK, TypeOK', SlotsSound, wait_one, opts' = opts
    PROVE  SlotsSound' /\ Len(running') = Len(running) - 1
<1>1. /\ running # <<>> /\ Len(running) \in Nat \ {0}
      /\ Oldest = running[1] /\ running[1] \in DOMAIN children
  <2>1. running # <<>> /\ Oldest = running[1]
    BY DEF wait_one, Oldest, TypeOK
  <2>2. Len(running) \in Nat \ {0} BY <2>1, EmptySeq DEF TypeOK
  <2>3. QED BY <2>1, <2>2, PoolSlotsType
<1>2. /\ Len(running') = Len(running) - 1
      /\ \A i \in 1..Len(running') : running'[i] = running[i + 1]
  BY <1>1, HeadTailProperties DEF wait_one, TypeOK
<1>3. \A c \in DOMAIN children : children'[c].slot = children[c].slot
  BY DEF wait_one
<1>4. PoolSlots' = Tail(PoolSlots) /\ PoolSlots # <<>>
  <2>1. /\ PoolSlots \in Seq(Nat) /\ PoolSlots # <<>>
        /\ Len(PoolSlots) = Len(running)
    BY <1>1, PoolSlotsType, EmptySeq
  <2>2. /\ Tail(PoolSlots) \in Seq(Nat)
        /\ Len(Tail(PoolSlots)) = Len(running')
        /\ \A i \in 1..Len(running') : Tail(PoolSlots)[i] = PoolSlots[i + 1]
    BY <1>2, <2>1, HeadTailProperties
  <2>3. PoolSlots' \in Seq(Nat) /\ Len(PoolSlots') = Len(running')
    BY NextPoolSlotsType
  <2>4. \A i \in 1..Len(running') : PoolSlots'[i] = PoolSlots[i + 1]
    BY <1>1, <1>2, <1>3, PoolSlotsType DEF PoolSlots
  <2>5. QED BY <2>1, <2>2, <2>3, <2>4, SeqEqual
<1>5. ASSUME opts.slotVar
      PROVE  Partition(PoolSlots', freeSlots', nextSlot')
  <2>1. freeSlots' = Append(freeSlots, PoolSlots[1]) /\ nextSlot' = nextSlot
    BY <1>1, <1>5 DEF wait_one, Released, PoolSlots
  <2>2. QED
    BY <1>4, <1>5, <2>1, PoolSlotsType, ReleaseKeepsPartition
       DEF SlotsSound, TypeOK
<1>6. QED BY <1>2, <1>5 DEF SlotsSound, wait_one

\* A started child takes the slot released last, or else the next new one.
LEMMA LaunchSlots ==
    ASSUME TypeOK, TypeOK', SlotsSound, Launch, Len(running) < opts.maxProcs
    PROVE  SlotsSound' /\ Len(running') = Len(running) + 1
<1> DEFINE child == [items |-> batch, slot |-> Slot, alive |-> TRUE,
                     status |-> 0, reaped |-> FALSE]
           new == Len(children) + 1
           r == Len(running)
<1>1. child \in Child /\ child.slot = Slot /\ Slot \in Nat
  BY SlotTypes DEF Child, TypeOK
<1>2. /\ DOMAIN children = 1..Len(children) /\ Len(children) \in Nat
      /\ \A c \in 1..Len(children) : children'[c] = children[c]
      /\ children'[new] = child
  BY <1>1, AppendFacts, LenProperties DEF Launch, TypeOK
<1>3. /\ Len(running') = r + 1 /\ r \in Nat
      /\ \A i \in 1..r : running'[i] = running[i]
      /\ running'[r + 1] = new
  <2>1. running \in Seq(1..new) /\ new \in 1..new
    <3>1. DOMAIN children \subseteq 1..new /\ new \in 1..new BY <1>2
    <3>2. running \in Seq(DOMAIN children) BY DEF TypeOK
    <3>3. running \in Seq(1..new) BY <3>1, <3>2, SeqMonotonic, Zenon
    <3>4. QED BY <3>1, <3>3
  <2>2. QED BY <2>1, AppendFacts, LenProperties DEF Launch
<1>4. PoolSlots' = Append(PoolSlots, Slot)
  <2>1. /\ PoolSlots \in Seq(Nat) /\ Len(PoolSlots) = r
        /\ Append(PoolSlots, Slot) \in Seq(Nat)
        /\ Len(Append(PoolSlots, Slot)) = r + 1
        /\ \A i \in 1..r : Append(PoolSlots, Slot)[i] = PoolSlots[i]
        /\ Append(PoolSlots, Slot)[r + 1] = Slot
    BY <1>1, PoolSlotsType, AppendFacts
  <2>2. PoolSlots' \in Seq(Nat) /\ Len(PoolSlots') = r + 1
    BY <1>3, NextPoolSlotsType
  <2>3. \A i \in 1..r : PoolSlots'[i] = PoolSlots[i]
    BY <1>2, <1>3, PoolSlotsType DEF PoolSlots
  <2>4. PoolSlots'[r + 1] = Slot BY <1>1, <1>2, <1>3 DEF PoolSlots
  <2>5. \A i \in 1..r + 1 : PoolSlots'[i] = Append(PoolSlots, Slot)[i]
    BY <1>3, <2>1, <2>3, <2>4
  <2>6. QED BY <2>1, <2>2, <2>5, SeqEqual
<1>5. opts' = opts BY DEF Launch
<1>6. ASSUME opts.slotVar, freeSlots # <<>>
      PROVE  Partition(PoolSlots', freeSlots', nextSlot') /\ nextSlot' = nextSlot
  <2>1. /\ Slot = Last(freeSlots) /\ freeSlots' = Front(freeSlots)
        /\ nextSlot' = nextSlot
    BY <1>6 DEF Launch, Slot, SlotsAfterAllocation
  <2>2. QED
    BY <1>4, <1>6, <2>1, PoolSlotsType, ReuseKeepsPartition
       DEF SlotsSound, TypeOK
<1>7. ASSUME opts.slotVar, freeSlots = <<>>
      PROVE  /\ Partition(PoolSlots', freeSlots', nextSlot')
             /\ nextSlot' = Len(running) + 1
  <2>1. /\ Slot = nextSlot /\ freeSlots' = <<>> /\ nextSlot' = nextSlot + 1
    BY <1>7 DEF Launch, Slot, SlotsAfterAllocation
  <2>2. Partition(PoolSlots, <<>>, nextSlot) BY <1>7 DEF SlotsSound
  <2>3. QED BY <1>4, <2>1, <2>2, PoolSlotsType, NewSlotKeepsPartition DEF TypeOK
<1>8. opts.maxProcs \in Nat BY DEF TypeOK, Settings
<1>9. QED BY <1>3, <1>5, <1>6, <1>7, <1>8 DEF SlotsSound

\* A failed launch gives back the slot it took.
LEMMA FailedLaunchSlots ==
    ASSUME TypeOK, SlotsSound, LaunchFails, Len(running) < opts.maxProcs
    PROVE  SlotsSound'
<1>1. /\ opts' = opts /\ running' = running /\ children' = children
      /\ PoolSlots' = PoolSlots
  BY DEF LaunchFails, PoolSlots
<1>2. ASSUME opts.slotVar, freeSlots # <<>> PROVE SlotsSound'
  <2> DEFINE f == Len(freeSlots)
  <2>1. /\ f \in Nat \ {0} /\ Last(freeSlots) = freeSlots[f]
        /\ Last(freeSlots) \in Nat
        /\ Front(freeSlots) \in Seq(Nat) /\ Len(Front(freeSlots)) = f - 1
        /\ \A j \in 1..f - 1 : Front(freeSlots)[j] = freeSlots[j]
    BY <1>2, LastFrontFacts DEF TypeOK
  <2>2. /\ freeSlots' = Append(Front(freeSlots), Last(freeSlots))
        /\ nextSlot' = nextSlot
    BY <1>2 DEF LaunchFails, Released, Slot, SlotsAfterAllocation
  <2>3. /\ freeSlots' \in Seq(Nat) /\ Len(freeSlots') = f
        /\ \A j \in 1..f : freeSlots'[j] = freeSlots[j]
    BY <2>1, <2>2, AppendFacts
  <2>4. freeSlots' = freeSlots BY <2>3, SeqEqual DEF TypeOK
  <2>5. QED BY <1>1, <2>2, <2>4 DEF SlotsSound
<1>3. ASSUME opts.slotVar, freeSlots = <<>> PROVE SlotsSound'
  <2>1. /\ freeSlots' = <<nextSlot>> /\ nextSlot' = nextSlot + 1
    BY <1>3 DEF LaunchFails, Released, Slot, SlotsAfterAllocation
  <2>2. Partition(PoolSlots, <<>>, nextSlot) BY <1>3 DEF SlotsSound
  <2>3. Partition(PoolSlots, <<nextSlot>>, nextSlot + 1) /\ nextSlot = Len(running)
    BY <2>2, PoolSlotsType, NewSlotKeepsPartition DEF TypeOK
  <2>4. QED BY <1>1, <2>1, <2>3, PoolSlotsType DEF SlotsSound, TypeOK, Settings
<1>4. QED BY <1>1, <1>2, <1>3 DEF SlotsSound

LEMMA SInvStep == SInv /\ [Next]_vars => SInv'
<1> SUFFICES ASSUME SInv, [Next]_vars PROVE SInv' OBVIOUS
<1>1. TInv /\ TInv' /\ TypeOK /\ TypeOK' /\ SlotsSound /\ PoolBound
  BY TInvStep DEF SInv, TInv
<1>2. opts.maxProcs \in Nat \ {0} /\ Len(running) \in Nat
  BY <1>1, PoolSlotsType DEF TypeOK, Settings
\* The steps that leave the pool alone.
<1>3. CASE /\ UNCHANGED <<opts, pool>>
           /\ pc' \in {"read", "held", "run"} => pc \in {"read", "held", "run"}
           /\ pc' = "throttle" => pc = "throttle"
  <2>1. SlotsSound' BY <1>1, <1>3, SlotsUnchanged DEF pool
  <2>2. PoolBound' BY <1>1, <1>3 DEF PoolBound, pool
  <2>3. QED BY <1>1, <2>1, <2>2 DEF SInv
<1>4. CASE SkipEmptyInput \/ Begin \/ AllGroupsDone
  BY <1>3, <1>4 DEF SkipEmptyInput, Begin, AllGroupsDone
<1>5. CASE TakeItem \/ Overflow BY <1>3, <1>5 DEF TakeItem, Overflow
<1>6. CASE TakeHeldItem \/ EndOfGroup
  BY <1>3, <1>6
     DEF TakeHeldItem, EndOfGroup, ReturnFromGroup, SizeExceeded, FinalCodes
<1>7. CASE Decline \/ GroupDone
  BY <1>3, <1>7 DEF Decline, GroupDone, Resume, ReturnFromGroup, FinalCodes
<1>8. CASE EnterGroup
  <2>1. /\ opts' = opts /\ Len(running') = 0 /\ Len(freeSlots') = 0
        /\ nextSlot' = 0
    BY <1>8 DEF EnterGroup, FreshLocals
  <2>2. Len(PoolSlots') = 0 BY <1>1, <2>1, NextPoolSlotsType
  <2>3. Partition(PoolSlots', freeSlots', nextSlot')
    BY <2>1, <2>2 DEF Partition, Distinct, Below, Disjoint
  <2>4. SlotsSound' /\ PoolBound'
    BY <1>2, <2>1, <2>3 DEF SlotsSound, PoolBound
  <2>5. QED BY <1>1, <2>4 DEF SInv
<1>9. CASE Launch
  <2>1. Len(running) < opts.maxProcs BY <1>1, <1>9 DEF PoolBound, Launch
  <2>2. SlotsSound' /\ Len(running') = Len(running) + 1
    BY <1>1, <1>9, <2>1, LaunchSlots
  <2>3. PoolBound'
    BY <1>2, <1>9, <2>1, <2>2 DEF PoolBound, Launch, Resume
  <2>4. QED BY <1>1, <2>2, <2>3 DEF SInv
<1>10. CASE LaunchFails
  <2>1. Len(running) < opts.maxProcs
    BY <1>1, <1>10 DEF PoolBound, LaunchFails
  <2>2. SlotsSound' BY <1>1, <1>10, <2>1, FailedLaunchSlots
  <2>3. PoolBound'
    BY <1>10 DEF PoolBound, LaunchFails, GiveUp, ReturnFromGroup, FinalCodes
  <2>4. QED BY <1>1, <2>2, <2>3 DEF SInv
<1>11. CASE Throttle
  <2>1. /\ pc = "throttle" /\ wait_one /\ opts' = opts
        /\ pc' \in {"held", "drain", "group", "exit"}
    BY <1>11
       DEF Throttle, GiveUp, ReturnFromGroup, FinalCodes, Resume
  <2>2. SlotsSound' /\ Len(running') = Len(running) - 1
    BY <1>1, <2>1, WaitSlots
  <2>3. PoolBound' BY <1>1, <1>2, <2>1, <2>2 DEF PoolBound
  <2>4. QED BY <1>1, <2>2, <2>3 DEF SInv
<1>12. CASE Drain
  <2>1. pc' = "drain" /\ wait_one /\ opts' = opts BY <1>12 DEF Drain
  <2>2. SlotsSound' BY <1>1, <2>1, WaitSlots
  <2>3. QED BY <1>1, <2>1, <2>2 DEF SInv, PoolBound
<1>13. ASSUME NEW c \in DOMAIN children, ChildExits(c) PROVE SInv'
  <2>1. /\ UNCHANGED <<opts, pc, running, freeSlots, nextSlot>>
        /\ \A d \in DOMAIN children : children'[d].slot = children[d].slot
    BY <1>13 DEF ChildExits
  <2>2. SlotsSound' BY <1>1, <2>1, SlotsUnchanged
  <2>3. QED BY <1>1, <2>1, <2>2 DEF SInv, PoolBound
<1>14. CASE UNCHANGED vars \/ Terminated
  BY <1>3, <1>14 DEF vars, pool, Terminated
<1>15. QED
  BY <1>4, <1>5, <1>6, <1>7, <1>8, <1>9, <1>10, <1>11, <1>12, <1>13, <1>14
     DEF Next, Xargs

\* With --process-slot-var no two children of the pool share a slot, none is
\* lost, and the slots stay below -P: for every input, setting and order in
\* which children end.
THEOREM SlotsAreSound == Spec => []SlotsSound
<1>1. SInv => SlotsSound BY DEF SInv
<1>2. QED BY SInvInit, SInvStep, <1>1, PTL DEF Spec

(***************************************************************************)
(* Command lines.  What is in the batch has been looked at; a batch that   *)
(* is still empty has not.                                                 *)
(***************************************************************************)
Suits(items) ==
    /\ opts.maxArgs > 0 => Len(items) <= opts.maxArgs
    /\ opts.replace => Len(items) <= 1
    /\ ~WithinChars(items) => ~opts.exitIfExceeded /\ Len(items) <= 1

BatchSuits ==
    /\ pc = "read" /\ batch # <<>> => Suits(batch)
    /\ pc = "run" => Suits(batch)

LInv == TInv /\ BatchSuits /\ LimitsRespected

(***************************************************************************)
(* The exit status.  `stop' is never set without a failure in `exitCode',  *)
(* and neither code goes back to 0; so while both are 0 nobody was left    *)
(* behind unwaited, and nobody waited for has failed.                      *)
(***************************************************************************)
ReapedHaveEnded == \A c \in DOMAIN children : children[c].reaped => ~children[c].alive

InPool(c) == InGroup /\ \E i \in 1..Len(running) : running[i] = c

NobodyLost ==
    result = 0 => \A c \in DOMAIN children : children[c].reaped \/ InPool(c)

NobodyFailed ==
    result = 0 /\ (InGroup => exitCode = 0) =>
        \A c \in DOMAIN children : children[c].reaped => children[c].status = 0

Codes ==
    /\ Justified(exitCode) /\ Justified(result)
    /\ stop => exitCode # 0
    /\ pc = "begin" => result = 0

EInv == TInv /\ ReapedHaveEnded /\ Codes /\ NobodyLost /\ NobodyFailed

\* What is looked at before an item is taken is what the command line may hold.
LEMMA FittingSuits ==
    ASSUME TypeOK, NEW group, NEW items \in Seq(Items), fits_limits(group, items)
    PROVE  Suits(items)
BY DEF fits_limits, MaxArgs, Suits, TypeOK, Settings

\* A child's items never change, and a new child gets the batch.
LEMMA LimitsKept ==
    ASSUME LimitsRespected, opts' = opts, DOMAIN children' = DOMAIN children,
           \A c \in DOMAIN children : children'[c].items = children[c].items
    PROVE  LimitsRespected'
BY DEF LimitsRespected, WithinChars

LEMMA LInvInit == Init => LInv
<1> SUFFICES ASSUME Init PROVE LInv OBVIOUS
<1>1. TInv BY TInvInit
<1>2. BatchSuits BY DEF Init, BatchSuits
<1>3. LimitsRespected BY DEF Init, LimitsRespected
<1> QED BY <1>1, <1>2, <1>3 DEF LInv

LEMMA LInvStep == LInv /\ [Next]_vars => LInv'
<1> SUFFICES ASSUME LInv, [Next]_vars PROVE LInv' OBVIOUS
<1>1. TInv /\ TInv' /\ TypeOK /\ TypeOK' /\ BatchSuits /\ LimitsRespected
  BY TInvStep DEF LInv, TInv
<1> USE DEF LInv
\* The steps that start no child and touch neither the batch nor the items.
<1>2. ASSUME UNCHANGED <<opts, batch, children>>,
             pc' = "read" => pc = "read",
             pc' = "run" => pc = "run" \/ (pc = "read" /\ batch # <<>>)
      PROVE  LInv'
  <2>1. LimitsRespected' BY <1>1, <1>2, LimitsKept
  <2>2. \A items : Suits(items)' <=> Suits(items)
    BY <1>2 DEF Suits, WithinChars
  <2>3. BatchSuits' BY <1>1, <1>2 DEF BatchSuits, Suits, WithinChars
  <2> QED BY <1>1, <2>1, <2>3
<1>3. CASE SkipEmptyInput \/ Begin \/ AllGroupsDone \/ Overflow \/ EndOfGroup
  BY <1>2, <1>3 DEF SkipEmptyInput, Begin, AllGroupsDone, Overflow, EndOfGroup, pool
<1>4. CASE GroupDone \/ Terminated \/ UNCHANGED vars
  <2>1. CASE GroupDone
    BY <1>2, <2>1 DEF GroupDone, ReturnFromGroup, pool
  <2>2. CASE Terminated \/ UNCHANGED vars
    BY <1>2, <2>2 DEF Terminated, vars
  <2> QED BY <1>4, <2>1, <2>2
<1>5. CASE EnterGroup
  <2>1. /\ opts' = opts /\ children' = children /\ batch' = <<>>
        /\ pc' = "run" => fits_limits(<<>>, <<>>) \/ ~opts.exitIfExceeded
    BY <1>5 DEF EnterGroup, FreshLocals, ReturnFromGroup
  <2>2. pc' = "run" => Suits(<<>>)
    <3>1. fits_limits(<<>>, <<>>) => Suits(<<>>)
      BY <1>1, FittingSuits, EmptySeq
    <3>2. opts.maxArgs \in Nat BY <1>1 DEF TypeOK, Settings
    <3>3. ~opts.exitIfExceeded => Suits(<<>>) BY <3>2 DEF Suits
    <3> QED BY <2>1, <3>1, <3>3
  <2>3. BatchSuits' BY <2>1, <2>2 DEF BatchSuits, Suits, WithinChars
  <2> QED BY <1>1, <2>1, <2>3, LimitsKept
<1>6. CASE TakeItem
  <2>1. /\ opts' = opts /\ children' = children /\ pc' = "read"
        /\ batch' = Append(batch, NextItem) /\ batch' \in Seq(Items)
        /\ fits_limits(input[g], batch')
    BY <1>1, <1>6 DEF TakeItem, TypeOK, pool
  <2>2. Suits(batch') BY <1>1, <2>1, FittingSuits
  <2>3. BatchSuits' BY <2>1, <2>2 DEF BatchSuits, Suits, WithinChars
  <2> QED BY <1>1, <2>1, <2>3, LimitsKept
<1>7. CASE TakeHeldItem
  <2>1. /\ opts' = opts /\ children' = children /\ pc' \in {"read", "group", "exit"}
        /\ batch' = <<NextItem>> /\ batch' \in Seq(Items) /\ Len(batch') = 1
        /\ pc' = "read" => fits_limits(input[g], batch') \/ ~opts.exitIfExceeded
    BY <1>1, <1>7 DEF TakeHeldItem, ReturnFromGroup, TypeOK, pool
  <2>2. pc' = "read" => Suits(batch')
    <3>1. fits_limits(input[g], batch') => Suits(batch')
      BY <1>1, <2>1, FittingSuits
    <3>2. opts.maxArgs \in Nat BY <1>1 DEF TypeOK, Settings
    <3>3. ~opts.exitIfExceeded => Suits(batch') BY <2>1, <3>2 DEF Suits
    <3> QED BY <2>1, <3>1, <3>3
  <2>3. BatchSuits' BY <2>1, <2>2 DEF BatchSuits, Suits, WithinChars
  <2> QED BY <1>1, <2>1, <2>3, LimitsKept
<1>8. CASE Decline \/ LaunchFails
  <2>1. /\ opts' = opts /\ children' = children
        /\ pc' \in {"held", "drain", "group", "exit"}
    BY <1>8 DEF Decline, LaunchFails, Resume, GiveUp, ReturnFromGroup, pool
  <2>2. BatchSuits' BY <2>1 DEF BatchSuits
  <2> QED BY <1>1, <2>1, <2>2, LimitsKept
<1>9. CASE Launch
  <2> DEFINE new == Len(children) + 1
  <2>1. /\ opts' = opts /\ pc' \in {"throttle", "held", "drain"} /\ Suits(batch)
    BY <1>1, <1>9 DEF Launch, Resume, BatchSuits
  <2>2. /\ DOMAIN children' = 1..new /\ DOMAIN children = 1..Len(children)
        /\ Len(children) \in Nat
        /\ \A c \in DOMAIN children : children'[c] = children[c]
        /\ children'[new].items = batch
    <3>1. [items |-> batch, slot |-> Slot, alive |-> TRUE, status |-> 0,
           reaped |-> FALSE] \in Child
      BY <1>1, SlotTypes DEF Child, TypeOK
    <3>2. children \in Seq(Child) BY <1>1 DEF TypeOK
    <3>3. children' = Append(children, [items |-> batch, slot |-> Slot, alive |-> TRUE,
                                        status |-> 0, reaped |-> FALSE])
      BY <1>9 DEF Launch
    <3> QED BY <3>1, <3>2, <3>3, AppendFacts, LenProperties
  <2>3. \A c \in DOMAIN children' : c \in DOMAIN children \/ c = new
    BY <2>2
  <2>4. LimitsRespected'
    BY <1>1, <2>1, <2>2, <2>3 DEF LimitsRespected, Suits, WithinChars
  <2>5. BatchSuits' BY <2>1 DEF BatchSuits
  <2> QED BY <1>1, <2>4, <2>5
<1>10. CASE Throttle \/ Drain
  <2>1. /\ wait_one /\ opts' = opts /\ pc' \in {"held", "drain", "group", "exit"}
    BY <1>10 DEF Throttle, Drain, GiveUp, ReturnFromGroup, Resume
  <2>2. /\ DOMAIN children' = DOMAIN children
        /\ \A c \in DOMAIN children : children'[c].items = children[c].items
    BY <2>1 DEF wait_one
  <2>3. BatchSuits' BY <2>1 DEF BatchSuits
  <2> QED BY <1>1, <2>1, <2>2, <2>3, LimitsKept
<1>11. ASSUME NEW c \in DOMAIN children, ChildExits(c) PROVE LInv'
  <2>1. /\ UNCHANGED <<opts, pc, batch>> /\ DOMAIN children' = DOMAIN children
        /\ \A d \in DOMAIN children : children'[d].items = children[d].items
    BY <1>11 DEF ChildExits
  <2>2. BatchSuits' BY <1>1, <2>1 DEF BatchSuits, Suits, WithinChars
  <2> QED BY <1>1, <2>1, <2>2, LimitsKept
<1> QED
  BY <1>3, <1>4, <1>5, <1>6, <1>7, <1>8, <1>9, <1>10, <1>11 DEF Next, Xargs

\* No child is given more than -n items, nor with -I more than one, nor a command
\* line over -s but for a single item without -x (fits_limits, execute_command).
THEOREM CommandLinesFit == Spec => []LimitsRespected
<1>1. LInv => LimitsRespected BY DEF LInv
<1> QED BY LInvInit, LInvStep, <1>1, PTL DEF Spec

(***************************************************************************)
(* What became of a child.                                                 *)
(***************************************************************************)
LEMMA MapsTo ==
    ASSUME NEW s \in Int
    PROVE  LET code == map_child_exit_status(s) IN
           /\ code = 0 <=> s = 0
           /\ code = ChildFailed <=> s \in 1..125
           /\ code = ChildSaid255 <=> s = 255
           /\ code \notin {0, ChildFailed, ChildSaid255} => code = s
           /\ code # SizeExceeded
BY DEF map_child_exit_status, ChildFailed, ChildSaid255, SizeExceeded

\* A step that leaves the children waited for and the settings as they are keeps
\* what justified a code.
LEMMA StaysJustified ==
    ASSUME NEW code, Justified(code), opts' = opts,
           DOMAIN children \subseteq DOMAIN children',
           \A c \in DOMAIN children :
              children[c].reaped =>
                 children'[c].reaped /\ children'[c].status = children[c].status,
           ItemsOf(input) \subseteq ItemsOf(input)'
    PROVE  /\ code = ChildFailed  => \E s \in 1..125 : Waited(s)'
           /\ code = ChildSaid255 => Waited(255)'
           /\ code \notin {0, SizeExceeded, ChildFailed, ChildSaid255, CannotLaunch} =>
                Waited(code)'
           /\ code = SizeExceeded => TooLong'
<1>1. ASSUME NEW s, Waited(s) PROVE Waited(s)' BY <1>1 DEF Waited
<1>2. TooLong => TooLong' BY DEF TooLong, WithinChars
<1> QED BY <1>1, <1>2 DEF Justified

\* The oldest child was waited for: its status is known, and so is what it did to
\* the exit code.
LEMMA WaitFacts ==
    ASSUME TypeOK, wait_one
    PROVE  /\ Oldest \in DOMAIN children /\ children[Oldest].status \in Int
           /\ DOMAIN children' = DOMAIN children
           /\ \A c \in DOMAIN children :
                /\ children'[c].status = children[c].status
                /\ children'[c].alive = children[c].alive
                /\ children'[c].reaped <=> (children[c].reaped \/ c = Oldest)
           /\ ~children[Oldest].alive
           /\ running # <<>> /\ Oldest = running[1]
           /\ Len(running') = Len(running) - 1 /\ Len(running) \in Nat \ {0}
           /\ \A i \in 1..Len(running') : running'[i] = running[i + 1]
<1>1. Oldest \in DOMAIN children /\ running # <<>> /\ Oldest = running[1]
  BY HeadTailProperties DEF TypeOK, wait_one, Oldest
<1>2. children[Oldest] \in Child /\ \A c \in DOMAIN children : children[c] \in Child
  BY <1>1, ElementOfSeq, LenProperties DEF TypeOK
<1>3. /\ Len(running) \in Nat \ {0} /\ Len(running') = Len(running) - 1
      /\ \A i \in 1..Len(running') : running'[i] = running[i + 1]
  BY <1>1, HeadTailProperties, EmptySeq DEF TypeOK, wait_one
<1>4. children' = [children EXCEPT ![Oldest] = [@ EXCEPT !.reaped = TRUE]]
  BY DEF wait_one
<1>5. \A c \in DOMAIN children :
        /\ children'[c].status = children[c].status
        /\ children'[c].alive = children[c].alive
        /\ children'[c].reaped <=> (children[c].reaped \/ c = Oldest)
  <2> TAKE c \in DOMAIN children
  <2>1. CASE c = Oldest BY <1>1, <1>2, <1>4, <2>1 DEF Child
  <2>2. CASE c # Oldest BY <1>1, <1>2, <1>4, <2>2 DEF Child
  <2> QED BY <2>1, <2>2
<1> QED BY <1>1, <1>2, <1>3, <1>4, <1>5 DEF wait_one, Child

\* Both codes stay justified while nothing that happened is undone.
LEMMA CodesStay ==
    ASSUME Justified(exitCode), Justified(result), opts' = opts,
           DOMAIN children \subseteq DOMAIN children',
           \A c \in DOMAIN children :
              children[c].reaped =>
                 children'[c].reaped /\ children'[c].status = children[c].status,
           ItemsOf(input) \subseteq ItemsOf(input)'
    PROVE  /\ exitCode' = exitCode => Justified(exitCode)'
           /\ result' = result => Justified(result)'
           /\ result' = exitCode => Justified(result)'
<1>1. exitCode' = exitCode => Justified(exitCode)'
  BY StaysJustified DEF Justified
<1>2. result' = result => Justified(result)'
  BY StaysJustified DEF Justified
<1>3. result' = exitCode => Justified(result)'
  BY StaysJustified DEF Justified
<1> QED BY <1>1, <1>2, <1>3

LEMMA JustifiedConstants ==
    /\ exitCode' \in {0, CannotLaunch} => Justified(exitCode)'
    /\ result' \in {0, CannotLaunch} => Justified(result)'
    /\ result' = SizeExceeded /\ TooLong' => Justified(result)'
BY DEF Justified, CannotLaunch, ChildFailed, ChildSaid255, SizeExceeded

LEMMA EInvInit == Init => EInv
<1> SUFFICES ASSUME Init PROVE EInv OBVIOUS
<1>1. TInv /\ DOMAIN children = {} BY TInvInit DEF Init
<1>2. Justified(0)
  BY DEF Justified, ChildFailed, ChildSaid255, SizeExceeded
<1> QED
  BY <1>1, <1>2 DEF Init, EInv, ReapedHaveEnded, Codes, NobodyLost, NobodyFailed

\* Steps that concern neither the children nor the codes.
LEMMA QuietStep ==
    ASSUME EInv, TInv', UNCHANGED <<opts, children, running, stop, exitCode, result>>,
           ItemsOf(input) \subseteq ItemsOf(input)', InGroup' <=> InGroup,
           pc' = "begin" => pc = "begin"
    PROVE  EInv'
<1> USE DEF EInv
<1>1. Codes' BY CodesStay DEF Codes
<1>2. ReapedHaveEnded' /\ NobodyFailed'
  BY DEF ReapedHaveEnded, NobodyFailed
<1>3. NobodyLost' BY DEF NobodyLost, InPool
<1> QED BY <1>1, <1>2, <1>3

LEMMA OverLong ==
    ASSUME TypeOK, opts.exitIfExceeded
    PROVE  /\ ~fits_limits(<<>>, <<>>) => TooLong
           /\ (/\ InGroup /\ g \in 1..Len(input) /\ pos < Len(input[g])
               /\ ~fits_limits(input[g], <<NextItem>>)) => TooLong
<1>1. opts \in Settings BY DEF TypeOK
<1>2. ~fits_limits(<<>>, <<>>) => TooLong
  BY <1>1 DEF fits_limits, MaxArgs, TooLong, Settings
<1>3. ASSUME g \in 1..Len(input), pos < Len(input[g]),
             ~fits_limits(input[g], <<NextItem>>)
      PROVE  TooLong
  <2>1. /\ g \in DOMAIN input /\ input[g] \in Seq(Items) /\ Len(input[g]) \in Nat
        /\ g # 0 /\ pos \in Nat
    BY <1>3, ElementOfSeq, LenProperties DEF TypeOK
  <2>2. /\ input[g] # <<>> /\ 1 <= Len(input[g])
        /\ pos + 1 \in DOMAIN input[g]
    BY <1>3, <2>1, LenProperties
  <2>3. ~WithinChars(<<NextItem>>)
    BY <1>1, <1>3, <2>1, <2>2 DEF fits_limits, MaxArgs, Settings
  <2>4. NextItem \in ItemsOf(input)
    <3>1. NextItem \in ToSet(input[g]) BY <2>2 DEF NextItem, ToSet
    <3> QED BY <2>1, <3>1 DEF ItemsOf
  <2> QED BY <2>3, <2>4 DEF TooLong
<1> QED BY <1>2, <1>3

\* Waiting for the oldest child: what it did is in the exit code.
LEMMA WaitCodes ==
    ASSUME TypeOK, wait_one, ReapedHaveEnded, Codes, opts' = opts, input' = input
    PROVE  /\ Justified(exitCode)'
           /\ stop' => exitCode' # 0
           /\ ReapedHaveEnded'
           /\ exitCode' = 0 => exitCode = 0 /\ children[Oldest].status = 0
           /\ result' = result => Justified(result)'
<1>1. PICK status \in Int : status = children[Oldest].status
  BY WaitFacts
<1>2. /\ exitCode \in Int
      /\ exitCode' = IF status # 0 THEN map_child_exit_status(status) ELSE exitCode
      /\ stop' = (stop \/ status = 255)
  BY <1>1 DEF wait_one, TypeOK
<1>3. PICK code : code = map_child_exit_status(status) OBVIOUS
<1>4. /\ code = 0 <=> status = 0
      /\ code = ChildFailed <=> status \in 1..125
      /\ code = ChildSaid255 <=> status = 255
      /\ code \notin {0, ChildFailed, ChildSaid255} => code = status
      /\ code # SizeExceeded
  BY <1>3, MapsTo
<1>5. Justified(exitCode)'
  <2>1. CASE status # 0
    <3>1. Waited(status)' BY <1>1, WaitFacts DEF Waited
    <3>2. exitCode' = code BY <1>2, <1>3, <2>1
    <3> QED BY <1>4, <2>1, <3>1, <3>2 DEF Justified
  <2>2. CASE status = 0 BY <1>2, <2>2, CodesStay, WaitFacts DEF Codes
  <2> QED BY <2>1, <2>2
<1>6. stop' => exitCode' # 0
  <2>1. CASE status # 0 BY <1>2, <1>3, <1>4, <2>1
  <2>2. CASE status = 0
    <3>1. exitCode' = exitCode /\ status # 255 BY <1>2, <2>2
    <3>2. stop' => stop BY <1>2, <3>1, Zenon
    <3> QED BY <3>1, <3>2 DEF Codes
  <2> QED BY <2>1, <2>2
<1>7. ReapedHaveEnded' BY WaitFacts DEF ReapedHaveEnded
<1>8. exitCode' = 0 => exitCode = 0 /\ children[Oldest].status = 0
  BY <1>1, <1>2, <1>3, <1>4
<1>9. result' = result => Justified(result)'
  BY CodesStay, WaitFacts DEF Codes
<1> QED BY <1>5, <1>6, <1>7, <1>8, <1>9

LEMMA WaitStep ==
    ASSUME EInv, wait_one, InGroup, InGroup', opts' = opts, input' = input, TInv',
           result' = result
    PROVE  EInv'
<1> USE DEF EInv, TInv
<1>1. ReapedHaveEnded' /\ Codes' BY WaitCodes DEF Codes, InGroup
<1>2. NobodyLost'
  <2> SUFFICES ASSUME result' = 0, NEW c \in DOMAIN children', ~children'[c].reaped
               PROVE  InPool(c)'
    BY DEF NobodyLost
  <2>1. c \in DOMAIN children /\ ~children[c].reaped /\ c # Oldest
    BY WaitFacts
  <2>2. PICK i \in 1..Len(running) : running[i] = c
    BY <2>1 DEF NobodyLost, InPool
  <2>3. i # 1 /\ i - 1 \in 1..Len(running') /\ running'[i - 1] = c
    BY <2>1, <2>2, WaitFacts
  <2> QED BY <2>3 DEF InPool
<1>3. NobodyFailed'
  <2> SUFFICES ASSUME result' = 0, exitCode' = 0,
                      NEW c \in DOMAIN children', children'[c].reaped
               PROVE  children'[c].status = 0
    BY DEF NobodyFailed
  <2>1. exitCode = 0 /\ children[Oldest].status = 0 BY WaitCodes
  <2> QED BY <2>1, WaitFacts DEF NobodyFailed
<1> QED BY <1>1, <1>2, <1>3

\* execute_command returns a failure: what was left behind no longer matters.
LEMMA ReturnFailure ==
    ASSUME TInv', ReapedHaveEnded', Codes', result' # 0
    PROVE  EInv'
BY DEF EInv, NobodyLost, NobodyFailed

LEMMA EInvStep == EInv /\ [Next]_vars => EInv'
<1> SUFFICES ASSUME EInv, [Next]_vars PROVE EInv' OBVIOUS
<1>1. /\ TInv /\ TInv' /\ TypeOK /\ TypeOK' /\ Control /\ Codes /\ ReapedHaveEnded
      /\ NobodyLost /\ NobodyFailed
  BY TInvStep DEF EInv, TInv
<1>2. CASE SkipEmptyInput \/ AllGroupsDone \/ Terminated
  <2>1. /\ UNCHANGED <<opts, input, children, running, stop, exitCode, result>>
        /\ ~InGroup /\ ~InGroup' /\ pc' = "exit"
    BY <1>2 DEF SkipEmptyInput, AllGroupsDone, Terminated, vars, pool, InGroup
  <2> QED BY <1>1, <2>1, QuietStep
<1>3. CASE Begin
  <2>1. /\ UNCHANGED <<opts, children, running, stop, exitCode, result>>
        /\ ~InGroup /\ ~InGroup' /\ pc' = "group"
    BY <1>3 DEF Begin, pool, InGroup
  <2>2. ItemsOf(input) \subseteq ItemsOf(input)'
    BY <1>3 DEF Begin, ItemsOf
  <2> QED BY <1>1, <2>1, <2>2, QuietStep
<1>4. CASE TakeItem \/ Overflow \/ EndOfGroup \/ Decline
  <2>1. /\ UNCHANGED <<opts, input, children, running, stop, exitCode, result>>
        /\ InGroup /\ InGroup' /\ pc' # "begin"
    BY <1>4 DEF TakeItem, Overflow, EndOfGroup, Decline, Resume, pool, InGroup
  <2> QED BY <1>1, <2>1, QuietStep
<1>5. CASE UNCHANGED vars
  <2>1. /\ UNCHANGED <<opts, input, children, running, stop, exitCode, result, pc>>
    BY <1>5 DEF vars
  <2>2. InGroup' <=> InGroup BY <2>1 DEF InGroup
  <2> QED BY <1>1, <2>1, <2>2, QuietStep
<1>6. CASE EnterGroup
  <2>1. /\ UNCHANGED <<opts, input, children>> /\ ~InGroup /\ pc' # "begin"
        /\ exitCode' = 0 /\ stop' = FALSE
        /\ \/ result' = result /\ InGroup'
           \/ /\ result' = SizeExceeded /\ opts.exitIfExceeded
              /\ ~fits_limits(<<>>, <<>>)
    BY <1>6 DEF EnterGroup, FreshLocals, ReturnFromGroup, SizeExceeded, FinalCodes, InGroup
  <2>2. Codes'
    <3>1. result' = SizeExceeded => TooLong'
      BY <1>1, <2>1, OverLong DEF TooLong, WithinChars, Codes, Justified
    <3>2. Justified(result)'
      BY <1>1, <2>1, <3>1, CodesStay, JustifiedConstants DEF Codes
    <3> QED BY <2>1, <3>2, JustifiedConstants DEF Codes
  <2>3. ReapedHaveEnded' BY <1>1, <2>1 DEF ReapedHaveEnded
  <2>4. CASE result' = result
    <3>1. NobodyLost' /\ NobodyFailed'
      BY <1>1, <2>1, <2>4 DEF NobodyLost, NobodyFailed, InPool
    <3> QED BY <1>1, <2>2, <2>3, <3>1 DEF EInv
  <2>5. CASE result' = SizeExceeded
    BY <1>1, <2>2, <2>3, <2>5, ReturnFailure DEF SizeExceeded
  <2> QED BY <2>1, <2>4, <2>5
<1>7. CASE TakeHeldItem
  <2>1. /\ UNCHANGED <<opts, input, children, running, stop, exitCode>>
        /\ InGroup /\ pc' # "begin"
        /\ \/ result' = result /\ InGroup'
           \/ /\ result' = SizeExceeded /\ opts.exitIfExceeded
              /\ ~fits_limits(input[g], <<NextItem>>)
    BY <1>7 DEF TakeHeldItem, ReturnFromGroup, SizeExceeded, FinalCodes, InGroup, pool
  <2>2. CASE result' = result /\ InGroup' BY <1>1, <2>1, <2>2, QuietStep
  <2>3. CASE /\ result' = SizeExceeded /\ opts.exitIfExceeded
             /\ ~fits_limits(input[g], <<NextItem>>)
    <3>1. TooLong
      <4>1. g \in 1..Len(input) /\ pos < Len(input[g])
        BY <1>1, <1>7, <2>1 DEF Control, TakeHeldItem
      <4> QED BY <1>1, <2>1, <2>3, <4>1, OverLong
    <3>2. TooLong' BY <2>1, <3>1 DEF TooLong, WithinChars
    <3>3. Codes' /\ ReapedHaveEnded'
      BY <1>1, <2>1, <2>3, <3>2, CodesStay, JustifiedConstants
         DEF Codes, ReapedHaveEnded
    <3> QED BY <1>1, <2>3, <3>3, ReturnFailure DEF SizeExceeded
  <2> QED BY <2>1, <2>2, <2>3
<1>8. CASE Launch
  <2> DEFINE new == Len(children) + 1
             child == [items |-> batch, slot |-> Slot, alive |-> TRUE, status |-> 0,
                       reaped |-> FALSE]
  <2>1. /\ UNCHANGED <<opts, input, stop, exitCode, result>> /\ InGroup /\ InGroup'
        /\ pc' # "begin"
    BY <1>8 DEF Launch, Resume, InGroup
  <2>2. child \in Child BY <1>1, SlotTypes DEF Child, TypeOK
  <2>3. /\ DOMAIN children' = 1..new /\ DOMAIN children = 1..Len(children)
        /\ Len(children) \in Nat
        /\ \A c \in DOMAIN children : children'[c] = children[c]
        /\ children'[new] = child
    <3>1. children \in Seq(Child) /\ children' = Append(children, child)
      BY <1>1, <1>8 DEF Launch, TypeOK
    <3> HIDE DEF child
    <3> QED BY <2>2, <3>1, AppendFacts, LenProperties
  <2>4. /\ Len(running) \in Nat /\ Len(running') = Len(running) + 1
        /\ \A i \in 1..Len(running) : running'[i] = running[i]
        /\ running'[Len(running) + 1] = new
    <3>1. DOMAIN children \subseteq 1..new /\ new \in 1..new BY <2>3
    <3>2. running \in Seq(1..new) BY <1>1, <3>1, SeqMonotonic DEF TypeOK
    <3> QED BY <1>8, <3>1, <3>2, AppendFacts, LenProperties DEF Launch
  <2>5. \A c \in DOMAIN children' : c \in DOMAIN children \/ c = new
    BY <2>3
  <2>6. ~child.reaped OBVIOUS
  <2> HIDE DEF child, new
  <2>7. ReapedHaveEnded' /\ NobodyFailed'
    BY <1>1, <2>1, <2>3, <2>5, <2>6 DEF ReapedHaveEnded, NobodyFailed
  <2>8. Codes' BY <1>1, <2>1, <2>3, <2>5, CodesStay DEF Codes, new
  <2>9. NobodyLost'
    <3> SUFFICES ASSUME result' = 0, NEW c \in DOMAIN children', ~children'[c].reaped
                 PROVE  InPool(c)'
      BY DEF NobodyLost
    <3>1. CASE c = new BY <2>1, <2>4, <3>1 DEF InPool
    <3>2. CASE c \in DOMAIN children
      <4>1. PICK i \in 1..Len(running) : running[i] = c
        BY <1>1, <2>1, <2>3, <3>2 DEF NobodyLost, InPool
      <4>2. i \in 1..Len(running') /\ running'[i] = c BY <2>4, <4>1
      <4> QED BY <2>1, <4>2 DEF InPool
    <3> QED BY <2>5, <3>1, <3>2
  <2> QED BY <1>1, <2>7, <2>8, <2>9 DEF EInv
<1>9. CASE LaunchFails
  <2>1. /\ UNCHANGED <<opts, input, children, running>> /\ InGroup /\ pc' # "begin"
        /\ exitCode' = CannotLaunch
        /\ \/ result' = result /\ InGroup'
           \/ result' = CannotLaunch
    BY <1>9 DEF LaunchFails, GiveUp, ReturnFromGroup, CannotLaunch, FinalCodes, InGroup
  <2>2. Codes' /\ ReapedHaveEnded'
    BY <1>1, <2>1, CodesStay, JustifiedConstants DEF Codes, ReapedHaveEnded, CannotLaunch
  <2>3. CASE result' = result /\ InGroup'
    <3>1. NobodyLost' /\ NobodyFailed'
      BY <1>1, <2>1, <2>3 DEF NobodyLost, NobodyFailed, InPool, CannotLaunch
    <3> QED BY <1>1, <2>2, <3>1 DEF EInv
  <2>4. CASE result' = CannotLaunch
    BY <1>1, <2>2, <2>4, ReturnFailure DEF CannotLaunch
  <2> QED BY <2>1, <2>3, <2>4
<1>10. CASE Throttle
  <2>1. /\ wait_one /\ UNCHANGED <<opts, input>> /\ InGroup /\ pc' # "begin"
        /\ \/ result' = result /\ InGroup'
           \/ stop' /\ result' = IF exitCode' # 0 THEN exitCode' ELSE result
    BY <1>10 DEF Throttle, GiveUp, ReturnFromGroup, FinalCodes, Resume, InGroup
  <2>2. CASE result' = result /\ InGroup'
    BY <1>1, <2>1, <2>2, WaitStep DEF EInv
  <2>3. CASE stop' /\ result' = IF exitCode' # 0 THEN exitCode' ELSE result
    <3>1. Justified(exitCode)' /\ (stop' => exitCode' # 0) /\ ReapedHaveEnded'
      BY <1>1, <2>1, WaitCodes
    <3>2. result' = exitCode' /\ exitCode' # 0 BY <2>3, <3>1
    <3>3. Justified(result)' BY <3>1, <3>2 DEF Justified
    <3>4. Codes' BY <2>1, <3>1, <3>3 DEF Codes
    <3> QED BY <1>1, <3>1, <3>2, <3>4, ReturnFailure
  <2> QED BY <2>1, <2>2, <2>3
<1>11. CASE Drain
  <2>1. /\ wait_one /\ UNCHANGED <<opts, input, result>> /\ InGroup /\ InGroup'
    BY <1>11 DEF Drain, InGroup
  <2> QED BY <1>1, <2>1, WaitStep
<1>12. CASE GroupDone
  <2>1. /\ UNCHANGED <<opts, input, children, running, stop, exitCode>> /\ InGroup
        /\ running = <<>> /\ ~InGroup' /\ pc' # "begin"
        /\ result' = IF exitCode # 0 THEN exitCode ELSE result
    BY <1>12 DEF GroupDone, ReturnFromGroup, FinalCodes, InGroup, pool
  <2>2. Codes' /\ ReapedHaveEnded'
    BY <1>1, <2>1, CodesStay DEF Codes, ReapedHaveEnded
  <2>3. NobodyLost' /\ NobodyFailed'
    BY <1>1, <2>1 DEF NobodyLost, NobodyFailed, InPool
  <2> QED BY <1>1, <2>2, <2>3 DEF EInv
<1>13. ASSUME NEW c \in DOMAIN children, ChildExits(c) PROVE EInv'
  <2>1. /\ UNCHANGED <<opts, input, pc, running, stop, exitCode, result>>
        /\ DOMAIN children' = DOMAIN children /\ children[c].alive
        /\ \A d \in DOMAIN children :
              /\ children'[d].reaped = children[d].reaped
              /\ d # c => children'[d] = children[d]
    BY <1>13 DEF ChildExits
  <2>2. ReapedHaveEnded' /\ NobodyFailed'
    BY <1>1, <2>1 DEF ReapedHaveEnded, NobodyFailed, InGroup
  <2>3. Codes' BY <1>1, <2>1, CodesStay DEF Codes, ReapedHaveEnded
  <2>4. NobodyLost' BY <1>1, <2>1 DEF NobodyLost, InPool, InGroup
  <2> QED BY <1>1, <2>2, <2>3, <2>4 DEF EInv
<1> QED
  BY <1>2, <1>3, <1>4, <1>5, <1>6, <1>7, <1>8, <1>9, <1>10, <1>11, <1>12, <1>13
     DEF Next, Xargs

\* Exit status 0 tells the truth of the commands: each was waited for and each
\* succeeded, whatever order they ended in (wait_one, execute_command).
THEOREM ZeroMeansSuccess == Spec => []AllSucceeded
<1>1. EInv => AllSucceeded
  BY DEF EInv, NobodyLost, NobodyFailed, InPool, InGroup, AllSucceeded
<1> QED BY EInvInit, EInvStep, <1>1, PTL DEF Spec

\* A nonzero exit status names something that happened (map_child_exit_status,
\* fits_limits, execute_command).
THEOREM NonzeroIsJustified == Spec => []ResultJustified
<1>1. EInv => ResultJustified BY DEF EInv, Codes, ResultJustified
<1> QED BY EInvInit, EInvStep, <1>1, PTL DEF Spec

(***************************************************************************)
(* The input.  Nothing is held back while the program waits for a child,   *)
(* and the group is used up when its last batch is run.                    *)
(***************************************************************************)
Places ==
    /\ pc \in {"held", "throttle", "drain"} => batch = <<>>
    /\ pc = "drain" => pos = Len(input[g])
    /\ pc \in {"run", "throttle"} /\ site # "overflow" => pos = Len(input[g])

PInv == EInv /\ Places

LEMMA PInvStep == PInv /\ [Next]_vars => PInv'
<1> SUFFICES ASSUME PInv, [Next]_vars PROVE PInv' OBVIOUS
<1>1. TypeOK /\ Places /\ EInv' BY EInvStep DEF PInv, EInv, TInv
<1> USE DEF Places
<1>2. CASE SkipEmptyInput \/ Begin \/ AllGroupsDone
  BY <1>1, <1>2 DEF SkipEmptyInput, Begin, AllGroupsDone, PInv
<1>3. CASE EnterGroup
  <2>1. /\ g' = g + 1 /\ input' = input /\ batch' = <<>> /\ pos' = 0
        /\ pc' \in {"group", "exit", "read"} \/ (pc' = "run" /\ input[g + 1] = <<>>)
    BY <1>3 DEF EnterGroup, FreshLocals, ReturnFromGroup
  <2>2. Places' BY <2>1
  <2> QED BY <1>1, <2>2 DEF PInv
<1>4. CASE TakeItem \/ Overflow \/ TakeHeldItem \/ EndOfGroup
  <2>1. Places'
    BY <1>1, <1>4 DEF TakeItem, Overflow, TakeHeldItem, EndOfGroup, ReturnFromGroup
  <2> QED BY <1>1, <2>1 DEF PInv
<1>5. CASE Decline \/ Launch
  <2>1. Places' BY <1>1, <1>5 DEF Decline, Launch, Resume, TypeOK
  <2> QED BY <1>1, <2>1 DEF PInv
<1>6. CASE LaunchFails
  <2>1. Places' BY <1>1, <1>6 DEF LaunchFails, GiveUp, ReturnFromGroup
  <2> QED BY <1>1, <2>1 DEF PInv
<1>7. CASE Throttle
  <2>1. Places'
    BY <1>1, <1>7 DEF Throttle, GiveUp, ReturnFromGroup, Resume, TypeOK
  <2> QED BY <1>1, <2>1 DEF PInv
<1>8. CASE Drain \/ GroupDone
  <2>1. Places' BY <1>1, <1>8 DEF Drain, GroupDone, ReturnFromGroup
  <2> QED BY <1>1, <2>1 DEF PInv
<1>9. ASSUME NEW c \in DOMAIN children, ChildExits(c) PROVE PInv'
  <2>1. Places' BY <1>1, <1>9 DEF ChildExits
  <2> QED BY <1>1, <2>1 DEF PInv
<1>10. CASE Terminated \/ UNCHANGED vars
  <2>1. Places' BY <1>1, <1>10 DEF Terminated, vars
  <2> QED BY <1>1, <2>1 DEF PInv
<1> QED BY <1>2, <1>3, <1>4, <1>5, <1>6, <1>7, <1>8, <1>9, <1>10 DEF Next, Xargs

LEMMA PInvInit == Init => PInv
BY EInvInit DEF PInv, Places, Init

\* The items of this call of execute_command not dealt with, and those of the
\* calls to come.
Own  == batch \o SubSeq(input[g], pos + 1, Len(input[g]))
Rest == FlattenSeq(SubSeq(input, g + 1, Len(input)))

LEMMA PendingIs ==
    ASSUME TInv
    PROVE  /\ Rest \in Seq(Items)
           /\ InGroup => Own \in Seq(Items) /\ Pending = Own \o Rest
           /\ ~InGroup => Pending = Rest
           /\ Pending \in Seq(Items)
<1> USE DEF TInv, TypeOK
<1>1. SubSeq(input, g + 1, Len(input)) \in Seq(Seq(Items))
  BY LaterPart, LenProperties
<1>2. Rest \in Seq(Items) BY <1>1, FlattenType DEF Rest
<1>3. ASSUME InGroup PROVE Own \in Seq(Items)
  <2>1. g \in 1..Len(input) /\ input[g] \in Seq(Items)
    BY <1>3, ElementOfSeq, LenProperties DEF Control
  <2>2. pos \in 0..Len(input[g]) BY <2>1
  <2>3. SubSeq(input[g], pos + 1, Len(input[g])) \in Seq(Items)
    BY <2>1, <2>2, LaterPart
  <2>4. batch \in Seq(Items) OBVIOUS
  <2> QED BY <2>3, <2>4, ConcatProperties DEF Own
<1>4. InGroup => Pending = Own \o Rest BY DEF Pending, Own, Rest
<1>5. ~InGroup => Pending = Rest BY <1>2 DEF Pending, Rest
<1>6. Pending \in Seq(Items)
  <2>1. ASSUME InGroup PROVE Own \o Rest \in Seq(Items)
    <3> HIDE DEF TInv, TypeOK
    <3> QED BY <1>2, <1>3, <2>1, ConcatProperties
  <2> QED BY <1>2, <1>4, <1>5, <2>1
<1> QED BY <1>2, <1>3, <1>4, <1>5, <1>6

Over == pc = "exit"

\* The kinds of step xargs takes with respect to its input.
StaysSame == Pending' = Pending /\ handled' = handled /\ (Failing' <=> Failing) /\ (Over' <=> Over)
Passes(n) == ~Over /\ handled' = handled /\ Failing' /\ Pending' = SubSeq(Pending, n + 1, Len(Pending))
Hands(n)  ==
    /\ ~Over /\ ~Over' /\ (Failing' <=> Failing)
    /\ handled' = handled \o SubSeq(Pending, 1, n)
    /\ Pending' = SubSeq(Pending, n + 1, Len(Pending))
Ends == ~Over /\ Over' /\ (Pending # <<>> => Failing) /\ Pending' = Pending
        /\ handled' = handled /\ (Failing' <=> Failing)

Delivers ==
    \/ StaysSame \/ Ends
    \/ \E n \in 0..Len(Pending) : Passes(n) \/ Hands(n)

LEMMA DeliversImplements == Delivers => [Delivery!DNext]_(Delivery!dvars)
<1>1. ASSUME StaysSame PROVE UNCHANGED Delivery!dvars
  <2>1. Failing' = Failing BY <1>1, Zenon DEF StaysSame, Failing
  <2>2. (pc = "exit")' = (pc = "exit")
    BY <1>1, Zenon DEF StaysSame, Over
  <2> QED BY <1>1, <2>1, <2>2, Zenon DEF StaysSame, Delivery!dvars
<1>2. ASSUME Ends PROVE Delivery!Finish
  <2>1. Failing' = Failing BY <1>2, Zenon DEF Ends, Failing
  <2>2. (pc = "exit")' = TRUE BY <1>2, Zenon DEF Ends, Over
  <2> QED BY <1>2, <2>1, <2>2, Zenon DEF Ends, Over, Delivery!Finish
<1>3. ASSUME NEW n \in 0..Len(Pending), Passes(n)
      PROVE  Delivery!PassOver(n) \/ Delivery!FailAndFinish(n)
  <2>1. Failing' = TRUE BY <1>3, Zenon DEF Passes, Failing
  <2>2. CASE Over'
    <3>1. (pc = "exit")' = TRUE BY <2>2, Zenon DEF Over
    <3> QED
      BY <1>3, <2>1, <3>1, Zenon DEF Passes, Over, Delivery!FailAndFinish, Delivery!Without
  <2>3. CASE ~Over'
    <3>1. (pc = "exit")' = (pc = "exit")
      BY <1>3, <2>3, Zenon DEF Over, Passes
    <3> QED
      BY <1>3, <2>1, <3>1, Zenon DEF Passes, Over, Delivery!PassOver, Delivery!Without
  <2> QED BY <2>2, <2>3
<1>4. ASSUME NEW n \in 0..Len(Pending), Hands(n)
      PROVE  Delivery!Deal(n)
  <2>1. Failing' = Failing BY <1>4, Zenon DEF Hands, Failing
  <2>2. (pc = "exit")' = (pc = "exit") BY <1>4, Zenon DEF Hands, Over
  <2> QED
    BY <1>4, <2>1, <2>2, Zenon DEF Hands, Over, Delivery!Deal, Delivery!Without
<1> QED BY <1>1, <1>2, <1>3, <1>4 DEF Delivers, Delivery!DNext

LEMMA SameDelivers ==
    ASSUME Pending' = Pending, handled' = handled, Failing' <=> Failing, Over' <=> Over
    PROVE  Delivers
BY DEF StaysSame, Delivers

\* What execute_command has not dealt with is given up, and the run fails.
LEMMA OwnPassedOver ==
    ASSUME TInv, InGroup, Pending' = Rest, handled' = handled, Failing'
    PROVE  Delivers
<1>1. Own \in Seq(Items) /\ Rest \in Seq(Items) /\ Pending = Own \o Rest
  BY PendingIs
<1>2. Len(Own) \in 0..Len(Pending) /\ SubSeq(Pending, Len(Own) + 1, Len(Pending)) = Rest
  BY <1>1, SplitAgain
<1>3. ~Over BY DEF InGroup, Over
<1>4. Passes(Len(Own)) BY <1>2, <1>3 DEF Passes
<1> QED BY <1>2, <1>4 DEF Delivers

\* The run fails, and nothing is given up yet.
LEMMA FailureNoted ==
    ASSUME TInv, ~Over, Pending' = Pending, handled' = handled, Failing'
    PROVE  Delivers
<1>1. Pending \in Seq(Items) /\ Len(Pending) \in Nat
  BY PendingIs, LenProperties
<1>2. SubSeq(Pending, 0 + 1, Len(Pending)) = Pending BY <1>1, LaterEnds
<1>3. 0 \in 0..Len(Pending) /\ Passes(0) BY <1>1, <1>2 DEF Passes
<1> QED BY <1>3 DEF Delivers

\* The batch is launched or refused.
LEMMA BatchHanded ==
    ASSUME TInv, InGroup, InGroup', handled' = handled \o batch, batch' = <<>>,
           UNCHANGED <<input, g, pos>>, Failing' <=> Failing
    PROVE  Delivers
<1> DEFINE tl == SubSeq(input[g], pos + 1, Len(input[g]))
<1>1. tl \in Seq(Items) /\ batch \in Seq(Items) /\ Rest \in Seq(Items)
  <2>1. g \in 1..Len(input) /\ input[g] \in Seq(Items) /\ pos \in 0..Len(input[g])
    BY ElementOfSeq, LenProperties DEF Control, TInv, TypeOK
  <2>2. SubSeq(input[g], pos + 1, Len(input[g])) \in Seq(Items)
    BY <2>1, LaterPart
  <2> QED BY <2>2, PendingIs DEF TInv, TypeOK
<1>2. Pending = (batch \o tl) \o Rest BY PendingIs DEF Own
<1>3. Pending' = (<<>> \o tl) \o Rest BY DEF Pending, Rest
<1> HIDE DEF tl
<1>4. Pending = batch \o (tl \o Rest) BY <1>1, <1>2, ConcatAssociates
<1>5. Pending' = tl \o Rest BY <1>1, <1>3
<1> DEFINE r == tl \o Rest
<1>6. r \in Seq(Items) BY <1>1, ConcatProperties
<1>7. Pending = batch \o r /\ Pending' = r BY <1>4, <1>5
<1> HIDE DEF r
<1>8. /\ Len(batch) \in 0..Len(Pending)
      /\ SubSeq(Pending, 1, Len(batch)) = batch
      /\ SubSeq(Pending, Len(batch) + 1, Len(Pending)) = r
  <2>1. /\ Len(batch) \in 0..Len(batch \o r)
        /\ SubSeq(batch \o r, 1, Len(batch)) = batch
        /\ SubSeq(batch \o r, Len(batch) + 1, Len(batch \o r)) = r
    BY ONLY <1>1, <1>6, SplitAgain
  <2> QED BY ONLY <1>7, <2>1
<1>9. ~Over /\ ~Over' BY DEF InGroup, Over
<1>10. Hands(Len(batch)) BY <1>7, <1>8, <1>9 DEF Hands
<1> QED BY <1>8, <1>10 DEF Delivers

\* A failure of the run stays one while a child is waited for.
LEMMA WaitKeepsOwn ==
    ASSUME PInv, TInv', wait_one, InGroup, InGroup', UNCHANGED <<opts, input, g, pos, batch>>,
           result' = result, handled' = handled
    PROVE  Delivers
<1>1. Failing => Failing' BY WaitCodes DEF Failing, PInv, EInv, TInv
<1>2. Pending' = Pending /\ ~Over /\ ~Over'
  BY DEF Pending, InGroup, Over
<1>3. CASE Failing' BY <1>2, <1>3, FailureNoted DEF PInv, EInv
<1>4. CASE ~Failing' BY <1>1, <1>2, <1>4, SameDelivers
<1> QED BY <1>3, <1>4

LEMMA BeginKeepsInput ==
    ASSUME TInv, Begin
    PROVE  Pending' = Pending /\ FlattenSeq(input)' = FlattenSeq(input)
<1>1. ~InGroup /\ ~InGroup' /\ g = 0 /\ g' = 0 /\ input \in Seq(Seq(Items))
  BY DEF Begin, InGroup, TInv, Control, TypeOK
<1>2. FlattenSeq(input)' = FlattenSeq(input)
  <2>1. CASE input = <<>>
    <3>1. <<>> \in Seq(Items) BY EmptySeq
    <3>2. << <<>> >> \in Seq(Seq(Items)) BY <3>1
    <3>3. input' = << <<>> >> BY <2>1 DEF Begin
    <3>4. FlattenSeq(<< <<>> >>) = <<>>
      <4> DEFINE s == << <<>> >>
      <4>1. \A i \in DOMAIN s : s[i] = <<>> OBVIOUS
      <4>2. s \in Seq(Seq(Items)) BY <3>2
      <4> HIDE DEF s
      <4>3. FlattenSeq(s) = <<>> BY <4>1, <4>2, FlattenAllEmpty
      <4> QED BY <4>3 DEF s
    <3> QED BY <2>1, <3>3, <3>4, FlattenEmpty
  <2>2. CASE input # <<>> BY <2>2 DEF Begin
  <2> QED BY <2>1, <2>2
<1>3. input' \in Seq(Seq(Items))
  <2>1. <<>> \in Seq(Items) BY EmptySeq
  <2> QED BY <1>1, <2>1 DEF Begin
<1>4. SubSeq(input, g + 1, Len(input)) = input /\ SubSeq(input', g' + 1, Len(input')) = input'
  BY <1>1, <1>3, SubSeqFull
<1>5. Rest = FlattenSeq(input) /\ Rest' = FlattenSeq(input)'
  BY <1>4 DEF Rest
<1>6. Pending = Rest BY <1>1, PendingIs
<1>7. Pending' = <<>> \o Rest' BY <1>1 DEF Pending, Rest
<1>8. Rest' \in Seq(Items) BY <1>3, <1>5, FlattenType
<1> QED BY <1>2, <1>5, <1>6, <1>7, <1>8

LEMMA RestOfGroups ==
    ASSUME TInv, ~InGroup, g < Len(input)
    PROVE  /\ input[g + 1] \in Seq(Items)
           /\ Rest = input[g + 1] \o FlattenSeq(SubSeq(input, g + 1 + 1, Len(input)))
           /\ FlattenSeq(SubSeq(input, g + 1 + 1, Len(input))) \in Seq(Items)
<1>1. input \in Seq(Seq(Items)) /\ g \in Nat /\ Len(input) \in Nat
  BY LenProperties DEF TInv, TypeOK
<1>2. PICK k \in 1..Len(input) : k = g + 1 BY <1>1
<1>3. FlattenSeq(SubSeq(input, k, Len(input))) =
         input[k] \o FlattenSeq(SubSeq(input, k + 1, Len(input)))
  BY <1>1, <1>2, FlattenLater
<1>4. SubSeq(input, k + 1, Len(input)) \in Seq(Seq(Items))
  BY <1>1, <1>2, LaterPart
<1>5. FlattenSeq(SubSeq(input, k + 1, Len(input))) \in Seq(Items)
  BY <1>4, FlattenType
<1>6. input[k] \in Seq(Items) BY <1>1, <1>2, ElementOfSeq
<1> QED BY <1>2, <1>3, <1>5, <1>6 DEF Rest

LEMMA NextKeepsOwn ==
    ASSUME TInv, InGroup, pos < Len(input[g])
    PROVE  /\ Append(batch, NextItem) \o SubSeq(input[g], pos + 1 + 1, Len(input[g])) = Own
           /\ batch = <<>> =>
                <<NextItem>> \o SubSeq(input[g], pos + 1 + 1, Len(input[g])) = Own
<1>1. g \in 1..Len(input) /\ input[g] \in Seq(Items) /\ pos \in Nat /\ batch \in Seq(Items)
      /\ Len(input[g]) \in Nat
  BY ElementOfSeq, LenProperties DEF Control, TInv, TypeOK
<1>2. PICK k \in 1..Len(input[g]) : k = pos + 1 BY <1>1
<1> DEFINE s == input[g]
<1>3. s \in Seq(Items) /\ k \in 1..Len(s) BY <1>1, <1>2
<1> HIDE DEF s
<1>4. Append(batch, s[k]) \o SubSeq(s, k + 1, Len(s)) = batch \o SubSeq(s, k, Len(s))
  BY <1>1, <1>2, <1>3, TakeNext
<1>5. batch = <<>> => Append(batch, s[k]) = <<s[k]>> BY <1>3
<1> QED BY <1>2, <1>4, <1>5 DEF s, Own, NextItem

\* The group is used up: nothing of it is pending.
LEMMA OwnUsedUp ==
    ASSUME TInv, InGroup, batch = <<>>, pos = Len(input[g])
    PROVE  Own = <<>> /\ Pending = Rest
<1>1. g \in 1..Len(input) /\ input[g] \in Seq(Items)
  BY ElementOfSeq, LenProperties DEF Control, TInv, TypeOK
<1>2. SubSeq(input[g], Len(input[g]) + 1, Len(input[g])) = <<>>
  BY <1>1, LaterEnds
<1>3. Own = <<>> BY <1>2 DEF Own
<1>4. Rest \in Seq(Items) /\ Pending = Own \o Rest BY PendingIs
<1> QED BY <1>3, <1>4

LEMMA NextDelivers ==
    ASSUME PInv, [Next]_vars
    PROVE  Delivers /\ FlattenSeq(input)' = FlattenSeq(input)
<1>1. /\ TInv /\ TInv' /\ TypeOK /\ Control /\ Places /\ Codes /\ PInv /\ Places'
      /\ Codes' /\ EInv /\ EInv'
  BY PInvStep DEF PInv, EInv, TInv
<1>2. CASE SkipEmptyInput
  <2>1. /\ UNCHANGED <<input, g, result, handled>> /\ ~InGroup /\ ~InGroup' /\ ~Over /\ Over'
        /\ g = 0 /\ InputEmpty
    BY <1>1, <1>2 DEF SkipEmptyInput, InGroup, Over, Control
  <2>2. input \in Seq(Seq(Items)) BY <1>1 DEF TypeOK
  <2>3. Pending = FlattenSeq(input)
    <3>1. SubSeq(input, g + 1, Len(input)) = input
      BY <2>1, <2>2, SubSeqFull
    <3> QED BY <1>1, <2>1, <3>1, PendingIs DEF Rest
  <2>4. FlattenSeq(input) = <<>>
    BY <2>1, <2>2, FlattenAllEmpty DEF InputEmpty
  <2>5. Pending' = Pending /\ (Failing' <=> Failing)
    BY <2>1 DEF Pending, Failing
  <2>6. Ends BY <2>1, <2>3, <2>4, <2>5 DEF Ends
  <2> QED BY <2>1, <2>6 DEF Delivers
<1>3. CASE Begin
  <2>1. Pending' = Pending /\ FlattenSeq(input)' = FlattenSeq(input)
    BY <1>1, <1>3, BeginKeepsInput
  <2>2. (Failing' <=> Failing) /\ handled' = handled /\ ~Over /\ ~Over'
    BY <1>3 DEF Begin, Failing, InGroup, Over
  <2> QED BY <2>1, <2>2, SameDelivers
<1>4. CASE AllGroupsDone
  <2>1. /\ UNCHANGED <<input, g, result, handled>> /\ ~InGroup /\ ~InGroup' /\ ~Over /\ Over'
        /\ g = Len(input)
    BY <1>1, <1>4 DEF AllGroupsDone, InGroup, Over
  <2>2. input \in Seq(Seq(Items)) BY <1>1 DEF TypeOK
  <2>3. Pending = <<>>
    <3>1. SubSeq(input, g + 1, Len(input)) = <<>>
      BY <2>1, <2>2, LaterEnds
    <3>2. Rest = <<>> BY <3>1, FlattenEmpty DEF Rest
    <3> QED BY <1>1, <2>1, <3>2, PendingIs
  <2>4. Pending' = Pending /\ (Failing' <=> Failing)
    BY <2>1 DEF Pending, Failing
  <2>5. Ends BY <2>1, <2>3, <2>4 DEF Ends
  <2> QED BY <2>1, <2>5 DEF Delivers
<1>5. CASE EnterGroup
  <2>1. /\ UNCHANGED <<input, handled>> /\ ~InGroup /\ g < Len(input) /\ g' = g + 1
        /\ batch' = <<>> /\ pos' = 0 /\ exitCode' = 0 /\ ~Over /\ ~Over'
        /\ \/ result' = result /\ InGroup'
           \/ /\ result' = SizeExceeded /\ ~InGroup' /\ input[g + 1] = <<>>
    BY <1>5 DEF EnterGroup, FreshLocals, ReturnFromGroup, InGroup, SizeExceeded, FinalCodes, Over
  <2>2. PICK own \in Seq(Items) : own = input[g + 1]
    BY <1>1, <2>1, RestOfGroups
  <2>3. /\ Rest = own \o Rest' /\ Rest' \in Seq(Items) /\ Pending = Rest
    BY <1>1, <2>1, <2>2, RestOfGroups, PendingIs DEF Rest
  <2>4. CASE result' = result /\ InGroup'
    <3>1. SubSeq(own, 1, Len(own)) = own BY <2>2, SubSeqFull
    <3>2. Own' = <<>> \o SubSeq(own, 0 + 1, Len(own))
      BY <2>1, <2>2 DEF Own
    <3>3. Own' = own BY <2>2, <3>1, <3>2
    <3>4. Pending' = Own' \o Rest' BY <2>4 DEF Pending, Own, Rest
    <3>5. Failing' <=> Failing BY <2>1, <2>4 DEF Failing
    <3> QED BY <2>1, <2>3, <3>3, <3>4, <3>5, SameDelivers
  <2>5. CASE result' = SizeExceeded /\ ~InGroup' /\ input[g + 1] = <<>>
    <3>1. Rest = Rest' BY <2>2, <2>3, <2>5
    <3>2. Pending' = <<>> \o Rest' BY <2>5 DEF Pending, Rest
    <3>3. Pending' = Pending BY <2>3, <3>1, <3>2
    <3>4. Failing' BY <2>5 DEF Failing, SizeExceeded
    <3> QED BY <1>1, <2>1, <3>3, <3>4, FailureNoted
  <2> QED BY <2>1, <2>4, <2>5
<1>6. CASE TakeItem
  <2>1. /\ UNCHANGED <<input, g, result, exitCode, handled>> /\ InGroup /\ InGroup'
        /\ pos < Len(input[g]) /\ batch' = Append(batch, NextItem) /\ pos' = pos + 1
        /\ ~Over /\ ~Over'
    BY <1>6 DEF TakeItem, InGroup, Over
  <2>2. Own' = Own BY <1>1, <2>1, NextKeepsOwn DEF Own
  <2>3. Pending' = Pending BY <2>1, <2>2 DEF Pending, Own
  <2>4. Failing' <=> Failing BY <2>1 DEF Failing
  <2> QED BY <2>1, <2>3, <2>4, SameDelivers
<1>7. CASE Overflow \/ EndOfGroup
  <2>1. /\ UNCHANGED <<input, g, pos, batch, result, exitCode, handled>> /\ InGroup /\ InGroup'
        /\ ~Over /\ ~Over'
    BY <1>7 DEF Overflow, EndOfGroup, InGroup, Over
  <2>2. Pending' = Pending /\ (Failing' <=> Failing)
    BY <2>1 DEF Pending, Failing
  <2> QED BY <2>1, <2>2, SameDelivers
<1>8. CASE TakeHeldItem
  <2>1. /\ UNCHANGED <<input, g, exitCode, handled>> /\ InGroup /\ batch' = <<NextItem>>
        /\ pos' = pos + 1 /\ pos < Len(input[g]) /\ batch = <<>> /\ ~Over /\ ~Over'
        /\ \/ result' = result /\ InGroup'
           \/ result' = SizeExceeded /\ ~InGroup'
    BY <1>1, <1>8 DEF TakeHeldItem, InGroup, Over, ReturnFromGroup, SizeExceeded, FinalCodes,
       Control, Places
  <2>2. CASE result' = result /\ InGroup'
    <3>1. Own' = Own BY <1>1, <2>1, NextKeepsOwn DEF Own
    <3>2. Pending' = Pending BY <2>1, <2>2, <3>1 DEF Pending, Own
    <3>3. Failing' <=> Failing BY <2>1, <2>2 DEF Failing
    <3> QED BY <2>1, <3>2, <3>3, SameDelivers
  <2>3. CASE result' = SizeExceeded /\ ~InGroup'
    <3>1. Rest' = Rest /\ Rest \in Seq(Items)
      BY <1>1, <2>1, PendingIs DEF Rest
    <3>2. Pending' = <<>> \o Rest' BY <2>3 DEF Pending, Rest
    <3>3. Failing' /\ Pending' = Rest
      BY <2>3, <3>1, <3>2 DEF Failing, SizeExceeded
    <3> QED BY <1>1, <2>1, <3>3, OwnPassedOver
  <2> QED BY <2>1, <2>2, <2>3
<1>9. CASE Decline \/ Launch
  <2>1. /\ UNCHANGED <<input, g, pos, result, exitCode>> /\ InGroup /\ InGroup' /\ batch' = <<>>
        /\ handled' = handled \o batch
    BY <1>9 DEF Decline, Launch, InGroup, Resume
  <2>2. Failing' <=> Failing BY <2>1 DEF Failing
  <2> QED BY <1>1, <2>1, <2>2, BatchHanded
<1>10. CASE LaunchFails
  <2>1. /\ UNCHANGED <<input, g, pos, handled>> /\ InGroup /\ batch' = <<>>
        /\ exitCode' = CannotLaunch
        /\ \/ InGroup' /\ pos = Len(input[g])
           \/ result' = CannotLaunch /\ ~InGroup'
    BY <1>1, <1>10 DEF LaunchFails, GiveUp, ReturnFromGroup, CannotLaunch, FinalCodes, InGroup,
       Places
  <2>2. Rest' = Rest /\ Rest \in Seq(Items)
    BY <1>1, <2>1, PendingIs DEF Rest
  <2>3. Pending' = Rest
    <3>1. CASE InGroup' /\ pos = Len(input[g])
      <4>1. g \in 1..Len(input) /\ input[g] \in Seq(Items)
        BY <1>1, <2>1, ElementOfSeq, LenProperties DEF Control, TypeOK
      <4>2. SubSeq(input[g], Len(input[g]) + 1, Len(input[g])) = <<>>
        BY <4>1, LaterEnds
      <4>3. Own' = <<>> BY <2>1, <3>1, <4>2 DEF Own
      <4>4. Pending' = Own' \o Rest' BY <3>1 DEF Pending, Own, Rest
      <4> QED BY <2>2, <4>3, <4>4
    <3>2. CASE result' = CannotLaunch /\ ~InGroup'
      <4>1. Pending' = <<>> \o Rest' BY <3>2 DEF Pending, Rest
      <4> QED BY <2>2, <4>1
    <3> QED BY <2>1, <3>1, <3>2
  <2>4. Failing' BY <2>1 DEF Failing, CannotLaunch
  <2> QED BY <1>1, <2>1, <2>3, <2>4, OwnPassedOver
<1>11. CASE Throttle
  <2>1. /\ wait_one /\ UNCHANGED <<opts, input, g, pos, batch, handled>> /\ InGroup
        /\ \/ result' = result /\ InGroup'
           \/ stop' /\ ~InGroup' /\ result' = IF exitCode' # 0 THEN exitCode' ELSE result
    BY <1>11 DEF Throttle, GiveUp, ReturnFromGroup, FinalCodes, Resume, InGroup
  <2>2. CASE result' = result /\ InGroup'
    <3>1. UNCHANGED <<opts, input, g, pos, batch>> BY <2>1
    <3> QED BY <1>1, <2>1, <2>2, <3>1, WaitKeepsOwn
  <2>3. CASE stop' /\ ~InGroup' /\ result' = IF exitCode' # 0 THEN exitCode' ELSE result
    <3>1. Rest' = Rest /\ Rest \in Seq(Items)
      BY <1>1, <2>1, PendingIs DEF Rest
    <3>2. Pending' = <<>> \o Rest' BY <2>3 DEF Pending, Rest
    <3>3. exitCode' # 0 BY <1>1, <2>3 DEF Codes
    <3>4. Failing' /\ Pending' = Rest
      BY <2>3, <3>1, <3>2, <3>3 DEF Failing
    <3> QED BY <1>1, <2>1, <3>4, OwnPassedOver
  <2> QED BY <2>1, <2>2, <2>3
<1>12. CASE Drain
  <2>1. /\ wait_one /\ UNCHANGED <<opts, input, g, pos, batch>> /\ InGroup /\ InGroup'
        /\ result' = result /\ handled' = handled
    BY <1>12 DEF Drain, InGroup
  <2> QED BY <1>1, <2>1, WaitKeepsOwn
<1>13. CASE GroupDone
  <2>1. /\ UNCHANGED <<input, g, pos, batch, exitCode, handled>> /\ InGroup /\ ~InGroup'
        /\ batch = <<>> /\ pos = Len(input[g]) /\ ~Over
        /\ result' = IF exitCode # 0 THEN exitCode ELSE result
        /\ Over' => exitCode # 0
    BY <1>1, <1>13 DEF GroupDone, ReturnFromGroup, FinalCodes, InGroup, Places, Over
  <2>2. Rest' = Rest /\ Rest \in Seq(Items) /\ Pending = Rest
    BY <1>1, <2>1, PendingIs, OwnUsedUp DEF Rest
  <2>3. Pending' = <<>> \o Rest' BY <2>1 DEF Pending, Rest
  <2>4. Pending' = Pending BY <2>2, <2>3
  <2>5. Failing' <=> Failing BY <2>1 DEF Failing
  <2>6. CASE Over'
    <3>1. Ends BY <2>1, <2>4, <2>5, <2>6 DEF Ends, Failing
    <3> QED BY <2>1, <3>1 DEF Delivers
  <2>7. CASE ~Over' BY <2>1, <2>4, <2>5, <2>7, SameDelivers
  <2> QED BY <2>6, <2>7
<1>14. ASSUME UNCHANGED <<input, g, pos, batch, pc, exitCode, result, handled>>
       PROVE  Delivers /\ FlattenSeq(input)' = FlattenSeq(input)
  <2>1. /\ Pending' = Pending /\ (Failing' <=> Failing) /\ (Over' <=> Over)
        /\ FlattenSeq(input)' = FlattenSeq(input)
    BY <1>14 DEF Pending, Failing, InGroup, Over
  <2> QED BY <1>14, <2>1, SameDelivers
<1>15. ASSUME NEW c \in DOMAIN children, ChildExits(c)
       PROVE  Delivers /\ FlattenSeq(input)' = FlattenSeq(input)
  BY <1>14, <1>15 DEF ChildExits
<1>16. CASE Terminated \/ UNCHANGED vars
  BY <1>14, <1>16 DEF Terminated, vars
<1> QED
  BY <1>2, <1>3, <1>4, <1>5, <1>6, <1>7, <1>8, <1>9, <1>10, <1>11, <1>12, <1>13, <1>15, <1>16
     DEF Next, Xargs

\* xargs implements the promise about its input: items are dealt with in input
\* order, each at most once, and passed over only by a run that ends nonzero
\* (execute_command, run_batch, fits_limits).
THEOREM DeliversInput == Spec => ImplementsDelivery
<1>1. Init => Delivery!DInit
  <2> SUFFICES ASSUME Init PROVE Delivery!DInit OBVIOUS
  <2>1. Pending \in Seq(Items) BY TInvInit, PendingIs
  <2>2. handled = <<>> /\ Failing = FALSE /\ (pc = "exit") = FALSE
    BY DEF Init, Failing, InGroup
  <2> QED BY <2>1, <2>2 DEF Delivery!DInit
<1>2. PInv /\ [Next]_vars => [Delivery!DNext]_(Delivery!dvars)
  BY NextDelivers, DeliversImplements
<1> QED
  BY PInvInit, PInvStep, <1>1, <1>2, PTL DEF Spec, ImplementsDelivery, Delivery!DSpec

(***************************************************************************)
(* Exit status 0 and the input: while the run has not failed nothing of it *)
(* has been lost, and at the end nothing is pending.                       *)
(***************************************************************************)
Accounted ==
    /\ handled \in Seq(Items)
    /\ ~Failing => handled \o Pending = FlattenSeq(input)
    /\ Over /\ ~Failing => Pending = <<>>

LEMMA AccountedStep ==
    ASSUME PInv, [Next]_vars, Accounted
    PROVE  Accounted'
<1>1. Delivers /\ FlattenSeq(input)' = FlattenSeq(input) /\ handled' \in Seq(Items)
      /\ Pending \in Seq(Items) /\ handled \in Seq(Items)
  BY NextDelivers, PInvStep, PendingIs DEF PInv, EInv, TInv, TypeOK
<1>2. CASE StaysSame BY <1>1, <1>2 DEF StaysSame, Accounted
<1>3. CASE Ends BY <1>1, <1>3 DEF Ends, Accounted
<1>4. ASSUME NEW n \in 0..Len(Pending), Passes(n) PROVE Accounted'
  BY <1>1, <1>4 DEF Passes, Accounted
<1>5. ASSUME NEW n \in 0..Len(Pending), Hands(n) PROVE Accounted'
  <2>1. PICK all \in Seq(Items) : all = Pending BY <1>1
  <2>2. PICK a \in Seq(Items), b \in Seq(Items) :
           /\ a = SubSeq(all, 1, n) /\ b = SubSeq(all, n + 1, Len(all))
           /\ all = a \o b
    <3>1. n \in 0..Len(all) BY <2>1, <1>5
    <3>2. /\ SubSeq(all, 1, n) \in Seq(Items)
          /\ SubSeq(all, n + 1, Len(all)) \in Seq(Items)
          /\ all = SubSeq(all, 1, n) \o SubSeq(all, n + 1, Len(all))
      BY <3>1, Halves
    <3> QED BY <3>2, Zenon
  <2>3. handled' = handled \o a /\ Pending' = b /\ (Failing' <=> Failing) /\ ~Over'
    BY <1>5, <2>1, <2>2 DEF Hands
  <2>4. (handled \o a) \o b = handled \o (a \o b)
    <3>1. handled \in Seq(Items) BY <1>1
    <3>2. Joined(Joined(handled, a), b) = Joined(handled, Joined(a, b))
      BY <3>1, JoinedAssociates
    <3> QED BY <3>2 DEF Joined
  <2> QED BY <1>1, <2>1, <2>2, <2>3, <2>4 DEF Accounted
<1> QED BY <1>1, <1>2, <1>3, <1>4, <1>5 DEF Delivers

LEMMA AccountedInit == Init => Accounted
<1> SUFFICES ASSUME Init PROVE Accounted OBVIOUS
<1>1. TInv /\ ~InGroup /\ g = 0 /\ input \in Seq(Seq(Items)) /\ handled = <<>> /\ ~Over
  BY TInvInit DEF Init, InGroup, TInv, TypeOK, Over
<1>2. SubSeq(input, g + 1, Len(input)) = input BY <1>1, SubSeqFull
<1>3. Pending = FlattenSeq(input) /\ Pending \in Seq(Items)
  BY <1>1, <1>2, PendingIs DEF Rest
<1>4. <<>> \in Seq(Items) BY EmptySeq
<1> QED BY <1>1, <1>3, <1>4 DEF Accounted

\* The exit status of xargs can be believed: 0 means that every item was handed
\* to a command or refused, once and in input order, and that every command was
\* waited for and succeeded; anything else names something that happened
\* (wait_one, execute_command, map_child_exit_status).
THEOREM StatusIsTrue == Spec => []StatusTellsTruth
<1>1. PInv /\ Accounted => StatusTellsTruth
  <2> SUFFICES ASSUME PInv, Accounted PROVE StatusTellsTruth OBVIOUS
  <2>1. AllSucceeded
    BY DEF PInv, EInv, NobodyLost, NobodyFailed, InPool, InGroup, AllSucceeded
  <2>2. ResultJustified BY DEF PInv, EInv, Codes, ResultJustified
  <2>3. ASSUME pc = "exit", result = 0 PROVE handled = FlattenSeq(input)
    <3>1. Over /\ ~Failing BY <2>3 DEF Over, Failing, InGroup
    <3>2. handled \o <<>> = FlattenSeq(input) /\ handled \in Seq(Items)
      BY <3>1 DEF Accounted
    <3> QED BY <3>2
  <2> QED BY <2>1, <2>2, <2>3 DEF StatusTellsTruth, ZeroMeansAllDone
<1>2. PInv /\ Accounted /\ [Next]_vars => (PInv /\ Accounted)'
  BY PInvStep, AccountedStep
<1>3. Init => PInv /\ Accounted BY PInvInit, AccountedInit
<1> QED BY <1>1, <1>2, <1>3, PTL DEF Spec
================================================================================
