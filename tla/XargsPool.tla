------------------------------ MODULE XargsPool ------------------------------
(***************************************************************************)
(* The batch builder and process pool of xargs (src/commands/xargs.cpp).   *)
(*                                                                         *)
(* The input has been read and parsed into groups of items: one group, or  *)
(* with -L one group per so many lines.  execute_command is called for one *)
(* group after the other.  It collects items into a batch while the        *)
(* command line stays within -n and -s, starts one child per batch, and    *)
(* when -P children run it waits for the OLDEST of them.  The children are *)
(* processes of their own: they end in any order, at any moment.           *)
(*                                                                         *)
(* The program's locals `exit_code' and `stop_launching' belong to one     *)
(* call of execute_command; `result' is the exit status the command body   *)
(* accumulates over the calls.  `children' is the history of every child   *)
(* ever started and `handled' that of the items given to a command or      *)
(* refused by the user (-p), in order; the program keeps neither.          *)
(***************************************************************************)
EXTENDS Integers, Sequences, FiniteSets, SequencesExt

CONSTANTS Items,       \* the input items
          Weight,      \* what an item adds to the command line's length
          BaseWeight,  \* length of the command and its initial arguments
          Inputs,      \* the parsed inputs considered: sequences of groups
          Options,     \* the settings considered
          Statuses     \* the exit statuses a child can end with

ASSUME ItemsAssumption ==
    /\ Weight \in [Items -> Nat]
    /\ BaseWeight \in Nat
    /\ Inputs \subseteq Seq(Seq(Items))
    /\ Statuses \subseteq Int

Settings == [maxArgs : Nat, maxChars : Nat, maxProcs : Nat \ {0},
             replace : BOOLEAN, byLines : BOOLEAN, exitIfExceeded : BOOLEAN,
             noRunIfEmpty : BOOLEAN, interactive : BOOLEAN, slotVar : BOOLEAN]

ASSUME OptionsAssumption == Options \subseteq Settings

VARIABLES opts,       \* the settings of this run, fixed at start
          input,      \* input_groups
          pc,         \* where the program is
          g,          \* number of groups execute_command was called for
          pos,        \* number of items of group g taken into a batch
          batch,      \* the batch under construction
          site,       \* the run_batch call in progress: empty, overflow, final
          running,    \* the children execute_command knows of, oldest first
          freeSlots,  \* stack of released slots
          nextSlot,   \* first slot never handed out
          stop,       \* stop_launching
          exitCode,   \* exit_code of the current execute_command
          result,     \* exit_code of the command body
          children,   \* history: every child started
          handled     \* history: the items launched or refused, in order

pool  == <<running, freeSlots, nextSlot, children>>
vars  == <<opts, input, pc, g, pos, batch, site, running, freeSlots, nextSlot,
           stop, exitCode, result, children, handled>>

(***************************************************************************)
(* Exit statuses.                                                          *)
(***************************************************************************)
SizeExceeded == 1      \* a command line over -s, with -x in force
ChildFailed  == 123
ChildSaid255 == 124
CannotLaunch == 127
FinalCodes   == {124, 126, 127}   \* the command body returns at once

map_child_exit_status(s) ==
    IF s = 0 THEN 0
    ELSE IF s = 255 THEN ChildSaid255
    ELSE IF s \in 1..125 THEN ChildFailed
    ELSE s

(***************************************************************************)
(* A candidate command line against -n and -s.                             *)
(***************************************************************************)
CommandLength(items) ==
    BaseWeight + FoldSeq(LAMBDA i, n : Weight[i] + n, 0, items)

\* -I runs one command per item; without -n a whole group is one batch.
MaxArgs(o, group) ==
    IF o.replace THEN 1
    ELSE IF o.maxArgs > 0 THEN o.maxArgs
    ELSE IF group = <<>> THEN 1 ELSE Len(group)

WithinChars(items) == opts.maxChars > 0 => CommandLength(items) <= opts.maxChars

Mut_fits_limits(group, candidate) ==
    /\ Len(candidate) <= MaxArgs(opts, group) + 1
    /\ WithinChars(candidate)

fits_limits(group, candidate) ==
    /\ Len(candidate) <= MaxArgs(opts, group)
    /\ WithinChars(candidate)

(***************************************************************************)
(* The settings the command body can arrive at: the -n, -L and -I families *)
(* exclude each other, -I and -L force -x, and only -L makes more than one *)
(* group or none; parse_line_groups never makes an empty one.              *)
(***************************************************************************)
Consistent(o, inp) ==
    /\ (o.replace \/ o.byLines) => o.exitIfExceeded /\ o.maxArgs = 0
    /\ ~(o.replace /\ o.byLines)
    /\ ~o.byLines => Len(inp) = 1
    /\ o.byLines => \A i \in DOMAIN inp : inp[i] # <<>>

InputEmpty == \A i \in DOMAIN input : input[i] = <<>>

Init ==
    /\ opts \in Options
    /\ input \in Inputs
    /\ Consistent(opts, input)
    /\ pc = "begin"
    /\ g = 0
    /\ pos = 0
    /\ batch = <<>>
    /\ site = "empty"
    /\ running = <<>>
    /\ freeSlots = <<>>
    /\ nextSlot = 0
    /\ stop = FALSE
    /\ exitCode = 0
    /\ result = 0
    /\ children = <<>>
    /\ handled = <<>>

(***************************************************************************)
(* The command body around execute_command.                                *)
(***************************************************************************)
\* Nothing to do, and -r or -I say not to run the command on nothing.
SkipEmptyInput ==
    /\ pc = "begin"
    /\ InputEmpty
    /\ opts.noRunIfEmpty \/ opts.replace
    /\ pc' = "exit"
    /\ UNCHANGED <<opts, input, g, pos, batch, site, pool, stop, exitCode,
                   result, handled>>

Begin ==
    /\ pc = "begin"
    /\ ~(InputEmpty /\ (opts.noRunIfEmpty \/ opts.replace))
    /\ input' = IF input = <<>> THEN << <<>> >> ELSE input
    /\ pc' = "group"
    /\ UNCHANGED <<opts, g, pos, batch, site, pool, stop, exitCode, result,
                   handled>>

Mut_ReturnFromGroup(code) ==
    /\ result' = code
    /\ pc' = IF code \in FinalCodes THEN "exit" ELSE "group"

\* execute_command returns `code' to the loop over the groups.
ReturnFromGroup(code) ==
    /\ result' = IF code # 0 THEN code ELSE result
    /\ pc' = IF code \in FinalCodes THEN "exit" ELSE "group"

AllGroupsDone ==
    /\ pc = "group"
    /\ g = Len(input)
    /\ pc' = "exit"
    /\ UNCHANGED <<opts, input, g, pos, batch, site, pool, stop, exitCode,
                   result, handled>>

Mut_FreshLocals ==
    /\ batch' = <<>> /\ running' = <<>> /\ freeSlots' = <<>> /\ nextSlot' = 0
    /\ stop' = FALSE /\ exitCode' = 0 /\ site' = "empty"
    /\ pos' = pos

FreshLocals ==
    /\ pos' = 0
    /\ batch' = <<>>
    /\ running' = <<>>
    /\ freeSlots' = <<>>
    /\ nextSlot' = 0
    /\ stop' = FALSE
    /\ exitCode' = 0
    /\ site' = "empty"

\* A new call of execute_command: its locals are fresh, whatever the previous
\* call left running.
EnterGroup ==
    /\ pc = "group"
    /\ g < Len(input)
    /\ g' = g + 1
    /\ FreshLocals
    /\ IF input[g + 1] # <<>>
       THEN pc' = "read" /\ UNCHANGED result
       ELSE IF ~fits_limits(<<>>, <<>>) /\ opts.exitIfExceeded
            THEN ReturnFromGroup(SizeExceeded)
            ELSE pc' = "run" /\ UNCHANGED result
    /\ UNCHANGED <<opts, input, children, handled>>

(***************************************************************************)
(* Building batches.                                                       *)
(***************************************************************************)
NextItem == input[g][pos + 1]

\* The item fits: keep it in the batch.
TakeItem ==
    /\ pc = "read"
    /\ pos < Len(input[g])
    /\ fits_limits(input[g], Append(batch, NextItem))
    /\ batch' = Append(batch, NextItem)
    /\ pos' = pos + 1
    /\ UNCHANGED <<opts, input, pc, g, site, pool, stop, exitCode, result,
                   handled>>

\* The item does not fit: flush what the batch holds, the item waits.
Overflow ==
    /\ pc = "read"
    /\ pos < Len(input[g])
    /\ ~fits_limits(input[g], Append(batch, NextItem))
    /\ site' = "overflow"
    /\ pc' = IF batch = <<>> THEN "held" ELSE "run"
    /\ UNCHANGED <<opts, input, g, pos, batch, pool, stop, exitCode, result,
                   handled>>

Mut_TakeHeldItem ==
    /\ pc = "held"
    /\ batch' = <<>>
    /\ pos' = pos + 1
    /\ pc' = "read"
    /\ UNCHANGED <<opts, input, g, site, pool, stop, exitCode, result, handled>>

\* The item that waited starts the next batch.  One that is too long by itself
\* ends the call under -x and is kept otherwise.
TakeHeldItem ==
    /\ pc = "held"
    /\ batch' = <<NextItem>>
    /\ pos' = pos + 1
    /\ IF ~fits_limits(input[g], <<NextItem>>) /\ opts.exitIfExceeded
       THEN ReturnFromGroup(SizeExceeded)
       ELSE pc' = "read" /\ UNCHANGED result
    /\ UNCHANGED <<opts, input, g, site, pool, stop, exitCode, handled>>

EndOfGroup ==
    /\ pc = "read"
    /\ pos = Len(input[g])
    /\ site' = "final"
    /\ pc' = IF batch = <<>> THEN "drain" ELSE "run"
    /\ UNCHANGED <<opts, input, g, pos, batch, pool, stop, exitCode, result,
                   handled>>

(***************************************************************************)
(* run_batch, from its three call sites.                                   *)
(***************************************************************************)
\* Where the program goes when run_batch returns true.
Resume == IF site = "overflow" THEN "held" ELSE "drain"

\* run_batch returns false with exit_code = code.  The two flushes return at
\* once, waiting for nobody; the call for an empty input ignores the answer.
GiveUp(code) ==
    IF site = "empty" THEN pc' = "drain" /\ UNCHANGED result
                      ELSE ReturnFromGroup(code)

\* allocate_slot, and the slots left after it; slot 0 for all without
\* --process-slot-var.
Slot ==
    IF ~opts.slotVar THEN 0
    ELSE IF freeSlots # <<>> THEN Last(freeSlots)
    ELSE nextSlot

Mut_SlotsAfterAllocation ==
    [free |-> freeSlots,
     next |-> IF opts.slotVar /\ freeSlots = <<>> THEN nextSlot + 1 ELSE nextSlot]

SlotsAfterAllocation ==
    IF ~opts.slotVar THEN [free |-> freeSlots, next |-> nextSlot]
    ELSE IF freeSlots # <<>> THEN [free |-> Front(freeSlots), next |-> nextSlot]
    ELSE [free |-> freeSlots, next |-> nextSlot + 1]

Released(free, slot) == IF opts.slotVar THEN Append(free, slot) ELSE free

\* -p and an answer other than y: the batch is dropped, the run goes on.
Decline ==
    /\ pc = "run"
    /\ opts.interactive
    /\ handled' = handled \o batch
    /\ batch' = <<>>
    /\ pc' = Resume
    /\ UNCHANGED <<opts, input, g, pos, site, pool, stop, exitCode, result>>

Launch ==
    /\ pc = "run"
    /\ children' = Append(children,
                          [items |-> batch, slot |-> Slot, alive |-> TRUE,
                           status |-> 0, reaped |-> FALSE])
    /\ running' = Append(running, Len(children) + 1)
    /\ freeSlots' = SlotsAfterAllocation.free
    /\ nextSlot' = SlotsAfterAllocation.next
    /\ handled' = handled \o batch
    /\ batch' = <<>>
    /\ pc' = IF Len(running) + 1 >= opts.maxProcs THEN "throttle" ELSE Resume
    /\ UNCHANGED <<opts, input, g, pos, site, stop, exitCode, result>>

\* CreateProcess refuses: the slot goes back, nothing more is launched.
LaunchFails ==
    /\ pc = "run"
    /\ freeSlots' = Released(SlotsAfterAllocation.free, Slot)
    /\ nextSlot' = SlotsAfterAllocation.next
    /\ exitCode' = CannotLaunch
    /\ stop' = TRUE
    /\ batch' = <<>>
    /\ GiveUp(CannotLaunch)
    /\ UNCHANGED <<opts, input, g, pos, site, running, children, handled>>

(***************************************************************************)
(* wait_one: wait for the oldest child, keep the last failure's status.    *)
(***************************************************************************)
Oldest == Head(running)

\* The child waited for stays in the list.
Mut_wait_one_keeps ==
    LET child == children[Oldest] IN
    /\ running # <<>>
    /\ ~child.alive
    /\ children' = [children EXCEPT ![Oldest].reaped = TRUE]
    /\ exitCode' = IF child.status # 0
                   THEN map_child_exit_status(child.status) ELSE exitCode
    /\ stop' = (stop \/ child.status = 255)
    /\ UNCHANGED <<running, freeSlots, nextSlot>>

wait_one ==
    LET child == children[Oldest] IN
    /\ running # <<>>
    /\ ~child.alive
    /\ children' = [children EXCEPT ![Oldest].reaped = TRUE]
    /\ running' = Tail(running)
    /\ freeSlots' = Released(freeSlots, child.slot)
    /\ exitCode' = IF child.status # 0
                   THEN map_child_exit_status(child.status) ELSE exitCode
    /\ stop' = (stop \/ child.status = 255)
    /\ UNCHANGED nextSlot

\* The pool is full: run_batch waits before it returns.
Throttle ==
    /\ pc = "throttle"
    /\ wait_one
    /\ IF stop' THEN GiveUp(exitCode') ELSE pc' = Resume /\ UNCHANGED result
    /\ UNCHANGED <<opts, input, g, pos, batch, site, handled>>

Drain ==
    /\ pc = "drain"
    /\ wait_one
    /\ UNCHANGED <<opts, input, pc, g, pos, batch, site, result, handled>>

GroupDone ==
    /\ pc = "drain"
    /\ running = <<>>
    /\ ReturnFromGroup(exitCode)
    /\ UNCHANGED <<opts, input, g, pos, batch, site, pool, stop, exitCode,
                   handled>>

(***************************************************************************)
(* The children.                                                           *)
(***************************************************************************)
ChildExits(c) ==
    /\ children[c].alive
    /\ \E s \in Statuses :
          children' = [children EXCEPT ![c].alive = FALSE, ![c].status = s]
    /\ UNCHANGED <<opts, input, pc, g, pos, batch, site, running, freeSlots,
                   nextSlot, stop, exitCode, result, handled>>

\* xargs has returned and every process it started has ended.
Terminated ==
    /\ pc = "exit"
    /\ \A c \in DOMAIN children : ~children[c].alive
    /\ UNCHANGED vars

Xargs ==
    \/ SkipEmptyInput \/ Begin \/ AllGroupsDone \/ EnterGroup
    \/ TakeItem \/ Overflow \/ TakeHeldItem \/ EndOfGroup
    \/ Decline \/ Launch \/ LaunchFails
    \/ Throttle \/ Drain \/ GroupDone

Next ==
    \/ Xargs
    \/ \E c \in DOMAIN children : ChildExits(c)
    \/ Terminated

Spec == Init /\ [][Next]_vars

(***************************************************************************)
(* xargs is one thread that is scheduled, and every child ends some day: a *)
(* command that runs for ever keeps xargs waiting for ever.  There is at   *)
(* most one child per item, and one for an empty input.                    *)
(***************************************************************************)
MaxChildren == Cardinality(Items) + 1

Fairness ==
    /\ WF_vars(Xargs)
    /\ \A c \in 1..MaxChildren :
          WF_vars(c \in DOMAIN children /\ ChildExits(c))

FairSpec == Spec /\ Fairness

(***************************************************************************)
(* Properties.                                                             *)
(***************************************************************************)
Child == [items : Seq(Items), slot : Nat, alive : BOOLEAN, status : Int,
          reaped : BOOLEAN]

TypeOK ==
    /\ opts \in Settings
    /\ input \in Seq(Seq(Items))
    /\ pc \in {"begin", "group", "read", "held", "run", "throttle", "drain",
              "exit"}
    /\ g \in 0..Len(input)
    /\ pos \in 0..(IF g = 0 THEN 0 ELSE Len(input[g]))
    /\ batch \in Seq(Items)
    /\ site \in {"empty", "overflow", "final"}
    /\ children \in Seq(Child)
    /\ running \in Seq(DOMAIN children)
    /\ freeSlots \in Seq(Nat)
    /\ nextSlot \in Nat
    /\ stop \in BOOLEAN
    /\ exitCode \in Int
    /\ result \in Int
    /\ handled \in Seq(Items)

(***************************************************************************)
(* With --process-slot-var (allocate_slot, wait_one, the failed launch):   *)
(* no two children execute_command waits for share a slot, no slot is both *)
(* in use and free or free twice, no slot is lost, and the slots stay      *)
(* below -P.                                                               *)
(***************************************************************************)
PoolSlots == [i \in 1..Len(running) |-> children[running[i]].slot]

Distinct(s)    == \A i, j \in 1..Len(s) : s[i] = s[j] => i = j
Below(s, n)    == \A i \in 1..Len(s) : s[i] < n
Disjoint(s, t) == \A i \in 1..Len(s), j \in 1..Len(t) : s[i] # t[j]

\* Slots in use and free slots are the numbers below `next', each once.
Partition(used, free, next) ==
    /\ Distinct(used) /\ Distinct(free) /\ Disjoint(used, free)
    /\ Below(used, next) /\ Below(free, next)
    /\ next = Len(used) + Len(free)

SlotsSound ==
    opts.slotVar =>
        Partition(PoolSlots, freeSlots, nextSlot) /\ nextSlot <= opts.maxProcs

(***************************************************************************)
(* Exit status 0: every command has ended, was waited for and succeeded    *)
(* (wait_one, execute_command).                                            *)
(***************************************************************************)
AllSucceeded ==
    pc = "exit" /\ result = 0 =>
        \A c \in DOMAIN children :
            children[c].reaped /\ children[c].status = 0

(***************************************************************************)
(* What an exit status of 0 tells the caller of xargs: every item was      *)
(* handed to a command or refused by the user, once and in input order,    *)
(* and every command succeeded.                                            *)
(***************************************************************************)
ZeroMeansAllDone ==
    /\ pc = "exit" /\ result = 0 => handled = FlattenSeq(input)
    /\ AllSucceeded

ItemsOf(inp) == UNION {ToSet(inp[i]) : i \in DOMAIN inp}

Waited(s) == \E c \in DOMAIN children :
                children[c].reaped /\ children[c].status = s

\* The command line of no item, or of one, is over -s.
TooLong ==
    /\ opts.exitIfExceeded
    /\ ~WithinChars(<<>>) \/ \E i \in ItemsOf(input) : ~WithinChars(<<i>>)

Justified(code) ==
    /\ code = ChildFailed  => \E s \in 1..125 : Waited(s)
    /\ code = ChildSaid255 => Waited(255)
    /\ code \notin {0, SizeExceeded, ChildFailed, ChildSaid255, CannotLaunch} =>
          Waited(code)
    /\ code = SizeExceeded => TooLong

(***************************************************************************)
(* A nonzero exit status names something that happened: 123 and 124 a      *)
(* child that ended so, 1 a command line that is too long, 126 such a      *)
(* child, any other a child's own status or a command that cannot start.   *)
(***************************************************************************)
ResultJustified == pc = "exit" => Justified(result)

\* The exit status of xargs can be believed, whatever order the children ended
\* in and whichever group they belonged to (wait_one, execute_command).
StatusTellsTruth == ZeroMeansAllDone /\ ResultJustified

(***************************************************************************)
(* No command line over -n, and none over -s: without -x a single item     *)
(* that is too long by itself is still run, alone.                         *)
(***************************************************************************)
LimitsRespected ==
    \A c \in DOMAIN children :
        LET items == children[c].items IN
        /\ opts.maxArgs > 0 => Len(items) <= opts.maxArgs
        /\ opts.replace => Len(items) <= 1
        /\ ~WithinChars(items) => ~opts.exitIfExceeded /\ Len(items) <= 1

(***************************************************************************)
(* The promise to the input: XargsDelivery.  The items not dealt with are  *)
(* those of the batch, those of this group not read yet and the groups to  *)
(* come; once execute_command has returned, only the latter.               *)
(***************************************************************************)
InGroup == pc \in {"read", "held", "run", "throttle", "drain"}

Pending ==
    (IF InGroup THEN batch \o SubSeq(input[g], pos + 1, Len(input[g])) ELSE <<>>)
    \o FlattenSeq(SubSeq(input, g + 1, Len(input)))

Failing == result # 0 \/ (InGroup /\ exitCode # 0)

Delivery == INSTANCE XargsDelivery WITH
    todo <- Pending, dealt <- handled, failed <- Failing, over <- pc = "exit"

\* xargs implements XargsDelivery: in input order, each item at most once,
\* items passed over only by a run that ends nonzero.
ImplementsDelivery == Delivery!DSpec

(***************************************************************************)
(* When children end, xargs ends.                                          *)
(***************************************************************************)
Terminates == <>(pc = "exit")

(***************************************************************************)
(* What the documents say of a child that ends with 255: no further        *)
(* command is started.                                                     *)
(***************************************************************************)
Child255StopsLaunches ==
    [][Waited(255) => Len(children') = Len(children)]_vars
==============================================================================
