------------------------------- MODULE Options -------------------------------
(***************************************************************************)
(* What a command is called with: the rewriting of -NUM for head and tail, *)
(* the search for --help (core/dispatcher.h) and the option parser         *)
(* (core/opt.h).  An argument is a sequence of symbols; the name of a long *)
(* option is one symbol.                                                   *)
(***************************************************************************)
EXTENDS Integers, Sequences, SequencesExt, Selections

Types == {"Bool", "Int", "String", "OptionalInt", "OptionalString", "TerminatedString"}
Digits == {"0", "7"}
EndMark == <<"-", "-">>

LongArg(a)  == Len(a) > 2 /\ a[1] = "-" /\ a[2] = "-"
ShortArg(a) == Len(a) >= 2 /\ a[1] = "-" /\ a[2] # "-"

\* std::from_chars: digits only, perhaps after a minus sign.
IsInt(text) ==
    LET d == IF text # <<>> /\ text[1] = "-" THEN Tail(text) ELSE text
    IN  d # <<>> /\ \A i \in DOMAIN d : d[i] \in Digits

\* The part of --name=value before and after the first equals sign.
Equals(a)  == {i \in DOMAIN a : a[i] = "="}
FirstEq(a) == CHOOSE i \in Equals(a) : \A j \in Equals(a) : i <= j
NameOf(a)  == IF Equals(a) = {} THEN a ELSE SubSeq(a, 1, FirstEq(a) - 1)
ValueOf(a) == IF Equals(a) = {} THEN <<>> ELSE SubSeq(a, FirstEq(a) + 1, Len(a))

\* The first entry of the option table with this name, or 0.
Find(Names, name) ==
    LET hits == {k \in DOMAIN Names : Names[k] = name}
    IN  IF hits = {} \/ name = <<>> THEN 0 ELSE CHOOSE k \in hits : \A l \in hits : k <= l

ShortNames(metas) == [k \in DOMAIN metas |-> metas[k].short]
LongNames(metas)  == [k \in DOMAIN metas |-> metas[k].long]

------------------------------------------------------------------------------
(* parse_command.                                                           *)

Failed == [ok |-> FALSE, set |-> <<>>, operands |-> <<>>]

\* take_terminated_string: up to and including the next ";" or "+".
Terminators(args, i) == {j \in i+1..Len(args) : args[j] \in {<<";">>, <<"+">>}}
TerminatedEnd(args, i) ==
    IF Terminators(args, i) = {} THEN Len(args)
    ELSE CHOOSE j \in Terminators(args, i) : \A l \in Terminators(args, i) : j <= l

\* The arguments joined with blanks; empty ones at the start add none.
take_terminated_string(args, i) ==
    FoldLeft(LAMBDA text, part : IF text = <<>> THEN part ELSE text \o <<" ">> \o part,
             <<>>, SubSeq(args, i + 1, TerminatedEnd(args, i)))

\* An occurrence with its value, and the argument to go on with.
Occurrence(k, value, next) == [ok |-> TRUE, set |-> <<[opt |-> k, value |-> value]>>, next |-> next]
NoOccurrence(next) == [ok |-> FALSE, set |-> <<>>, next |-> next]

Checked(metas, k, value, next) ==
    IF metas[k].type \in {"Int", "OptionalInt"} /\ ~IsInt(value)
    THEN NoOccurrence(next) ELSE Occurrence(k, value, next)

Mut_Valued(metas, k, has, value, args, i) ==
    CASE metas[k].type = "Bool" -> Occurrence(k, <<>>, i + 1)
      [] metas[k].type \in {"Int", "String"} ->
           IF value # <<>> THEN Checked(metas, k, value, i + 1)
           ELSE IF i = Len(args) THEN NoOccurrence(i)
           ELSE Checked(metas, k, args[i + 1], i + 1)
      [] metas[k].type \in {"OptionalInt", "OptionalString"} ->
           IF has THEN Checked(metas, k, value, i + 1) ELSE Occurrence(k, <<"-", "1">>, i + 1)
      [] metas[k].type = "TerminatedString" ->
           IF value # <<>> THEN Occurrence(k, value, i + 1)
           ELSE Occurrence(k, take_terminated_string(args, i), TerminatedEnd(args, i) + 1)

\* --name, --name=value, and the same with one dash and a longer short name.
Valued(metas, k, has, value, args, i) ==
    CASE metas[k].type = "Bool" -> Occurrence(k, <<>>, i + 1)
      [] metas[k].type \in {"Int", "String"} ->
           IF value # <<>> THEN Checked(metas, k, value, i + 1)
           ELSE IF i = Len(args) THEN NoOccurrence(i)
           ELSE Checked(metas, k, args[i + 1], i + 2)
      [] metas[k].type \in {"OptionalInt", "OptionalString"} ->
           IF has THEN Checked(metas, k, value, i + 1)
           ELSE Occurrence(k, IF metas[k].type = "OptionalInt" THEN <<"-", "1">> ELSE <<>>, i + 1)
      [] metas[k].type = "TerminatedString" ->
           IF value # <<>> THEN Occurrence(k, value, i + 1)
           ELSE Occurrence(k, take_terminated_string(args, i), TerminatedEnd(args, i) + 1)

\* -abc: flags, until one that takes the rest or the next argument as its value.
Cluster(metas, args, i) ==
    LET a == args[i]
        go[pos \in 2..Len(a) + 1] ==
          IF pos > Len(a) THEN [ok |-> TRUE, set |-> <<>>, next |-> i + 1]
          ELSE LET k    == Find(ShortNames(metas), <<"-", a[pos]>>)
                   rest == SubSeq(a, pos + 1, Len(a))
               IN  IF k = 0 THEN NoOccurrence(i)
                   ELSE IF metas[k].type = "Bool"
                   THEN [go[pos + 1] EXCEPT !.set = <<[opt |-> k, value |-> <<>>]>> \o @]
                   ELSE Valued(metas, k, rest # <<>>, rest, args, i)
    IN  go[2]

\* One argument that is an option, with what it takes of the following ones.
Option(metas, args, i) ==
    LET a == args[i]
        names == IF LongArg(a) THEN LongNames(metas) ELSE ShortNames(metas)
        whole == IF LongArg(a) THEN Find(names, a) ELSE 0
        k == IF whole # 0 THEN whole ELSE Find(names, NameOf(a))
    IN  IF k # 0 /\ (LongArg(a) \/ Len(metas[k].short) > 2)
        THEN Valued(metas, k, whole = 0 /\ Equals(a) # {},
                    IF whole = 0 THEN ValueOf(a) ELSE <<>>, args, i)
        ELSE IF LongArg(a) THEN NoOccurrence(i)
        ELSE Cluster(metas, args, i)

\* After "--" every argument is an operand.
parse_command(metas, args) ==
    LET from[i \in 1..Len(args) + 1] ==
          IF i > Len(args) THEN [ok |-> TRUE, set |-> <<>>, operands |-> <<>>]
          ELSE IF args[i] = EndMark
          THEN [ok |-> TRUE, set |-> <<>>, operands |-> SubSeq(args, i + 1, Len(args))]
          ELSE IF LongArg(args[i]) \/ ShortArg(args[i])
          THEN LET o == Option(metas, args, i)
                   r == IF o.ok THEN from[o.next] ELSE Failed
               IN  IF r.ok THEN [r EXCEPT !.set = o.set \o @] ELSE Failed
          ELSE LET r == from[i + 1]
               IN  IF r.ok THEN [r EXCEPT !.operands = <<args[i]>> \o @] ELSE Failed
    IN  from[1]

------------------------------------------------------------------------------
(* RegistryImpl::run.                                                       *)

CountSuffixes == {<<>>, <<"c">>, <<"b">>, <<"k">>, <<"q">>, <<"v">>, <<"l">>}

IsDigits(text) == \A i \in DOMAIN text : text[i] \in Digits
Number(text)   == SubSeq(text, 1, CHOOSE n \in 0..Len(text) :
                      /\ IsDigits(SubSeq(text, 1, n))
                      /\ n < Len(text) => text[n + 1] \notin Digits)
Suffix(text)   == SubSeq(text, Len(Number(text)) + 1, Len(text))

is_legacy_line_count(a) ==
    ShortArg(a) /\ Number(Tail(a)) # <<>> /\ Suffix(Tail(a)) \in CountSuffixes
is_legacy_tail_from_start_count(a) == Len(a) >= 2 /\ a[1] = "+" /\ IsDigits(Tail(a))

\* The arguments that replace -NUM[SUFFIX] or +NUM, when it comes first.
LegacyCount(a) ==
    LET n == Number(Tail(a))
        s == Suffix(Tail(a))
    IN  IF a[1] = "+" THEN <<<<"-", "n">>, a>>
        ELSE CASE s = <<"c">> -> <<<<"-", "c">>, n>>
               [] s = <<"b">> -> <<<<"-", "c">>, Tail(a)>>
               [] s = <<"k">> -> <<<<"-", "c">>, n \o <<"K", "i", "B">>>>
               [] s = <<"q">> -> <<<<"-", "n">>, n, <<"-", "q">>>>
               [] s = <<"v">> -> <<<<"-", "n">>, n, <<"-", "v">>>>
               [] OTHER -> <<<<"-", "n">>, Tail(a)>>

needs_head_tail_count_rewrite(name, args) ==
    /\ args # <<>>
    /\ \/ name \in {"head", "tail"} /\ is_legacy_line_count(args[1])
       \/ name = "tail" /\ is_legacy_tail_from_start_count(args[1])

Help == <<"-", "-", "help">>

\* The command's handler is called, or the options are refused.
Handled(parsed) == [status |-> IF parsed.ok THEN "run" ELSE "usage",
                    set |-> parsed.set, operands |-> parsed.operands]

\* Help is looked for first, wherever it stands.
dispatch(name, metas, args) ==
    LET given == IF needs_head_tail_count_rewrite(name, args)
                 THEN LegacyCount(args[1]) \o Tail(args) ELSE args
        help  == \/ Help \in ToSet(given)
                 \/ <<"-", "h">> \notin ToSet(ShortNames(metas)) /\ <<"-", "h">> \in ToSet(given)
    IN  IF help THEN [status |-> "help", set |-> <<>>, operands |-> <<>>]
        ELSE Handled(parse_command(metas, given))

------------------------------------------------------------------------------
(* What the arguments say, role by role: an option that needs a value and   *)
(* has none of its own makes the next argument a value; "--" ends options;  *)
(* everything else that does not start with a dash is an operand.           *)

\* Of entries that bear the same name the first one counts.
Foremost(entries) == {k \in entries : \A l \in entries : k <= l}

\* The option an argument names as it stands, or up to its equals sign.
Whole(metas, a) == LongArg(a) /\ a \in ToSet(LongNames(metas))
Named(metas, a) ==
    Foremost({k \in DOMAIN metas :
                \/ LongArg(a) /\ metas[k].long = (IF Whole(metas, a) THEN a ELSE NameOf(a))
                \/ ShortArg(a) /\ metas[k].short = NameOf(a) /\ Len(NameOf(a)) > 2})
Inline(metas, a) == Equals(a) # {} /\ ~Whole(metas, a)

\* The option a character of -abc names.
Flag(metas, c) == Foremost({k \in DOMAIN metas : metas[k].short = <<"-", c>>})

Mentioned(metas, a) ==
    Named(metas, a) \cup
    IF ShortArg(a) THEN UNION {Flag(metas, a[pos]) : pos \in 2..Len(a)} ELSE {}

OfType(metas, entries, types) == \E k \in entries : metas[k].type \in types

LastFlag(metas, a) ==
    CHOOSE pos \in 2..Len(a) :
      /\ \A p \in 2..pos - 1 : OfType(metas, Flag(metas, a[p]), {"Bool"})
      /\ pos = Len(a) \/ ~OfType(metas, Flag(metas, a[pos]), {"Bool"})

NeedsNext(metas, a) ==
    IF Named(metas, a) # {}
    THEN ~Inline(metas, a) /\ OfType(metas, Named(metas, a), {"Int", "String"})
    ELSE /\ ShortArg(a) /\ LastFlag(metas, a) = Len(a)
         /\ OfType(metas, Flag(metas, a[Len(a)]), {"Int", "String"})

KnownOption(metas, a) ==
    \/ Named(metas, a) # {}
    \/ ShortArg(a) /\ \A pos \in 2..LastFlag(metas, a) : Flag(metas, a[pos]) # {}

TakesNumber(metas, a) == OfType(metas, Mentioned(metas, a), {"Int", "OptionalInt"})

Roles(metas, args) ==
    LET role[i \in 1..Len(args)] ==
          IF i > 1 /\ role[i - 1] = "option" /\ NeedsNext(metas, args[i - 1]) THEN "value"
          ELSE IF \E j \in 1..i - 1 : role[j] = "end" THEN "operand"
          ELSE IF args[i] = EndMark THEN "end"
          ELSE IF LongArg(args[i]) \/ ShortArg(args[i]) THEN "option"
          ELSE "operand"
    IN  role

\* What is written in a way the parser does not honour: --name= gives an empty
\* value, but the next argument is taken; -exec takes as many as it likes.
Odd(metas, a) ==
    \/ /\ Inline(metas, a) /\ ValueOf(a) = <<>>
       /\ OfType(metas, Named(metas, a), {"Int", "String", "TerminatedString"})
    \/ OfType(metas, Mentioned(metas, a), {"TerminatedString"})

Having(args, role, r) == Those(args, {i \in DOMAIN args : role[i] = r})

\* The operands are those of the command line, in order, every value that an
\* option needs is the argument after it, and what is refused has an unknown
\* option, no value for the last one or a value that is no number.
ReadAsWritten(metas, args, parsed) ==
    LET role == Roles(metas, args)
        options == {i \in DOMAIN args : role[i] = "option"}
    IN  (\A i \in options : ~Odd(metas, args[i])) =>
          IF parsed.ok
          THEN /\ parsed.operands = Having(args, role, "operand")
               /\ \A value \in ToSet(Having(args, role, "value")) :
                    \E s \in ToSet(parsed.set) : s.value = value
          ELSE \E i \in options :
                 \/ ~KnownOption(metas, args[i])
                 \/ NeedsNext(metas, args[i]) /\ i = Len(args)
                 \/ TakesNumber(metas, args[i])
==============================================================================
