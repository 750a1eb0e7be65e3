--------------------------- MODULE ShellVarsProofs ---------------------------
(***************************************************************************)
(* The shell's variables, environment, arguments and directory: their      *)
(* types, and that putting one set of globals aside and back by hand comes *)
(* to the same as nested scopes, for any names, values and depth.          *)
(***************************************************************************)
EXTENDS ShellVars, SeqFacts

(***************************************************************************)
(* What a scope binds, of one thing (a variable, say).  a[j] is what the   *)
(* j-th open call has put aside of it, `now' is the global.                *)
(***************************************************************************)
Above(a, L, k) == {j \in k..L : a[j] # Through}

At(a, L, k, now) ==
    IF k > 1 /\ a[k - 1] = Through THEN Through
    ELSE IF Above(a, L, k) = {} THEN now ELSE a[Min(Above(a, L, k))]

\* The scopes that bind it, and the innermost of them.
Binding(a, L) == {k \in 1..L + 1 : k = 1 \/ a[k - 1] # Through}
Top(a, L) == Max(Binding(a, L))

\* The scopes that bind a thing are those in which it is not Through.
LEMMA BindingIs ==
    ASSUME NEW a, NEW L \in Nat, NEW now, now # Through
    PROVE  Binding(a, L) = {k \in 1..L + 1 : At(a, L, k, now) # Through}
<1> SUFFICES ASSUME NEW k \in 1..L + 1
             PROVE  At(a, L, k, now) # Through <=> (k = 1 \/ a[k - 1] # Through)
  BY DEF Binding
<1>1. Above(a, L, k) # {} => a[Min(Above(a, L, k))] # Through
  <2> SUFFICES ASSUME Above(a, L, k) # {} PROVE a[Min(Above(a, L, k))] # Through
    OBVIOUS
  <2>1. Above(a, L, k) \subseteq Nat BY DEF Above
  <2>2. Min(Above(a, L, k)) \in Above(a, L, k) BY <2>1, MinFacts
  <2> QED BY <2>2 DEF Above
<1> QED BY <1>1 DEF At

LEMMA TopFacts ==
    ASSUME NEW a, NEW L \in Nat
    PROVE  /\ Top(a, L) \in Binding(a, L)
           /\ Top(a, L) \in 1..L + 1
           /\ \A k \in Binding(a, L) : k =< Top(a, L)
           /\ Above(a, L, Top(a, L)) = {}
<1>1. Binding(a, L) \subseteq 0..L + 1 /\ 1 \in Binding(a, L)
  BY DEF Binding
<1>2. Top(a, L) \in Binding(a, L) /\ \A k \in Binding(a, L) : Top(a, L) >= k
  BY <1>1, MaxFacts DEF Top
<1>3. \A j \in Top(a, L)..L : a[j] = Through
  <2> SUFFICES ASSUME NEW j \in Top(a, L)..L, a[j] # Through PROVE FALSE
    OBVIOUS
  <2>1. j \in 1..L BY <1>2 DEF Binding
  <2>2. j + 1 \in Binding(a, L) BY <2>1 DEF Binding
  <2> QED BY <1>2, <2>1, <2>2 DEF Binding
<1> QED BY <1>2, <1>3 DEF Above, Binding

\* The innermost scope that binds the thing shows the global; assigning the
\* global changes that scope and no other.
LEMMA AssignTop ==
    ASSUME NEW a, NEW L \in Nat, NEW now, NEW new, NEW k \in 1..L + 1
    PROVE  /\ At(a, L, Top(a, L), now) = now
           /\ At(a, L, k, new) = IF k = Top(a, L) THEN new ELSE At(a, L, k, now)
<1>1. At(a, L, Top(a, L), now) = now /\ At(a, L, Top(a, L), new) = new
  BY TopFacts DEF At, Binding
<1>2. ASSUME k # Top(a, L) PROVE At(a, L, k, new) = At(a, L, k, now)
  <2>1. CASE k \in Binding(a, L)
    <3>1. k < Top(a, L) /\ Top(a, L) - 1 \in k..L
      BY <1>2, <2>1, TopFacts
    <3>2. a[Top(a, L) - 1] # Through BY <3>1, TopFacts DEF Binding
    <3> QED BY <3>1, <3>2 DEF At, Above
  <2>2. CASE k \notin Binding(a, L) BY <2>2 DEF At, Binding
  <2> QED BY <2>1, <2>2
<1> QED BY <1>1, <1>2

\* What is put aside by a step that changes `from' to `to'.
PutsAside(aside, from, to) ==
    \/ aside = Through /\ to = from
    \/ aside = from

Extends(b, a, L) == \A j \in 1..L : b[j] = a[j]

\* What M scopes bind after one was opened over the L there were.
OpensOver(b, M, new, a, L, now) ==
    /\ \A k \in 1..M : At(b, M, k, new) = At(a, L, k, now)
    /\ At(b, M, M + 1, new) = IF b[M] = Through THEN Through ELSE new

\* A new scope, which binds nothing or what was put aside.
LEMMA Opened ==
    ASSUME NEW a, NEW b, NEW L \in Nat, NEW M, M = L + 1, NEW now, NEW new, now # Through,
           Extends(b, a, L), PutsAside(b[M], now, new)
    PROVE  OpensOver(b, M, new, a, L, now)
<1> USE DEF Extends, PutsAside
<1>1. At(b, M, M + 1, new) = IF b[M] = Through THEN Through ELSE new
  <2>1. (M + 1)..M = {} OBVIOUS
  <2>2. Above(b, M, M + 1) = {} BY <2>1 DEF Above
  <2> QED BY <2>2 DEF At
<1>2. ASSUME NEW k \in 1..M PROVE At(b, M, k, new) = At(a, L, k, now)
  <2>1. k > 1 => b[k - 1] = a[k - 1] OBVIOUS
  <2>2. CASE b[M] = Through
    <3>1. Above(b, M, k) = Above(a, L, k) BY <2>2 DEF Above
    <3>2. Above(a, L, k) # {} => Min(Above(a, L, k)) \in 1..L
      BY MinFacts DEF Above
    <3> QED BY <2>1, <2>2, <3>1, <3>2 DEF At
  <2>3. CASE b[M] # Through
    <3>1. Above(b, M, k) = Above(a, L, k) \cup {M} BY <2>3 DEF Above
    <3>2. Above(a, L, k) \subseteq Nat /\ Above(b, M, k) \subseteq Nat
          /\ Above(a, L, k) \subseteq 1..L /\ Above(b, M, k) # {}
      BY <3>1 DEF Above
    <3>3. CASE Above(a, L, k) = {}
      <4>1. Min(Above(b, M, k)) = M BY <3>1, <3>2, <3>3, MinFacts
      <4> QED BY <2>1, <2>3, <3>1, <3>3, <4>1 DEF At
    <3>4. CASE Above(a, L, k) # {}
      <4>1. Min(Above(a, L, k)) \in 1..L
            /\ Min(Above(b, M, k)) = Min(Above(a, L, k))
        <5> DEFINE m == Min(Above(a, L, k))
                   q == Min(Above(b, M, k))
        <5>1. m \in Above(a, L, k) /\ \A y \in Above(a, L, k) : m =< y
          BY <3>2, <3>4, MinFacts
        <5>2. q \in Above(b, M, k) /\ \A y \in Above(b, M, k) : q =< y
          BY <3>2, MinFacts
        <5> HIDE DEF m, q
        <5>3. m \in 1..L /\ q =< m /\ q # M BY <5>1, <5>2, <3>1, <3>2
        <5>4. q \in Above(a, L, k) BY <5>2, <5>3, <3>1
        <5>5. m = q BY <5>1, <5>3, <5>4, <3>2
        <5> QED BY <5>3, <5>5 DEF m, q
      <4> QED BY <2>1, <3>2, <3>4, <4>1 DEF At
    <3> QED BY <3>3, <3>4
  <2> QED BY <2>2, <2>3
<1> QED BY <1>1, <1>2 DEF OpensOver

\* `local' in the scope of call m, above which nothing of the thing is put
\* aside: that scope binds it from now on, the others stay as they are.
SeenNow(a, b, L, k, m, new, now) ==
    At(b, L, k, new) = IF k = m + 1 THEN new ELSE At(a, L, k, now)

LEMMA PutAside ==
    ASSUME NEW a, NEW b, NEW L \in Nat, NEW now, NEW new, now # Through,
           NEW m \in 1..L, a[m] = Through, b[m] = now,
           \A j \in 1..L : j # m => b[j] = a[j],
           \A j \in m + 1..L : a[j] = Through,
           NEW k \in 1..L + 1
    PROVE  SeenNow(a, b, L, k, m, new, now)
<1> SUFFICES At(b, L, k, new) = IF k = m + 1 THEN new ELSE At(a, L, k, now)
  BY DEF SeenNow
<1>1. CASE k > m
  <2>1. Above(b, L, k) = {} /\ Above(a, L, k) = {} BY <1>1 DEF Above
  <2>2. CASE k = m + 1 BY <2>1, <2>2 DEF At
  <2>3. CASE k # m + 1
    <3>1. k - 1 \in m + 1..L BY <1>1, <2>3
    <3> QED BY <3>1, <2>3 DEF At
  <2> QED BY <2>2, <2>3
<1>2. CASE k =< m
  <2>1. k > 1 => b[k - 1] = a[k - 1] BY <1>2
  <2>2. Above(b, L, k) = Above(a, L, k) \cup {m} /\ Above(a, L, k) \subseteq k..m - 1
    <3>1. \A j \in k..L : a[j] # Through => j =< m - 1
      <4> TAKE j \in k..L
      <4>1. j = m => a[j] = Through OBVIOUS
      <4>2. j > m => a[j] = Through OBVIOUS
      <4> QED BY <4>1, <4>2
    <3>2. \A j \in k..L : b[j] # Through <=> (a[j] # Through \/ j = m)
      BY <1>2
    <3>3. m \in k..L BY <1>2
    <3> QED BY <3>1, <3>2, <3>3 DEF Above
  <2>3. Above(a, L, k) \subseteq Nat /\ Above(b, L, k) \subseteq Nat /\ Above(b, L, k) # {}
    BY <2>2 DEF Above
  <2>4. CASE Above(a, L, k) = {}
    <3>1. Min(Above(b, L, k)) = m BY <2>2, <2>3, <2>4, MinFacts
    <3> QED BY <1>2, <2>1, <2>3, <2>4, <3>1 DEF At
  <2>5. CASE Above(a, L, k) # {}
    <3> DEFINE p == Min(Above(a, L, k))
               q == Min(Above(b, L, k))
    <3>1. p \in Above(a, L, k) /\ \A y \in Above(a, L, k) : p =< y
      BY <2>3, <2>5, MinFacts
    <3>2. q \in Above(b, L, k) /\ \A y \in Above(b, L, k) : q =< y
      BY <2>3, MinFacts
    <3> HIDE DEF p, q
    <3>3. p \in k..m - 1 /\ p = q BY <3>1, <3>2, <2>2
    <3>4. p \in 1..L /\ p # m BY <3>3
    <3>5. b[p] = a[p] BY <3>4
    <3> QED BY <1>2, <2>1, <2>3, <2>5, <3>3, <3>5 DEF At, p, q
  <2> QED BY <2>4, <2>5
<1> QED BY <1>1, <1>2

(***************************************************************************)
(* Types.                                                                  *)
(***************************************************************************)
\* A scope puts aside what its kind changes, and nothing else.
Shape(c) ==
    /\ c.kind # "function" => c.var = Nothing
    /\ c.kind \in {"function", "bash"} <=> c.args # Through
    /\ c.kind # "override" => c.env = <<>>
    /\ c.kind = "subshell" <=> c.dir # Through
    /\ \A i \in DOMAIN c.env : c.env[i].value # Empty

Shaped == \A k \in DOMAIN calls : Shape(calls[k])

VarsInv == TypeOK /\ Shaped

\* Two assignments of one list never name the same variable.
OncePerList ==
    \A list \in Overrides : \A i, j \in DOMAIN list : list[i].name = list[j].name => i = j

LEMMA Distinct ==
    /\ Unset \in Maybe /\ Unset # Empty /\ Unset \notin Values
    /\ Through \notin Maybe /\ Through \notin Dirs /\ Through \notin Seq(Values)
    /\ Empty \in Values /\ Empty \notin Dirs /\ Dirs \subseteq Values
BY ScopeAssumption DEF Maybe

\* The assignments of a name among the first k, and which is the last.
Naming(list, k, n) == {i \in 1..k : list[i].name = n}

LEMMA LastAssignment ==
    ASSUME NEW list \in Seq([name : Names, value : Maybe]), NEW k \in 0..Len(list), NEW n,
           Naming(list, k, n) # {}
    PROVE  /\ Max(Naming(list, k, n)) \in Naming(list, k, n)
           /\ \A i \in Naming(list, k, n) : Max(Naming(list, k, n)) >= i
           /\ list[Max(Naming(list, k, n))].value \in Maybe
<1>1. /\ Max(Naming(list, k, n)) \in Naming(list, k, n)
      /\ \A i \in Naming(list, k, n) : Max(Naming(list, k, n)) >= i
  <2>1. Naming(list, k, n) \subseteq 0..k /\ k \in Nat BY DEF Naming
  <2> QED BY <2>1, MaxFacts
<1>2. Max(Naming(list, k, n)) \in 1..Len(list) BY <1>1 DEF Naming
<1>3. list[Max(Naming(list, k, n))] \in [name : Names, value : Maybe]
  BY <1>2, ElementOfSeq
<1> QED BY <1>1, <1>3

\* Assignments keep the environment's type: none holds the empty string.
LEMMA AssignedType ==
    ASSUME NEW list \in Seq([name : Names, value : Maybe]), NEW k \in 0..Len(list),
           NEW e \in [Names -> Maybe \ {Empty}]
    PROVE  Assigned(list, k, e) \in [Names -> Maybe \ {Empty}]
<1> SUFFICES ASSUME NEW n \in Names PROVE Assigned(list, k, e)[n] \in Maybe \ {Empty}
  BY DEF Assigned
<1> DEFINE at == Naming(list, k, n)
<1>1. Assigned(list, k, e)[n] = IF at = {} THEN e[n] ELSE InEnv(list[Max(at)].value)
  BY DEF Assigned, Naming
<1>2. at # {} => list[Max(at)].value \in Maybe BY LastAssignment
<1> HIDE DEF at
<1> QED BY <1>1, <1>2, Distinct DEF InEnv

\* Opening a scope that has its shape, closing one, changing none.
LEMMA PushCall ==
    ASSUME calls \in Seq(CallType), Shaped, NEW c \in CallType, Shape(c),
           calls' = Append(calls, c)
    PROVE  calls' \in Seq(CallType) /\ Shaped'
<1>1. /\ calls' \in Seq(CallType)
      /\ DOMAIN calls' = 1..Len(calls) + 1
      /\ \A i \in 1..Len(calls) : calls'[i] = calls[i]
      /\ calls'[Len(calls) + 1] = c
  BY AppendFacts
<1>2. \A k \in 1..Len(calls) + 1 : Shape(calls'[k]) BY <1>1 DEF Shaped
<1> QED BY <1>1, <1>2 DEF Shaped, Shape

LEMMA PopCall ==
    ASSUME calls \in Seq(CallType), Shaped, calls # <<>>, calls' = Front(calls)
    PROVE  /\ calls' \in Seq(CallType) /\ Shaped'
           /\ Last(calls) \in CallType /\ Shape(Last(calls))
<1>1. /\ calls' \in Seq(CallType)
      /\ Len(calls') = Len(calls) - 1
      /\ \A i \in 1..Len(calls) - 1 : calls'[i] = calls[i]
      /\ Last(calls) \in CallType /\ Last(calls) = calls[Len(calls)]
      /\ Len(calls) \in Nat \ {0}
  BY LastFrontFacts
<1>2. \A k \in DOMAIN calls' : Shape(calls'[k]) BY <1>1 DEF Shaped
<1> QED BY <1>1, <1>2 DEF Shaped, Shape

LEMMA SameCalls ==
    ASSUME Shaped, calls' = calls
    PROVE  Shaped'
BY DEF Shaped, Shape

LEMMA VarsInvInit == Init => VarsInv
<1> SUFFICES ASSUME Init PROVE VarsInv OBVIOUS
<1>1. TypeOK BY Distinct, ScopeAssumption DEF Init, TypeOK, Maybe
<1>2. Shaped BY DEF Init, Shaped
<1> QED BY <1>1, <1>2 DEF VarsInv

LEMMA VariableTypes ==
    ASSUME VarsInv, NEW n \in UserNames,
           \/ \E v \in Values \ Dirs : Assign(n, v) \/ Export(n, v)
           \/ ExportName(n)
           \/ UnsetName(n)
    PROVE  VarsInv'
<1>1. TypeOK'
  <2>1. /\ shellVars \in [Names -> Maybe] /\ env \in [Names -> Maybe \ {Empty}]
        /\ \A v \in Maybe : InEnv(v) \in Maybe \ {Empty}
    BY Distinct DEF VarsInv, TypeOK, InEnv, Maybe
  <2>2. shellVars' \in [Names -> Maybe] /\ env' \in [Names -> Maybe \ {Empty}]
    <3>1. CASE \E v \in Values \ Dirs : Assign(n, v) \/ Export(n, v)
      BY <2>1, <3>1 DEF Assign, Export, Maybe
    <3>2. CASE ExportName(n) BY <2>1, <3>2 DEF ExportName
    <3>3. CASE UnsetName(n) BY <2>1, <3>3 DEF UnsetName, Maybe
    <3> QED BY <3>1, <3>2, <3>3
  <2>3. UNCHANGED <<args, calls, cwd, dirStack, gone>>
    BY DEF Assign, Export, ExportName, UnsetName, places
  <2> QED BY <2>2, <2>3 DEF VarsInv, TypeOK
<1>2. Shaped'
  BY SameCalls DEF VarsInv, Assign, Export, ExportName, UnsetName
<1> QED BY <1>1, <1>2 DEF VarsInv

\* The innermost function is one of the open calls.
LEMMA InnermostFunction ==
    ASSUME VarsInv, Functions # {}
    PROVE  /\ Max(Functions) \in DOMAIN calls
           /\ calls[Max(Functions)].kind = "function"
           /\ \A k \in DOMAIN calls : k > Max(Functions) => calls[k].kind # "function"
<1>1. DOMAIN calls = 1..Len(calls) /\ Len(calls) \in Nat
  BY DEF VarsInv, TypeOK
<1>2. Functions \subseteq 0..Len(calls) BY <1>1 DEF Functions
<1>3. Max(Functions) \in Functions /\ \A y \in Functions : Max(Functions) >= y
  BY <1>1, <1>2, MaxFacts
<1>4. \A k \in DOMAIN calls : k > Max(Functions) => k \notin Functions
  <2> DEFINE m == Max(Functions)
  <2>1. m \in Functions /\ \A y \in Functions : m >= y BY <1>3
  <2> HIDE DEF m
  <2>2. \A k \in DOMAIN calls : k > m => k \notin Functions
    BY <1>1, <1>2, <2>1
  <2> QED BY <2>2 DEF m
<1> QED BY <1>3, <1>4 DEF Functions

LEMMA LocalTypes ==
    ASSUME VarsInv, NEW n \in UserNames, NEW v \in Values \ Dirs, Local(n, v)
    PROVE  VarsInv'
<1> DEFINE m == Max(Functions)
<1>1. m \in DOMAIN calls /\ calls[m].kind = "function"
  BY InnermostFunction DEF Local
<1>2. n \in Names /\ calls \in Seq(CallType) /\ calls[m] \in CallType
  BY <1>1, ScopeAssumption, ElementOfSeq DEF VarsInv, TypeOK
<1>3. [calls[m] EXCEPT !.var[n] = shellVars[n]] \in CallType
  BY <1>2 DEF CallType, VarsInv, TypeOK
<1>4. calls' = calls \/ calls' = [calls EXCEPT ![m] = [calls[m] EXCEPT !.var[n] = shellVars[n]]]
  BY <1>1, <1>2 DEF Local
<1> HIDE DEF m
<1>5. calls' \in Seq(CallType) BY <1>1, <1>2, <1>3, <1>4, ExceptSeq
<1>6. Shaped'
  <2>1. Shape(calls[m]) BY <1>1 DEF VarsInv, Shaped
  <2>2. Shape([calls[m] EXCEPT !.var[n] = shellVars[n]])
    BY <1>1, <1>2, <2>1 DEF Shape, CallType
  <2>3. \A k \in DOMAIN calls : Shape(calls'[k])
    BY <1>1, <1>4, <2>2 DEF VarsInv, Shaped
  <2>4. DOMAIN calls' = DOMAIN calls BY <1>4
  <2> QED BY <2>3, <2>4 DEF Shaped, Shape
<1>7. shellVars' \in [Names -> Maybe]
  BY <1>2 DEF Local, VarsInv, TypeOK, Maybe
<1> QED BY <1>5, <1>6, <1>7 DEF VarsInv, TypeOK, Local, places

LEMMA ArgumentTypes ==
    ASSUME VarsInv,
           \/ \E a \in ArgLists : SetArgs(a)
           \/ \E i \in 1..2 : Shift(i)
    PROVE  VarsInv'
<1>1. args' \in Seq(Values)
  <2>1. ASSUME NEW a \in ArgLists, SetArgs(a) PROVE args' \in Seq(Values)
    BY <2>1, ScopeAssumption DEF SetArgs
  <2>2. ASSUME NEW i \in 1..2, Shift(i) PROVE args' \in Seq(Values)
    <3>1. args \in Seq(Values) /\ Len(args) \in Nat
      BY DEF VarsInv, TypeOK
    <3>2. CASE i =< Len(args)
      <4>1. \A j \in i + 1..Len(args) : args[j] \in Values
        BY <3>1, ElementOfSeq
      <4>2. SubSeq(args, i + 1, Len(args)) \in Seq(Values)
        BY <3>1, <4>1, SubSeqProperties
      <4> QED BY <2>2, <3>2, <4>2 DEF Shift
    <3>3. CASE ~(i =< Len(args)) BY <2>2, <3>3 DEF Shift
    <3> QED BY <3>2, <3>3
  <2> QED BY <2>1, <2>2
<1>2. UNCHANGED <<shellVars, env, calls, cwd, dirStack, gone>>
  BY DEF SetArgs, Shift, places
<1> QED BY <1>1, <1>2, SameCalls DEF VarsInv, TypeOK

\* What CallWithEnv puts aside.
Saved(list) ==
    [i \in DOMAIN list |-> [name |-> list[i].name,
                            value |-> Assigned(list, i - 1, env)[list[i].name]]]

LEMMA SavedType ==
    ASSUME VarsInv, NEW list \in Overrides
    PROVE  /\ list \in Seq([name : Names, value : Values])
           /\ list \in Seq([name : Names, value : Maybe])
           /\ Saved(list) \in Seq([name : Names, value : Maybe])
           /\ Len(Saved(list)) = Len(list)
           /\ \A i \in DOMAIN Saved(list) : Saved(list)[i].value # Empty
<1>1. list \in Seq([name : Names, value : Values]) BY ScopeAssumption
<1>2. list \in Seq([name : Names, value : Maybe])
  <2>1. [name : Names, value : Values] \subseteq [name : Names, value : Maybe]
    BY DEF Maybe
  <2> QED BY <1>1, <2>1, SeqMonotonic
<1>3. Len(list) \in Nat /\ DOMAIN list = 1..Len(list) BY <1>1
<1>4. ASSUME NEW i \in 1..Len(list)
      PROVE  /\ list[i].name \in Names
             /\ Assigned(list, i - 1, env)[list[i].name] \in Maybe \ {Empty}
  <2>1. list[i] \in [name : Names, value : Maybe] BY <1>2, ElementOfSeq
  <2>2. i - 1 \in 0..Len(list) /\ env \in [Names -> Maybe \ {Empty}]
    BY <1>3 DEF VarsInv, TypeOK
  <2>3. Assigned(list, i - 1, env) \in [Names -> Maybe \ {Empty}]
    BY <1>2, <2>2, AssignedType
  <2> QED BY <2>1, <2>3
<1>5. \A i \in 1..Len(list) : Saved(list)[i] \in [name : Names, value : Maybe]
  BY <1>3, <1>4 DEF Saved
<1>6. Saved(list) = [i \in 1..Len(list) |-> Saved(list)[i]]
  BY <1>3 DEF Saved
<1>7. Saved(list) \in Seq([name : Names, value : Maybe]) /\ Len(Saved(list)) = Len(list)
  BY <1>3, <1>5, <1>6, SeqOfFunction
<1>8. \A i \in 1..Len(list) : Saved(list)[i].value # Empty
  BY <1>3, <1>4 DEF Saved
<1> QED BY <1>1, <1>2, <1>7, <1>8

LEMMA OpenTypes ==
    ASSUME VarsInv,
           \/ \E a \in ArgLists : CallFunction(a) \/ CallBash(a)
           \/ \E list \in Overrides : CallWithEnv(list)
           \/ CallSubshell
    PROVE  VarsInv'
<1> USE DEF VarsInv
<1>1. Nothing \in [Names -> Maybe \cup {Through}] /\ <<>> \in Seq([name : Names, value : Maybe])
  BY DEF Nothing
<1>2. ASSUME NEW a \in ArgLists, CallFunction(a) \/ CallBash(a) PROVE VarsInv'
  <2>1. PICK kind \in {"function", "bash"} :
           calls' = Append(calls, Call(kind, Nothing, <<>>, args, Through))
    BY <1>2 DEF CallFunction, CallBash
  <2> DEFINE c == Call(kind, Nothing, <<>>, args, Through)
  <2>2. c \in CallType BY <1>1 DEF CallType, Call, TypeOK
  <2>3. Shape(c) BY Distinct DEF Shape, Call, TypeOK
  <2> HIDE DEF c
  <2>4. calls' \in Seq(CallType) /\ Shaped'
    BY <2>1, <2>2, <2>3, PushCall DEF c, TypeOK
  <2>5. args' \in Seq(Values) /\ UNCHANGED <<shellVars, env, cwd, dirStack, gone>>
    BY <1>2, ScopeAssumption DEF CallFunction, CallBash, places
  <2> QED BY <2>4, <2>5 DEF TypeOK
<1>3. ASSUME NEW list \in Overrides, CallWithEnv(list) PROVE VarsInv'
  <2> DEFINE c == Call("override", Nothing, Saved(list), Through, Through)
  <2>1. calls' = Append(calls, c) BY <1>3 DEF CallWithEnv, Saved
  <2>2. c \in CallType BY <1>1, SavedType DEF CallType, Call
  <2>3. Shape(c) BY SavedType DEF Shape, Call
  <2> HIDE DEF c
  <2>4. calls' \in Seq(CallType) /\ Shaped'
    BY <2>1, <2>2, <2>3, PushCall DEF TypeOK
  <2>5. env' \in [Names -> Maybe \ {Empty}]
    <3>1. list \in Seq([name : Names, value : Maybe]) BY SavedType
    <3>3. Len(list) \in 0..Len(list) BY <3>1
    <3>2. Assigned(list, Len(list), env) \in [Names -> Maybe \ {Empty}]
      BY <3>1, <3>3, AssignedType DEF TypeOK
    <3> QED BY <1>3, <3>2 DEF CallWithEnv
  <2>6. UNCHANGED <<shellVars, args, cwd, dirStack, gone>>
    BY <1>3 DEF CallWithEnv, places
  <2> QED BY <2>4, <2>5, <2>6 DEF TypeOK
<1>4. ASSUME CallSubshell PROVE VarsInv'
  <2> DEFINE c == Call("subshell", Nothing, <<>>, Through, cwd)
  <2>1. calls' = Append(calls, c) BY <1>4 DEF CallSubshell
  <2>2. c \in CallType BY <1>1 DEF CallType, Call, TypeOK
  <2>3. Shape(c) BY Distinct DEF Shape, Call, TypeOK
  <2> HIDE DEF c
  <2>4. calls' \in Seq(CallType) /\ Shaped'
    BY <2>1, <2>2, <2>3, PushCall DEF TypeOK
  <2> QED BY <1>4, <2>4 DEF TypeOK, CallSubshell, places
<1> QED BY <1>2, <1>3, <1>4

LEMMA CloseTypes ==
    ASSUME VarsInv, FunctionEnds \/ BashEnds \/ EnvEnds \/ SubshellEnds
    PROVE  VarsInv'
<1> DEFINE c == Last(calls)
<1>1. calls # <<>> /\ calls' = Front(calls)
  BY DEF FunctionEnds, BashEnds, EnvEnds, SubshellEnds, Ends
<1>2. calls' \in Seq(CallType) /\ Shaped' /\ c \in CallType /\ Shape(c)
  BY <1>1, PopCall DEF VarsInv, TypeOK
<1> HIDE DEF c
<1>3. CASE FunctionEnds
  <2>1. shellVars' \in [Names -> Maybe] /\ args' \in Seq(Values)
        /\ UNCHANGED <<env, cwd, dirStack, gone>>
    BY <1>2, <1>3 DEF FunctionEnds, Ends, c, CallType, Shape, VarsInv, TypeOK, places
  <2> QED BY <1>2, <2>1 DEF VarsInv, TypeOK
<1>4. CASE BashEnds
  <2>1. args' \in Seq(Values) /\ UNCHANGED <<shellVars, env, cwd, dirStack, gone>>
    BY <1>2, <1>4 DEF BashEnds, Ends, c, CallType, Shape, places
  <2> QED BY <1>2, <2>1 DEF VarsInv, TypeOK
<1>5. CASE EnvEnds
  <2>1. c.env \in Seq([name : Names, value : Maybe]) /\ Len(c.env) \in 0..Len(c.env)
    BY <1>2 DEF CallType
  <2>2. Assigned(c.env, Len(c.env), env) \in [Names -> Maybe \ {Empty}]
    BY <2>1, AssignedType DEF VarsInv, TypeOK
  <2>3. env' \in [Names -> Maybe \ {Empty}] /\ UNCHANGED <<shellVars, args, cwd, dirStack, gone>>
    BY <1>5, <2>2 DEF EnvEnds, c, places
  <2> QED BY <1>2, <2>3 DEF VarsInv, TypeOK
<1>6. CASE SubshellEnds
  <2>1. cwd' \in Dirs /\ UNCHANGED <<shellVars, env, args, dirStack, gone>>
    BY <1>2, <1>6 DEF SubshellEnds, Ends, c, CallType, Shape, VarsInv, TypeOK
  <2> QED BY <1>2, <2>1 DEF VarsInv, TypeOK
<1> QED BY <1>3, <1>4, <1>5, <1>6

LEMMA DirectoryTypes ==
    ASSUME VarsInv, Popd \/ \E d \in Dirs : Cd(d) \/ Pushd(d) \/ RemoveDir(d)
    PROVE  VarsInv'
<1>1. UNCHANGED <<shellVars, args, calls>>
  BY DEF Popd, Cd, Pushd, RemoveDir
<1>2. env' \in [Names -> Maybe \ {Empty}]
  <2>1. ASSUME NEW d \in Dirs, Cd(d) PROVE env' \in [Names -> Maybe \ {Empty}]
    BY <2>1, Distinct DEF Cd, VarsInv, TypeOK, Maybe
  <2> QED BY <2>1 DEF Popd, Pushd, RemoveDir, VarsInv, TypeOK
<1>3. cwd' \in Dirs /\ dirStack' \in Seq(Dirs) /\ gone' \subseteq Dirs
  <2>1. CASE Popd
    <3>1. Last(dirStack) \in Dirs /\ Front(dirStack) \in Seq(Dirs)
      BY <2>1, LastFrontFacts DEF Popd, VarsInv, TypeOK
    <3> QED BY <2>1, <3>1 DEF Popd, VarsInv, TypeOK
  <2>2. ASSUME NEW d \in Dirs, Cd(d) \/ Pushd(d) \/ RemoveDir(d)
        PROVE  cwd' \in Dirs /\ dirStack' \in Seq(Dirs) /\ gone' \subseteq Dirs
    <3>1. CASE Cd(d) BY <3>1 DEF Cd, VarsInv, TypeOK
    <3>2. CASE Pushd(d)
      <4>1. Append(dirStack, cwd) \in Seq(Dirs)
        BY AppendFacts DEF VarsInv, TypeOK
      <4> QED BY <3>2, <4>1 DEF Pushd, VarsInv, TypeOK
    <3>3. CASE RemoveDir(d) BY <3>3 DEF RemoveDir, VarsInv, TypeOK
    <3> QED BY <2>2, <3>1, <3>2, <3>3
  <2> QED BY <2>1, <2>2
<1> QED BY <1>1, <1>2, <1>3, SameCalls DEF VarsInv, TypeOK

LEMMA VarsInvStep == VarsInv /\ [Next]_vars => VarsInv'
<1> SUFFICES ASSUME VarsInv, [Next]_vars PROVE VarsInv' OBVIOUS
<1>1. CASE UNCHANGED vars BY <1>1, SameCalls DEF vars, VarsInv, TypeOK
<1>2. CASE Next
  <2>1. ASSUME NEW n \in UserNames, NEW v \in Values \ Dirs, Local(n, v) PROVE VarsInv'
    BY <2>1, LocalTypes
  <2>2. ASSUME NEW n \in UserNames,
               \/ \E v \in Values \ Dirs : Assign(n, v) \/ Export(n, v)
               \/ ExportName(n)
               \/ UnsetName(n)
        PROVE  VarsInv'
    BY <2>2, VariableTypes
  <2> QED
    BY <1>2, <2>1, <2>2, ArgumentTypes, OpenTypes, CloseTypes, DirectoryTypes DEF Next
<1> QED BY <1>1, <1>2

\* For any names, values, directories and lists, and any nesting: the globals
\* keep their types, the environment never holds the empty string, and what
\* an open scope has put aside is what its kind changes.
THEOREM TypeCorrect == Spec => []TypeOK
<1>1. VarsInv => TypeOK BY DEF VarsInv
<1> QED BY <1>1, VarsInvInit, VarsInvStep, PTL DEF Spec

(***************************************************************************)
(* The nested scopes.  What each open call has put aside of a variable, an *)
(* environment variable, the arguments and the directory.                  *)
(***************************************************************************)
Depth == Len(calls)

VarPast(n) == [j \in 1..Depth |-> calls[j].var[n]]
EnvPast(n) == [j \in 1..Depth |-> EnvAside(calls[j], n)]
ArgPast == [j \in 1..Depth |-> calls[j].args]
DirPast == [j \in 1..Depth |-> calls[j].dir]

VarTop(n) == Top(VarPast(n), Depth)
EnvTop(n) == Top(EnvPast(n), Depth)
ArgTop == Top(ArgPast, Depth)
DirTop == Top(DirPast, Depth)

\* The scopes that ShellScopes sees.
TheScopes == [k \in 1..Depth + 1 |-> ScopeAt(k)]

Scope(k) ==
    [var  |-> [n \in Names |-> At(VarPast(n), Depth, k, shellVars[n])],
     env  |-> [n \in Names |-> At(EnvPast(n), Depth, k, env[n])],
     args |-> At(ArgPast, Depth, k, args),
     dir  |-> At(DirPast, Depth, k, cwd)]

ScopesAre ==
    /\ Depth \in Nat
    /\ TheScopes = [k \in 1..Depth + 1 |-> Scope(k)]
    /\ \A k \in 1..Depth + 1 :
          /\ TheScopes[k] = [var |-> TheScopes[k].var, env |-> TheScopes[k].env,
                             args |-> TheScopes[k].args, dir |-> TheScopes[k].dir]
          /\ TheScopes[k].var = [n \in Names |-> At(VarPast(n), Depth, k, shellVars[n])]
          /\ TheScopes[k].env = [n \in Names |-> At(EnvPast(n), Depth, k, env[n])]
          /\ TheScopes[k].args = At(ArgPast, Depth, k, args)
          /\ TheScopes[k].dir = At(DirPast, Depth, k, cwd)

LEMMA ScopesAreThose == VarsInv => ScopesAre
<1> SUFFICES ASSUME VarsInv PROVE ScopesAre OBVIOUS
<1>1. Depth \in Nat BY DEF VarsInv, TypeOK, Depth
<1>2. ASSUME NEW k \in 1..Depth + 1 PROVE ScopeAt(k) = Scope(k)
  <2>1. k > 1 => k - 1 \in 1..Depth BY <1>1
  <2>2. ASSUME NEW n \in Names
        PROVE  /\ {j \in k..Depth : calls[j].var[n] # Through} = Above(VarPast(n), Depth, k)
               /\ {j \in k..Depth : EnvAside(calls[j], n) # Through}
                  = Above(EnvPast(n), Depth, k)
    BY <1>1 DEF Above, VarPast, EnvPast
  <2>3. /\ {j \in k..Depth : calls[j].args # Through} = Above(ArgPast, Depth, k)
        /\ {j \in k..Depth : calls[j].dir # Through} = Above(DirPast, Depth, k)
    BY <1>1 DEF Above, ArgPast, DirPast
  <2>4. ASSUME NEW n \in Names
        PROVE  /\ BoundAt(k, LAMBDA c : c.var[n], shellVars[n])
                  = At(VarPast(n), Depth, k, shellVars[n])
               /\ BoundAt(k, LAMBDA c : EnvAside(c, n), env[n])
                  = At(EnvPast(n), Depth, k, env[n])
    <3>1. /\ Above(VarPast(n), Depth, k) # {} => Min(Above(VarPast(n), Depth, k)) \in 1..Depth
          /\ Above(EnvPast(n), Depth, k) # {} => Min(Above(EnvPast(n), Depth, k)) \in 1..Depth
      BY <1>1, MinFacts DEF Above
    <3>2. BoundAt(k, LAMBDA c : c.var[n], shellVars[n])
          = At(VarPast(n), Depth, k, shellVars[n])
      BY <2>1, <2>2, <3>1 DEF BoundAt, At, VarPast, Depth
    <3>3. BoundAt(k, LAMBDA c : EnvAside(c, n), env[n])
          = At(EnvPast(n), Depth, k, env[n])
      BY <2>1, <2>2, <3>1 DEF BoundAt, At, EnvPast, Depth
    <3> QED BY <3>2, <3>3
  <2>5. /\ BoundAt(k, LAMBDA c : c.args, args) = At(ArgPast, Depth, k, args)
        /\ BoundAt(k, LAMBDA c : c.dir, cwd) = At(DirPast, Depth, k, cwd)
    <3>1. /\ Above(ArgPast, Depth, k) # {} => Min(Above(ArgPast, Depth, k)) \in 1..Depth
          /\ Above(DirPast, Depth, k) # {} => Min(Above(DirPast, Depth, k)) \in 1..Depth
      BY <1>1, MinFacts DEF Above
    <3>2. BoundAt(k, LAMBDA c : c.args, args) = At(ArgPast, Depth, k, args)
      BY <2>1, <2>3, <3>1 DEF BoundAt, At, ArgPast, Depth
    <3>3. BoundAt(k, LAMBDA c : c.dir, cwd) = At(DirPast, Depth, k, cwd)
      BY <2>1, <2>3, <3>1 DEF BoundAt, At, DirPast, Depth
    <3> QED BY <3>2, <3>3
  <2> QED BY <2>4, <2>5 DEF ScopeAt, Scope
<1>3. TheScopes = [k \in 1..Depth + 1 |-> Scope(k)]
  BY <1>2 DEF TheScopes
<1>4. ASSUME NEW k \in 1..Depth + 1
      PROVE  /\ TheScopes[k] = [var |-> TheScopes[k].var, env |-> TheScopes[k].env,
                                args |-> TheScopes[k].args, dir |-> TheScopes[k].dir]
             /\ TheScopes[k].var = [n \in Names |-> At(VarPast(n), Depth, k, shellVars[n])]
             /\ TheScopes[k].env = [n \in Names |-> At(EnvPast(n), Depth, k, env[n])]
             /\ TheScopes[k].args = At(ArgPast, Depth, k, args)
             /\ TheScopes[k].dir = At(DirPast, Depth, k, cwd)
  <2>1. TheScopes[k] = Scope(k) BY <1>3
  <2> QED BY <2>1 DEF Scope
<1> QED BY <1>1, <1>3, <1>4 DEF ScopesAre

\* The same of the next state.
LEMMA ScopesAreNext == VarsInv' => ScopesAre'
BY ScopesAreThose, PTL

\* No global is Through.
LEMMA GlobalsBound ==
    VarsInv => /\ \A n \in Names : shellVars[n] # Through /\ env[n] # Through
               /\ args # Through /\ cwd # Through
BY Distinct DEF VarsInv, TypeOK

LEMMA GlobalsBoundNext ==
    VarsInv' => /\ \A n \in Names : shellVars'[n] # Through /\ env'[n] # Through
                /\ args' # Through /\ cwd' # Through
BY Distinct DEF VarsInv, TypeOK

\* The level of a thing in the nested scopes, and what is bound there.
LEMMA Levels ==
    ASSUME VarsInv
    PROVE  /\ \A n \in Names : /\ Scopes!VarLevel(n) = VarTop(n)
                               /\ Scopes!EnvLevel(n) = EnvTop(n)
                               /\ Scopes!TheVar(n) = shellVars[n]
           /\ Scopes!ArgLevel = ArgTop
           /\ Scopes!DirLevel = DirTop
           /\ Scopes!TheArgs = args
           /\ Scopes!TheDir = cwd
<1> USE DEF Scopes!VarLevel, Scopes!EnvLevel, Scopes!ArgLevel, Scopes!DirLevel,
            Scopes!Innermost
<1>1. ScopesAre BY ScopesAreThose
<1>2. \A k \in 1..Depth + 1 :
        /\ \A n \in Names : /\ TheScopes[k].var[n] = At(VarPast(n), Depth, k, shellVars[n])
                             /\ TheScopes[k].env[n] = At(EnvPast(n), Depth, k, env[n])
        /\ TheScopes[k].args = At(ArgPast, Depth, k, args)
        /\ TheScopes[k].dir = At(DirPast, Depth, k, cwd)
  <2> TAKE k \in 1..Depth + 1
  <2>1. TheScopes[k].var = [n \in Names |-> At(VarPast(n), Depth, k, shellVars[n])]
    BY <1>1 DEF ScopesAre
  <2>2. TheScopes[k].env = [n \in Names |-> At(EnvPast(n), Depth, k, env[n])]
    BY <1>1 DEF ScopesAre
  <2>3. /\ TheScopes[k].args = At(ArgPast, Depth, k, args)
        /\ TheScopes[k].dir = At(DirPast, Depth, k, cwd)
    BY <1>1 DEF ScopesAre
  <2> QED BY <2>1, <2>2, <2>3
<1>0. Depth \in Nat /\ DOMAIN TheScopes = 1..Depth + 1
  BY <1>1 DEF ScopesAre
<1>3. ASSUME NEW n \in Names
      PROVE  /\ Scopes!VarLevel(n) = VarTop(n)
             /\ Scopes!EnvLevel(n) = EnvTop(n)
             /\ Scopes!TheVar(n) = shellVars[n]
  <2>1. Binding(VarPast(n), Depth) = {k \in 1..Depth + 1 : TheScopes[k].var[n] # Through}
    <3>1. Binding(VarPast(n), Depth)
          = {k \in 1..Depth + 1 : At(VarPast(n), Depth, k, shellVars[n]) # Through}
      <4>1. shellVars[n] # Through BY GlobalsBound
      <4> QED BY <1>0, <4>1, BindingIs
    <3> QED BY <1>2, <3>1
  <2>2. Binding(EnvPast(n), Depth) = {k \in 1..Depth + 1 : TheScopes[k].env[n] # Through}
    <3>1. Binding(EnvPast(n), Depth)
          = {k \in 1..Depth + 1 : At(EnvPast(n), Depth, k, env[n]) # Through}
      <4>1. env[n] # Through BY GlobalsBound
      <4> QED BY <1>0, <4>1, BindingIs
    <3> QED BY <1>2, <3>1
  <2>3. Scopes!VarLevel(n) = VarTop(n) /\ Scopes!EnvLevel(n) = EnvTop(n)
    <3>1. /\ Scopes!VarLevel(n) = Max({k \in DOMAIN TheScopes : TheScopes[k].var[n] # Through})
          /\ Scopes!EnvLevel(n) = Max({k \in DOMAIN TheScopes : TheScopes[k].env[n] # Through})
      BY DEF TheScopes, Depth, Max, Scopes!Max
    <3> QED BY <1>0, <2>1, <2>2, <3>1 DEF VarTop, EnvTop, Top
  <2>4. VarTop(n) \in 1..Depth + 1
        /\ At(VarPast(n), Depth, VarTop(n), shellVars[n]) = shellVars[n]
    BY <1>1, TopFacts, AssignTop DEF VarTop, ScopesAre
  <2>5. TheScopes[VarTop(n)].var[n] = shellVars[n] BY <1>2, <2>4
  <2> QED BY <2>3, <2>5 DEF Scopes!TheVar, TheScopes, Depth
<1>4. Scopes!ArgLevel = ArgTop /\ Scopes!TheArgs = args
  <2>1. Binding(ArgPast, Depth)
        = {k \in 1..Depth + 1 : At(ArgPast, Depth, k, args) # Through}
    BY <1>1, BindingIs, GlobalsBound DEF ScopesAre
  <2>2. Binding(ArgPast, Depth) = {k \in 1..Depth + 1 : TheScopes[k].args # Through}
    BY <1>2, <2>1
  <2>3. Scopes!ArgLevel = ArgTop
    <3>1. Scopes!ArgLevel = Max({k \in DOMAIN TheScopes : TheScopes[k].args # Through})
      BY DEF TheScopes, Depth, Max, Scopes!Max
    <3> QED BY <1>0, <2>2, <3>1 DEF ArgTop, Top
  <2>4. ArgTop \in 1..Depth + 1 /\ At(ArgPast, Depth, ArgTop, args) = args
    BY <1>1, TopFacts, AssignTop DEF ArgTop, ScopesAre
  <2>5. TheScopes[ArgTop].args = args BY <1>2, <2>4
  <2> QED BY <2>3, <2>5 DEF Scopes!TheArgs, TheScopes, Depth
<1>5. Scopes!DirLevel = DirTop /\ Scopes!TheDir = cwd
  <2>1. Binding(DirPast, Depth)
        = {k \in 1..Depth + 1 : At(DirPast, Depth, k, cwd) # Through}
    BY <1>1, BindingIs, GlobalsBound DEF ScopesAre
  <2>2. Binding(DirPast, Depth) = {k \in 1..Depth + 1 : TheScopes[k].dir # Through}
    BY <1>2, <2>1
  <2>3. Scopes!DirLevel = DirTop
    <3>1. Scopes!DirLevel = Max({k \in DOMAIN TheScopes : TheScopes[k].dir # Through})
      BY DEF TheScopes, Depth, Max, Scopes!Max
    <3> QED BY <1>0, <2>2, <3>1 DEF DirTop, Top
  <2>4. DirTop \in 1..Depth + 1 /\ At(DirPast, Depth, DirTop, cwd) = cwd
    BY <1>1, TopFacts, AssignTop DEF DirTop, ScopesAre
  <2>5. TheScopes[DirTop].dir = cwd BY <1>2, <2>4
  <2> QED BY <2>3, <2>5 DEF Scopes!TheDir, TheScopes, Depth
<1> QED BY <1>3, <1>4, <1>5

(***************************************************************************)
(* What a step does to the nested scopes.                                  *)
(***************************************************************************)
\* Scopes are compared field by field.
IsScope(q) ==
    /\ q = [var |-> q.var, env |-> q.env, args |-> q.args, dir |-> q.dir]
    /\ q.var = [n \in Names |-> q.var[n]]
    /\ q.env = [n \in Names |-> q.env[n]]

LEMMA ScopeEqual ==
    ASSUME NEW q, IsScope(q), NEW r, IsScope(r),
           \A n \in Names : r.var[n] = q.var[n] /\ r.env[n] = q.env[n],
           r.args = q.args, r.dir = q.dir
    PROVE  r = q
<1>1. r.var = q.var /\ r.env = q.env BY DEF IsScope
<1> QED BY <1>1 DEF IsScope

ScopeFacts ==
    /\ Depth \in Nat
    /\ TheScopes = [k \in 1..Depth + 1 |-> TheScopes[k]]
    /\ \A k \in 1..Depth + 1 : IsScope(TheScopes[k])
    /\ \A n \in Names : /\ VarTop(n) \in 1..Depth + 1
                        /\ TheScopes[VarTop(n)].var[n] = shellVars[n]
                        /\ EnvTop(n) \in 1..Depth + 1
                        /\ TheScopes[EnvTop(n)].env[n] = env[n]
    /\ ArgTop \in 1..Depth + 1 /\ TheScopes[ArgTop].args = args
    /\ DirTop \in 1..Depth + 1 /\ TheScopes[DirTop].dir = cwd

LEMMA ScopeFactsHold == VarsInv => ScopeFacts
<1> SUFFICES ASSUME VarsInv PROVE ScopeFacts OBVIOUS
<1>1. ScopesAre /\ Depth \in Nat BY ScopesAreThose DEF ScopesAre
<1>2. TheScopes = [k \in 1..Depth + 1 |-> TheScopes[k]] BY DEF TheScopes
<1>3. ASSUME NEW k \in 1..Depth + 1 PROVE IsScope(TheScopes[k])
  <2>1. /\ TheScopes[k] = [var |-> TheScopes[k].var, env |-> TheScopes[k].env,
                           args |-> TheScopes[k].args, dir |-> TheScopes[k].dir]
        /\ TheScopes[k].var = [n \in Names |-> At(VarPast(n), Depth, k, shellVars[n])]
        /\ TheScopes[k].env = [n \in Names |-> At(EnvPast(n), Depth, k, env[n])]
    BY <1>1 DEF ScopesAre
  <2> QED BY <2>1 DEF IsScope
<1>4. ASSUME NEW n \in Names
      PROVE  /\ VarTop(n) \in 1..Depth + 1
             /\ TheScopes[VarTop(n)].var[n] = shellVars[n]
             /\ EnvTop(n) \in 1..Depth + 1
             /\ TheScopes[EnvTop(n)].env[n] = env[n]
  <2>1. VarTop(n) \in 1..Depth + 1 /\ EnvTop(n) \in 1..Depth + 1
    BY <1>1, TopFacts DEF VarTop, EnvTop
  <2>2. /\ At(VarPast(n), Depth, VarTop(n), shellVars[n]) = shellVars[n]
        /\ At(EnvPast(n), Depth, EnvTop(n), env[n]) = env[n]
    BY <1>1, <2>1, AssignTop DEF VarTop, EnvTop
  <2>3. TheScopes[VarTop(n)].var =
            [m \in Names |-> At(VarPast(m), Depth, VarTop(n), shellVars[m])]
    BY <1>1, <2>1 DEF ScopesAre
  <2>4. TheScopes[EnvTop(n)].env =
            [m \in Names |-> At(EnvPast(m), Depth, EnvTop(n), env[m])]
    BY <1>1, <2>1 DEF ScopesAre
  <2> QED BY <2>1, <2>2, <2>3, <2>4
<1>5. /\ ArgTop \in 1..Depth + 1 /\ TheScopes[ArgTop].args = args
      /\ DirTop \in 1..Depth + 1 /\ TheScopes[DirTop].dir = cwd
  <2>1. ArgTop \in 1..Depth + 1 /\ DirTop \in 1..Depth + 1
    BY <1>1, TopFacts DEF ArgTop, DirTop
  <2>2. /\ At(ArgPast, Depth, ArgTop, args) = args
        /\ At(DirPast, Depth, DirTop, cwd) = cwd
    BY <1>1, <2>1, AssignTop DEF ArgTop, DirTop
  <2> QED BY <1>1, <2>1, <2>2 DEF ScopesAre
<1> QED BY <1>1, <1>2, <1>3, <1>4, <1>5 DEF ScopeFacts

LEMMA ScopeFactsNext == VarsInv' => ScopeFacts'
BY ScopeFactsHold, PTL

\* While no scope is opened or closed and nothing is put aside, assigning a
\* global changes the innermost scope that binds it.
LEMMA SameDepth ==
    ASSUME VarsInv, VarsInv', calls' = calls
    PROVE  /\ Depth' = Depth
           /\ TheScopes' = [k \in 1..Depth + 1 |-> TheScopes'[k]]
           /\ \A k \in 1..Depth + 1 :
                 /\ IsScope(TheScopes'[k])
                 /\ \A n \in Names :
                       /\ TheScopes'[k].var[n] = IF k = VarTop(n) THEN shellVars'[n]
                                                 ELSE TheScopes[k].var[n]
                       /\ TheScopes'[k].env[n] = IF k = EnvTop(n) THEN env'[n]
                                                 ELSE TheScopes[k].env[n]
                 /\ TheScopes'[k].args = IF k = ArgTop THEN args' ELSE TheScopes[k].args
                 /\ TheScopes'[k].dir = IF k = DirTop THEN cwd' ELSE TheScopes[k].dir
<1>1. ScopesAre /\ ScopesAre' /\ ScopeFacts'
  BY ScopesAreThose, ScopesAreNext, ScopeFactsNext
<1>2. Depth' = Depth /\ Depth \in Nat BY <1>1 DEF ScopesAre, Depth
<1>3. /\ ArgPast' = ArgPast /\ DirPast' = DirPast
      /\ \A n : VarPast(n)' = VarPast(n) /\ EnvPast(n)' = EnvPast(n)
  BY DEF ArgPast, DirPast, VarPast, EnvPast, EnvAside, Depth
<1>4. ASSUME NEW k \in 1..Depth + 1, NEW n \in Names
      PROVE  /\ TheScopes'[k].var[n] = IF k = VarTop(n) THEN shellVars'[n]
                                       ELSE TheScopes[k].var[n]
             /\ TheScopes'[k].env[n] = IF k = EnvTop(n) THEN env'[n]
                                       ELSE TheScopes[k].env[n]
  <2>1. TheScopes'[k].var = [m \in Names |-> At(VarPast(m)', Depth', k, shellVars'[m])]
    BY <1>1, <1>2 DEF ScopesAre, At, Above
  <2>2. TheScopes'[k].env = [m \in Names |-> At(EnvPast(m)', Depth', k, env'[m])]
    BY <1>1, <1>2 DEF ScopesAre, At, Above
  <2>3. TheScopes[k].var = [m \in Names |-> At(VarPast(m), Depth, k, shellVars[m])]
    BY <1>1 DEF ScopesAre
  <2>4. TheScopes[k].env = [m \in Names |-> At(EnvPast(m), Depth, k, env[m])]
    BY <1>1 DEF ScopesAre
  <2>5. /\ At(VarPast(n), Depth, k, shellVars'[n]) =
              IF k = VarTop(n) THEN shellVars'[n]
              ELSE At(VarPast(n), Depth, k, shellVars[n])
        /\ At(EnvPast(n), Depth, k, env'[n]) =
              IF k = EnvTop(n) THEN env'[n] ELSE At(EnvPast(n), Depth, k, env[n])
    BY <1>2, AssignTop DEF VarTop, EnvTop
  <2> QED BY <1>2, <1>3, <2>1, <2>2, <2>3, <2>4, <2>5
<1>5. ASSUME NEW k \in 1..Depth + 1
      PROVE  /\ TheScopes'[k].args = IF k = ArgTop THEN args' ELSE TheScopes[k].args
             /\ TheScopes'[k].dir = IF k = DirTop THEN cwd' ELSE TheScopes[k].dir
  <2>1. /\ TheScopes'[k].args = At(ArgPast', Depth', k, args')
        /\ TheScopes'[k].dir = At(DirPast', Depth', k, cwd')
    BY <1>1, <1>2 DEF ScopesAre, At, Above
  <2>2. /\ TheScopes[k].args = At(ArgPast, Depth, k, args)
        /\ TheScopes[k].dir = At(DirPast, Depth, k, cwd)
    BY <1>1 DEF ScopesAre
  <2>3. /\ At(ArgPast, Depth, k, args') =
              IF k = ArgTop THEN args' ELSE At(ArgPast, Depth, k, args)
        /\ At(DirPast, Depth, k, cwd') =
              IF k = DirTop THEN cwd' ELSE At(DirPast, Depth, k, cwd)
    BY <1>2, AssignTop DEF ArgTop, DirTop
  <2> QED BY <1>2, <1>3, <2>1, <2>2, <2>3
<1>6. \A k \in 1..Depth + 1 : IsScope(TheScopes'[k])
  BY <1>1, <1>2 DEF ScopeFacts, IsScope
<1>7. TheScopes' = [k \in 1..Depth + 1 |-> TheScopes'[k]]
  BY <1>1, <1>2 DEF ScopeFacts
<1> QED BY <1>2, <1>4, <1>5, <1>6, <1>7

\* A sequence of scopes, and what changing one field of one of them does.
ScopeSeq(S, d) == S = [k \in 1..d |-> S[k]] /\ \A k \in 1..d : IsScope(S[k])

WithVar(S, j, n, v) == [S EXCEPT ![j].var[n] = v]
WithEnv(S, j, n, v) == [S EXCEPT ![j].env[n] = v]
WithArgs(S, j, a)   == [S EXCEPT ![j].args = a]
WithDir(S, j, d)    == [S EXCEPT ![j].dir = d]

LEMMA SetVarIs ==
    ASSUME NEW d \in Nat, NEW S, ScopeSeq(S, d), NEW j \in 1..d,
           NEW n \in Names, NEW v, NEW R, R = WithVar(S, j, n, v)
    PROVE  /\ ScopeSeq(R, d)
           /\ \A k \in 1..d :
                 /\ \A m \in Names :
                       /\ R[k].var[m] = IF k = j /\ m = n THEN v ELSE S[k].var[m]
                       /\ R[k].env[m] = S[k].env[m]
                 /\ R[k].args = S[k].args /\ R[k].dir = S[k].dir
<1>1. R = [k \in 1..d |-> R[k]] /\ \A k \in 1..d : k # j => R[k] = S[k]
  BY DEF ScopeSeq, WithVar
<1>2. IsScope(S[j]) BY DEF ScopeSeq
<1>3. R[j] = [S[j] EXCEPT !.var = [S[j].var EXCEPT ![n] = v]]
  BY DEF ScopeSeq, WithVar
<1>4. R[j] = [var |-> [S[j].var EXCEPT ![n] = v], env |-> S[j].env,
              args |-> S[j].args, dir |-> S[j].dir]
  BY <1>2, <1>3 DEF IsScope
<1>5. [S[j].var EXCEPT ![n] = v] = [m \in Names |-> IF m = n THEN v ELSE S[j].var[m]]
  BY <1>2 DEF IsScope
<1>6. IsScope(R[j])
  <2>1. R[j].var = [m \in Names |-> IF m = n THEN v ELSE S[j].var[m]]
    BY <1>4, <1>5
  <2>2. R[j].env = [m \in Names |-> R[j].env[m]]
    BY <1>2, <1>4 DEF IsScope
  <2>3. R[j].var = [m \in Names |-> R[j].var[m]] BY <2>1
  <2>4. R[j] = [var |-> R[j].var, env |-> R[j].env, args |-> R[j].args, dir |-> R[j].dir]
    BY <1>4
  <2> QED BY <2>2, <2>3, <2>4 DEF IsScope
<1>7. ScopeSeq(R, d) BY <1>1, <1>6 DEF ScopeSeq
<1> QED BY <1>1, <1>4, <1>5, <1>7

LEMMA SetEnvIs ==
    ASSUME NEW d \in Nat, NEW S, ScopeSeq(S, d), NEW j \in 1..d,
           NEW n \in Names, NEW v, NEW R, R = WithEnv(S, j, n, v)
    PROVE  /\ ScopeSeq(R, d)
           /\ \A k \in 1..d :
                 /\ \A m \in Names :
                       /\ R[k].var[m] = S[k].var[m]
                       /\ R[k].env[m] = IF k = j /\ m = n THEN v ELSE S[k].env[m]
                 /\ R[k].args = S[k].args /\ R[k].dir = S[k].dir
<1>1. R = [k \in 1..d |-> R[k]] /\ \A k \in 1..d : k # j => R[k] = S[k]
  BY DEF ScopeSeq, WithEnv
<1>2. IsScope(S[j]) BY DEF ScopeSeq
<1>3. R[j] = [S[j] EXCEPT !.env = [S[j].env EXCEPT ![n] = v]]
  BY DEF ScopeSeq, WithEnv
<1>4. R[j] = [var |-> S[j].var, env |-> [S[j].env EXCEPT ![n] = v],
              args |-> S[j].args, dir |-> S[j].dir]
  BY <1>2, <1>3 DEF IsScope
<1>5. [S[j].env EXCEPT ![n] = v] = [m \in Names |-> IF m = n THEN v ELSE S[j].env[m]]
  BY <1>2 DEF IsScope
<1>6. IsScope(R[j])
  <2>1. R[j].env = [m \in Names |-> IF m = n THEN v ELSE S[j].env[m]]
    BY <1>4, <1>5
  <2>2. R[j].var = [m \in Names |-> R[j].var[m]]
    BY <1>2, <1>4 DEF IsScope
  <2>3. R[j].env = [m \in Names |-> R[j].env[m]] BY <2>1
  <2>4. R[j] = [var |-> R[j].var, env |-> R[j].env, args |-> R[j].args, dir |-> R[j].dir]
    BY <1>4
  <2> QED BY <2>2, <2>3, <2>4 DEF IsScope
<1>7. ScopeSeq(R, d) BY <1>1, <1>6 DEF ScopeSeq
<1> QED BY <1>1, <1>4, <1>5, <1>7

LEMMA SetArgsIs ==
    ASSUME NEW d \in Nat, NEW S, ScopeSeq(S, d), NEW j \in 1..d,
           NEW a, NEW R, R = WithArgs(S, j, a)
    PROVE  /\ ScopeSeq(R, d)
           /\ \A k \in 1..d :
                 /\ R[k].var = S[k].var /\ R[k].env = S[k].env
                 /\ R[k].args = IF k = j THEN a ELSE S[k].args
                 /\ R[k].dir = S[k].dir
<1>1. R = [k \in 1..d |-> R[k]] /\ \A k \in 1..d : k # j => R[k] = S[k]
  BY DEF ScopeSeq, WithArgs
<1>2. IsScope(S[j]) BY DEF ScopeSeq
<1>3. R[j] = [S[j] EXCEPT !.args = a] BY DEF ScopeSeq, WithArgs
<1>4. R[j] = [var |-> S[j].var, env |-> S[j].env, args |-> a, dir |-> S[j].dir]
  BY <1>2, <1>3 DEF IsScope
<1>5. IsScope(R[j]) BY <1>2, <1>4 DEF IsScope
<1>6. ScopeSeq(R, d) BY <1>1, <1>5 DEF ScopeSeq
<1> QED BY <1>1, <1>4, <1>6

LEMMA SetDirIs ==
    ASSUME NEW d \in Nat, NEW S, ScopeSeq(S, d), NEW j \in 1..d,
           NEW a, NEW R, R = WithDir(S, j, a)
    PROVE  /\ ScopeSeq(R, d)
           /\ \A k \in 1..d :
                 /\ R[k].var = S[k].var /\ R[k].env = S[k].env
                 /\ R[k].args = S[k].args
                 /\ R[k].dir = IF k = j THEN a ELSE S[k].dir
<1>1. R = [k \in 1..d |-> R[k]] /\ \A k \in 1..d : k # j => R[k] = S[k]
  BY DEF ScopeSeq, WithDir
<1>2. IsScope(S[j]) BY DEF ScopeSeq
<1>3. R[j] = [S[j] EXCEPT !.dir = a] BY DEF ScopeSeq, WithDir
<1>4. R[j] = [var |-> S[j].var, env |-> S[j].env, args |-> S[j].args, dir |-> a]
  BY <1>2, <1>3 DEF IsScope
<1>5. IsScope(R[j]) BY <1>2, <1>4 DEF IsScope
<1>6. ScopeSeq(R, d) BY <1>1, <1>5 DEF ScopeSeq
<1> QED BY <1>1, <1>4, <1>6

\* R is the scopes with the changed globals where they are bound.
Assigns(R) ==
    /\ ScopeSeq(R, Depth + 1)
    /\ \A k \in 1..Depth + 1, m \in Names :
          /\ R[k].var[m] = IF k = VarTop(m) THEN shellVars'[m] ELSE TheScopes[k].var[m]
          /\ R[k].env[m] = IF k = EnvTop(m) THEN env'[m] ELSE TheScopes[k].env[m]
    /\ \A k \in 1..Depth + 1 :
          /\ R[k].args = IF k = ArgTop THEN args' ELSE TheScopes[k].args
          /\ R[k].dir = IF k = DirTop THEN cwd' ELSE TheScopes[k].dir

LEMMA Becomes ==
    ASSUME VarsInv, VarsInv', calls' = calls, NEW R, Assigns(R)
    PROVE  TheScopes' = R
<1>1. R = [k \in 1..Depth + 1 |-> R[k]] /\ \A k \in 1..Depth + 1 : IsScope(R[k])
  BY DEF Assigns, ScopeSeq
<1>2. ASSUME NEW k \in 1..Depth + 1
      PROVE  R[k] = TheScopes'[k]
  <2>1. \A n \in Names : R[k].var[n] = TheScopes'[k].var[n]
                         /\ R[k].env[n] = TheScopes'[k].env[n]
    BY SameDepth DEF Assigns
  <2>2. R[k].args = TheScopes'[k].args /\ R[k].dir = TheScopes'[k].dir
    BY SameDepth DEF Assigns
  <2>3. IsScope(R[k]) /\ IsScope(TheScopes'[k]) BY <1>1, SameDepth
  <2> QED BY <2>1, <2>2, <2>3, ScopeEqual
<1>3. TheScopes' = [k \in 1..Depth + 1 |-> TheScopes'[k]] BY SameDepth
<1> QED BY <1>1, <1>2, <1>3

LEMMA TheScopesAreScopes == VarsInv => ScopeSeq(TheScopes, Depth + 1) /\ Depth + 1 \in Nat
BY ScopeFactsHold DEF ScopeFacts, ScopeSeq

\* Assigning one variable.
LEMMA NewValue ==
    ASSUME VarsInv, NEW n \in Names, NEW v
    PROVE  /\ \A m \in Names : [shellVars EXCEPT ![n] = v][m] =
                                 IF m = n THEN v ELSE shellVars[m]
           /\ \A m \in Names : [env EXCEPT ![n] = v][m] = IF m = n THEN v ELSE env[m]
BY DEF VarsInv, TypeOK

LEMMA SetVarStep ==
    ASSUME VarsInv, VarsInv', calls' = calls, NEW n \in Names, NEW v,
           shellVars' = [shellVars EXCEPT ![n] = v], UNCHANGED <<env, args, cwd>>
    PROVE  Scopes!SetVar(n, v)
<1> DEFINE R == WithVar(TheScopes, VarTop(n), n, v)
<1>1. ScopeFacts /\ ScopeSeq(TheScopes, Depth + 1) /\ Depth + 1 \in Nat
  BY ScopeFactsHold, TheScopesAreScopes
<1>2. VarTop(n) \in 1..Depth + 1 BY <1>1 DEF ScopeFacts
<1>3. /\ ScopeSeq(R, Depth + 1)
      /\ \A k \in 1..Depth + 1 :
            /\ \A m \in Names :
                  /\ R[k].var[m] = IF k = VarTop(n) /\ m = n THEN v
                                   ELSE TheScopes[k].var[m]
                  /\ R[k].env[m] = TheScopes[k].env[m]
            /\ R[k].args = TheScopes[k].args /\ R[k].dir = TheScopes[k].dir
  BY <1>1, <1>2, SetVarIs
<1> HIDE DEF R
<1>4. Assigns(R)
  <2>1. \A m \in Names : shellVars'[m] = IF m = n THEN v ELSE shellVars[m]
    BY NewValue
  <2>2. ASSUME NEW k \in 1..Depth + 1, NEW m \in Names
        PROVE  /\ R[k].var[m] = IF k = VarTop(m) THEN shellVars'[m]
                                ELSE TheScopes[k].var[m]
               /\ R[k].env[m] = IF k = EnvTop(m) THEN env'[m] ELSE TheScopes[k].env[m]
    <3>1. /\ TheScopes[VarTop(m)].var[m] = shellVars[m]
          /\ TheScopes[EnvTop(m)].env[m] = env[m]
      BY <1>1 DEF ScopeFacts
    <3>2. R[k].var[m] = IF k = VarTop(m) THEN shellVars'[m] ELSE TheScopes[k].var[m]
      BY <1>3, <2>1, <3>1
    <3>3. R[k].env[m] = IF k = EnvTop(m) THEN env'[m] ELSE TheScopes[k].env[m]
      BY <1>3, <3>1
    <3> QED BY <3>2, <3>3
  <2>3. ASSUME NEW k \in 1..Depth + 1
        PROVE  /\ R[k].args = IF k = ArgTop THEN args' ELSE TheScopes[k].args
               /\ R[k].dir = IF k = DirTop THEN cwd' ELSE TheScopes[k].dir
    BY <1>1, <1>3 DEF ScopeFacts
  <2> QED BY <1>3, <2>2, <2>3 DEF Assigns
<1>5. TheScopes' = R BY <1>4, Becomes
<1> QED BY <1>5, Levels DEF R, WithVar, Scopes!SetVar, TheScopes, Depth

\* A step that changes no scope where nothing is assigned.
LEMMA Kept ==
    ASSUME VarsInv, NEW k \in 1..Depth + 1
    PROVE  /\ \A m \in Names :
                 /\ TheScopes[k].var[m] = IF k = VarTop(m) THEN shellVars[m]
                                          ELSE TheScopes[k].var[m]
                 /\ TheScopes[k].env[m] = IF k = EnvTop(m) THEN env[m]
                                          ELSE TheScopes[k].env[m]
           /\ TheScopes[k].args = IF k = ArgTop THEN args ELSE TheScopes[k].args
           /\ TheScopes[k].dir = IF k = DirTop THEN cwd ELSE TheScopes[k].dir
BY ScopeFactsHold DEF ScopeFacts

LEMMA EnvStep ==
    ASSUME VarsInv, VarsInv', calls' = calls, NEW n \in Names, NEW w,
           env' = [env EXCEPT ![n] = w], UNCHANGED <<shellVars, args, cwd>>
    PROVE  TheScopes' = WithEnv(TheScopes, EnvTop(n), n, w)
<1> DEFINE R == WithEnv(TheScopes, EnvTop(n), n, w)
<1>1. ScopeFacts /\ ScopeSeq(TheScopes, Depth + 1) /\ Depth + 1 \in Nat
  BY ScopeFactsHold, TheScopesAreScopes
<1>2. EnvTop(n) \in 1..Depth + 1 BY <1>1 DEF ScopeFacts
<1>3. /\ ScopeSeq(R, Depth + 1)
      /\ \A k \in 1..Depth + 1 :
            /\ \A m \in Names :
                  /\ R[k].var[m] = TheScopes[k].var[m]
                  /\ R[k].env[m] = IF k = EnvTop(n) /\ m = n THEN w
                                   ELSE TheScopes[k].env[m]
            /\ R[k].args = TheScopes[k].args /\ R[k].dir = TheScopes[k].dir
  BY <1>1, <1>2, SetEnvIs
<1> HIDE DEF R
<1>4. \A m \in Names : env'[m] = IF m = n THEN w ELSE env[m] BY NewValue
<1>5. ASSUME NEW k \in 1..Depth + 1, NEW m \in Names
      PROVE  /\ R[k].var[m] = IF k = VarTop(m) THEN shellVars'[m]
                              ELSE TheScopes[k].var[m]
             /\ R[k].env[m] = IF k = EnvTop(m) THEN env'[m] ELSE TheScopes[k].env[m]
  <2>1. R[k].var[m] = IF k = VarTop(m) THEN shellVars'[m] ELSE TheScopes[k].var[m]
    BY <1>3, Kept
  <2>2. R[k].env[m] = IF k = EnvTop(m) THEN env'[m] ELSE TheScopes[k].env[m]
    BY <1>3, <1>4, Kept
  <2> QED BY <2>1, <2>2
<1>6. ASSUME NEW k \in 1..Depth + 1
      PROVE  /\ R[k].args = IF k = ArgTop THEN args' ELSE TheScopes[k].args
             /\ R[k].dir = IF k = DirTop THEN cwd' ELSE TheScopes[k].dir
  BY <1>3, Kept
<1>7. Assigns(R) BY <1>3, <1>5, <1>6 DEF Assigns
<1> QED BY <1>7, Becomes DEF R

LEMMA BothStep ==
    ASSUME VarsInv, VarsInv', calls' = calls, NEW n \in Names, NEW v, NEW w,
           shellVars' = [shellVars EXCEPT ![n] = v],
           env' = [env EXCEPT ![n] = w], UNCHANGED <<args, cwd>>
    PROVE  TheScopes' = WithEnv(WithVar(TheScopes, VarTop(n), n, v), EnvTop(n), n, w)
<1> DEFINE Q == WithVar(TheScopes, VarTop(n), n, v)
           R == WithEnv(Q, EnvTop(n), n, w)
<1>1. ScopeFacts /\ ScopeSeq(TheScopes, Depth + 1) /\ Depth + 1 \in Nat
  BY ScopeFactsHold, TheScopesAreScopes
<1>2. VarTop(n) \in 1..Depth + 1 /\ EnvTop(n) \in 1..Depth + 1
  BY <1>1 DEF ScopeFacts
<1>3. /\ ScopeSeq(Q, Depth + 1)
      /\ \A k \in 1..Depth + 1 :
            /\ \A m \in Names :
                  /\ Q[k].var[m] = IF k = VarTop(n) /\ m = n THEN v
                                   ELSE TheScopes[k].var[m]
                  /\ Q[k].env[m] = TheScopes[k].env[m]
            /\ Q[k].args = TheScopes[k].args /\ Q[k].dir = TheScopes[k].dir
  BY <1>1, <1>2, SetVarIs
<1> HIDE DEF Q
<1>4. /\ ScopeSeq(R, Depth + 1)
      /\ \A k \in 1..Depth + 1 :
            /\ \A m \in Names :
                  /\ R[k].var[m] = Q[k].var[m]
                  /\ R[k].env[m] = IF k = EnvTop(n) /\ m = n THEN w ELSE Q[k].env[m]
            /\ R[k].args = Q[k].args /\ R[k].dir = Q[k].dir
  BY <1>1, <1>2, <1>3, SetEnvIs
<1> HIDE DEF R
<1>5. \A m \in Names : /\ shellVars'[m] = IF m = n THEN v ELSE shellVars[m]
                       /\ env'[m] = IF m = n THEN w ELSE env[m]
  BY NewValue
<1>6. ASSUME NEW k \in 1..Depth + 1, NEW m \in Names
      PROVE  /\ R[k].var[m] = IF k = VarTop(m) THEN shellVars'[m]
                              ELSE TheScopes[k].var[m]
             /\ R[k].env[m] = IF k = EnvTop(m) THEN env'[m] ELSE TheScopes[k].env[m]
  <2>1. R[k].var[m] = IF k = VarTop(m) THEN shellVars'[m] ELSE TheScopes[k].var[m]
    BY <1>3, <1>4, <1>5, Kept
  <2>2. R[k].env[m] = IF k = EnvTop(m) THEN env'[m] ELSE TheScopes[k].env[m]
    BY <1>3, <1>4, <1>5, Kept
  <2> QED BY <2>1, <2>2
<1>7. ASSUME NEW k \in 1..Depth + 1
      PROVE  /\ R[k].args = IF k = ArgTop THEN args' ELSE TheScopes[k].args
             /\ R[k].dir = IF k = DirTop THEN cwd' ELSE TheScopes[k].dir
  BY <1>3, <1>4, Kept
<1>8. Assigns(R) BY <1>4, <1>6, <1>7 DEF Assigns
<1> QED BY <1>8, Becomes DEF R, Q

LEMMA ArgsStep ==
    ASSUME VarsInv, VarsInv', calls' = calls, NEW a,
           args' = a, UNCHANGED <<shellVars, env, cwd>>
    PROVE  TheScopes' = WithArgs(TheScopes, ArgTop, a)
<1> DEFINE R == WithArgs(TheScopes, ArgTop, a)
<1>1. ScopeFacts /\ ScopeSeq(TheScopes, Depth + 1) /\ Depth + 1 \in Nat
  BY ScopeFactsHold, TheScopesAreScopes
<1>2. ArgTop \in 1..Depth + 1 BY <1>1 DEF ScopeFacts
<1>3. /\ ScopeSeq(R, Depth + 1)
      /\ \A k \in 1..Depth + 1 :
            /\ R[k].var = TheScopes[k].var /\ R[k].env = TheScopes[k].env
            /\ R[k].args = IF k = ArgTop THEN a ELSE TheScopes[k].args
            /\ R[k].dir = TheScopes[k].dir
  BY <1>1, <1>2, SetArgsIs
<1> HIDE DEF R
<1>4. ASSUME NEW k \in 1..Depth + 1, NEW m \in Names
      PROVE  /\ R[k].var[m] = IF k = VarTop(m) THEN shellVars'[m]
                              ELSE TheScopes[k].var[m]
             /\ R[k].env[m] = IF k = EnvTop(m) THEN env'[m] ELSE TheScopes[k].env[m]
  BY <1>3, Kept
<1>5. ASSUME NEW k \in 1..Depth + 1
      PROVE  /\ R[k].args = IF k = ArgTop THEN args' ELSE TheScopes[k].args
             /\ R[k].dir = IF k = DirTop THEN cwd' ELSE TheScopes[k].dir
  BY <1>3, Kept
<1>6. Assigns(R) BY <1>3, <1>4, <1>5 DEF Assigns
<1> QED BY <1>6, Becomes DEF R

LEMMA DirStep ==
    ASSUME VarsInv, VarsInv', calls' = calls, NEW d,
           cwd' = d, UNCHANGED <<shellVars, env, args>>
    PROVE  TheScopes' = WithDir(TheScopes, DirTop, d)
<1> DEFINE R == WithDir(TheScopes, DirTop, d)
<1>1. ScopeFacts /\ ScopeSeq(TheScopes, Depth + 1) /\ Depth + 1 \in Nat
  BY ScopeFactsHold, TheScopesAreScopes
<1>2. DirTop \in 1..Depth + 1 BY <1>1 DEF ScopeFacts
<1>3. /\ ScopeSeq(R, Depth + 1)
      /\ \A k \in 1..Depth + 1 :
            /\ R[k].var = TheScopes[k].var /\ R[k].env = TheScopes[k].env
            /\ R[k].args = TheScopes[k].args
            /\ R[k].dir = IF k = DirTop THEN d ELSE TheScopes[k].dir
  BY <1>1, <1>2, SetDirIs
<1> HIDE DEF R
<1>4. ASSUME NEW k \in 1..Depth + 1, NEW m \in Names
      PROVE  /\ R[k].var[m] = IF k = VarTop(m) THEN shellVars'[m]
                              ELSE TheScopes[k].var[m]
             /\ R[k].env[m] = IF k = EnvTop(m) THEN env'[m] ELSE TheScopes[k].env[m]
  BY <1>3, Kept
<1>5. ASSUME NEW k \in 1..Depth + 1
      PROVE  /\ R[k].args = IF k = ArgTop THEN args' ELSE TheScopes[k].args
             /\ R[k].dir = IF k = DirTop THEN cwd' ELSE TheScopes[k].dir
  BY <1>3, Kept
<1>6. Assigns(R) BY <1>3, <1>4, <1>5 DEF Assigns
<1> QED BY <1>6, Becomes DEF R

\* cd changes the directory and the environment's PWD.
LEMMA CdStep ==
    ASSUME VarsInv, VarsInv', calls' = calls, NEW n \in Names, NEW d,
           cwd' = d, env' = [env EXCEPT ![n] = d], UNCHANGED <<shellVars, args>>
    PROVE  TheScopes' = WithEnv(WithDir(TheScopes, DirTop, d), EnvTop(n), n, d)
<1> DEFINE Q == WithDir(TheScopes, DirTop, d)
           R == WithEnv(Q, EnvTop(n), n, d)
<1>1. ScopeFacts /\ ScopeSeq(TheScopes, Depth + 1) /\ Depth + 1 \in Nat
  BY ScopeFactsHold, TheScopesAreScopes
<1>2. DirTop \in 1..Depth + 1 /\ EnvTop(n) \in 1..Depth + 1
  BY <1>1 DEF ScopeFacts
<1>3. /\ ScopeSeq(Q, Depth + 1)
      /\ \A k \in 1..Depth + 1 :
            /\ Q[k].var = TheScopes[k].var /\ Q[k].env = TheScopes[k].env
            /\ Q[k].args = TheScopes[k].args
            /\ Q[k].dir = IF k = DirTop THEN d ELSE TheScopes[k].dir
  BY <1>1, <1>2, SetDirIs
<1> HIDE DEF Q
<1>4. /\ ScopeSeq(R, Depth + 1)
      /\ \A k \in 1..Depth + 1 :
            /\ \A m \in Names :
                  /\ R[k].var[m] = Q[k].var[m]
                  /\ R[k].env[m] = IF k = EnvTop(n) /\ m = n THEN d ELSE Q[k].env[m]
            /\ R[k].args = Q[k].args /\ R[k].dir = Q[k].dir
  BY <1>1, <1>2, <1>3, SetEnvIs
<1> HIDE DEF R
<1>5. \A m \in Names : env'[m] = IF m = n THEN d ELSE env[m] BY NewValue
<1>6. ASSUME NEW k \in 1..Depth + 1, NEW m \in Names
      PROVE  /\ R[k].var[m] = IF k = VarTop(m) THEN shellVars'[m]
                              ELSE TheScopes[k].var[m]
             /\ R[k].env[m] = IF k = EnvTop(m) THEN env'[m] ELSE TheScopes[k].env[m]
  <2>1. R[k].var[m] = IF k = VarTop(m) THEN shellVars'[m] ELSE TheScopes[k].var[m]
    BY <1>3, <1>4, Kept
  <2>2. R[k].env[m] = IF k = EnvTop(m) THEN env'[m] ELSE TheScopes[k].env[m]
    BY <1>3, <1>4, <1>5, Kept
  <2> QED BY <2>1, <2>2
<1>7. ASSUME NEW k \in 1..Depth + 1
      PROVE  /\ R[k].args = IF k = ArgTop THEN args' ELSE TheScopes[k].args
             /\ R[k].dir = IF k = DirTop THEN cwd' ELSE TheScopes[k].dir
  BY <1>3, <1>4, Kept
<1>8. Assigns(R) BY <1>4, <1>6, <1>7 DEF Assigns
<1> QED BY <1>8, Becomes DEF R, Q

(***************************************************************************)
(* Opening and closing a scope.                                            *)
(***************************************************************************)
Pushes(c) == calls' = Append(calls, c)

\* One more call: the scopes there were stay, and the new one binds what the
\* call has put aside.
LEMMA Pushed ==
    ASSUME VarsInv, VarsInv', NEW c, Pushes(c),
           \A n \in Names : /\ PutsAside(c.var[n], shellVars[n], shellVars'[n])
                            /\ PutsAside(EnvAside(c, n), env[n], env'[n]),
           PutsAside(c.args, args, args'), PutsAside(c.dir, cwd, cwd')
    PROVE  /\ Depth \in Nat /\ Depth' = Depth + 1
           /\ \A k \in 1..Depth' : TheScopes'[k] = TheScopes[k]
           /\ TheScopes' = [k \in 1..Depth' + 1 |-> TheScopes'[k]]
           /\ TheScopes'[Depth' + 1] =
                [var |-> [n \in Names |-> IF c.var[n] = Through THEN Through
                                          ELSE shellVars'[n]],
                 env |-> [n \in Names |-> IF EnvAside(c, n) = Through THEN Through
                                          ELSE env'[n]],
                 args |-> IF c.args = Through THEN Through ELSE args',
                 dir |-> IF c.dir = Through THEN Through ELSE cwd']
<1>1. calls \in Seq(CallType) /\ calls' \in Seq(CallType)
  BY DEF VarsInv, TypeOK
<1>2. /\ Depth \in Nat /\ Depth' = Depth + 1
      /\ calls'[Depth'] = c /\ \A j \in 1..Depth : calls'[j] = calls[j]
  BY <1>1 DEF Depth, Pushes
<1>3. /\ \A n : VarPast(n)'[Depth'] = c.var[n] /\ EnvPast(n)'[Depth'] = EnvAside(c, n)
      /\ ArgPast'[Depth'] = c.args /\ DirPast'[Depth'] = c.dir
      /\ \A j \in 1..Depth : /\ \A n : /\ VarPast(n)'[j] = VarPast(n)[j]
                                       /\ EnvPast(n)'[j] = EnvPast(n)[j]
                             /\ ArgPast'[j] = ArgPast[j] /\ DirPast'[j] = DirPast[j]
  <2>1. ASSUME NEW n
        PROVE  /\ VarPast(n)'[Depth'] = c.var[n]
               /\ \A j \in 1..Depth : VarPast(n)'[j] = VarPast(n)[j]
    <3>1. VarPast(n)' = [j \in 1..Depth' |-> calls'[j].var[n]]
      BY DEF VarPast
    <3> QED BY <1>2, <3>1 DEF VarPast
  <2>2. ASSUME NEW n
        PROVE  /\ EnvPast(n)'[Depth'] = EnvAside(c, n)
               /\ \A j \in 1..Depth : EnvPast(n)'[j] = EnvPast(n)[j]
    <3>1. EnvPast(n)' = [j \in 1..Depth' |-> EnvAside(calls'[j], n)]
      BY DEF EnvPast, EnvAside
    <3> QED BY <1>2, <3>1 DEF EnvPast
  <2>3. /\ ArgPast'[Depth'] = c.args /\ DirPast'[Depth'] = c.dir
        /\ \A j \in 1..Depth : ArgPast'[j] = ArgPast[j] /\ DirPast'[j] = DirPast[j]
    <3>1. /\ ArgPast' = [j \in 1..Depth' |-> calls'[j].args]
          /\ DirPast' = [j \in 1..Depth' |-> calls'[j].dir]
      BY DEF ArgPast, DirPast
    <3> QED BY <1>2, <3>1 DEF ArgPast, DirPast
  <2> QED BY <2>1, <2>2, <2>3
<1>4. ScopesAre /\ ScopesAre' BY ScopesAreThose, ScopesAreNext
<1>5. ScopeFacts /\ ScopeFacts' BY ScopeFactsHold, ScopeFactsNext
<1>6. ASSUME NEW k \in 1..Depth' + 1
      PROVE  /\ TheScopes'[k].var = [n \in Names |-> At(VarPast(n)', Depth', k, shellVars'[n])]
             /\ TheScopes'[k].env = [n \in Names |-> At(EnvPast(n)', Depth', k, env'[n])]
             /\ TheScopes'[k].args = At(ArgPast', Depth', k, args')
             /\ TheScopes'[k].dir = At(DirPast', Depth', k, cwd')
             /\ IsScope(TheScopes'[k])
  <2>1. k \in 1..Depth' + 1 BY <1>2
  <2>2. IsScope(TheScopes'[k]) BY <1>5, <2>1 DEF ScopeFacts, IsScope
  <2>3. TheScopes'[k].var = [n \in Names |-> At(VarPast(n)', Depth', k, shellVars'[n])]
    BY <1>4, <2>1 DEF ScopesAre, At, Above
  <2>4. TheScopes'[k].env = [n \in Names |-> At(EnvPast(n)', Depth', k, env'[n])]
    BY <1>4, <2>1 DEF ScopesAre, At, Above
  <2>5. /\ TheScopes'[k].args = At(ArgPast', Depth', k, args')
        /\ TheScopes'[k].dir = At(DirPast', Depth', k, cwd')
    BY <1>4, <2>1 DEF ScopesAre, At, Above
  <2> QED BY <1>2, <2>2, <2>3, <2>4, <2>5
<1>7. ASSUME NEW k \in 1..Depth'
      PROVE  /\ TheScopes[k].var = [n \in Names |-> At(VarPast(n), Depth, k, shellVars[n])]
             /\ TheScopes[k].env = [n \in Names |-> At(EnvPast(n), Depth, k, env[n])]
             /\ TheScopes[k].args = At(ArgPast, Depth, k, args)
             /\ TheScopes[k].dir = At(DirPast, Depth, k, cwd)
             /\ IsScope(TheScopes[k])
  <2>1. k \in 1..Depth + 1 BY <1>2
  <2>2. IsScope(TheScopes[k]) BY <1>5, <2>1 DEF ScopeFacts
  <2> QED BY <1>4, <2>1, <2>2 DEF ScopesAre
<1>8. ASSUME NEW n \in Names
      PROVE  /\ \A k \in 1..Depth' :
                   /\ At(VarPast(n)', Depth', k, shellVars'[n])
                      = At(VarPast(n), Depth, k, shellVars[n])
                   /\ At(EnvPast(n)', Depth', k, env'[n])
                      = At(EnvPast(n), Depth, k, env[n])
             /\ At(VarPast(n)', Depth', Depth' + 1, shellVars'[n])
                = IF c.var[n] = Through THEN Through ELSE shellVars'[n]
             /\ At(EnvPast(n)', Depth', Depth' + 1, env'[n])
                = IF EnvAside(c, n) = Through THEN Through ELSE env'[n]
  <2>1. shellVars[n] # Through /\ env[n] # Through BY GlobalsBound
  <2> DEFINE av == VarPast(n)
             bv == VarPast(n)'
             ae == EnvPast(n)
             be == EnvPast(n)'
  <2>2. /\ bv[Depth'] = c.var[n] /\ be[Depth'] = EnvAside(c, n)
        /\ Extends(bv, av, Depth) /\ Extends(be, ae, Depth)
    BY <1>3 DEF Extends
  <2>3. /\ PutsAside(bv[Depth'], shellVars[n], shellVars'[n])
        /\ PutsAside(be[Depth'], env[n], env'[n])
    BY <2>2
  <2> HIDE DEF av, bv, ae, be
  <2>4. /\ \A k \in 1..Depth' :
              At(bv, Depth', k, shellVars'[n]) = At(av, Depth, k, shellVars[n])
        /\ At(bv, Depth', Depth' + 1, shellVars'[n])
           = IF bv[Depth'] = Through THEN Through ELSE shellVars'[n]
    <3>1. shellVars[n] # Through /\ Extends(bv, av, Depth) /\ PutsAside(bv[Depth'], shellVars[n], shellVars'[n])
      BY <2>1, <2>2, <2>3
    <3>2. OpensOver(bv, Depth', shellVars'[n], av, Depth, shellVars[n])
      BY <1>2, <3>1, Opened
    <3> QED BY <3>2 DEF OpensOver
  <2>5. /\ \A k \in 1..Depth' :
              At(be, Depth', k, env'[n]) = At(ae, Depth, k, env[n])
        /\ At(be, Depth', Depth' + 1, env'[n])
           = IF be[Depth'] = Through THEN Through ELSE env'[n]
    <3>1. env[n] # Through /\ Extends(be, ae, Depth) /\ PutsAside(be[Depth'], env[n], env'[n])
      BY <2>1, <2>2, <2>3
    <3>2. OpensOver(be, Depth', env'[n], ae, Depth, env[n])
      BY <1>2, <3>1, Opened
    <3> QED BY <3>2 DEF OpensOver
  <2> QED BY <2>2, <2>4, <2>5 DEF av, bv, ae, be
<1>9. /\ \A k \in 1..Depth' : /\ At(ArgPast', Depth', k, args') = At(ArgPast, Depth, k, args)
                                 /\ At(DirPast', Depth', k, cwd') = At(DirPast, Depth, k, cwd)
      /\ At(ArgPast', Depth', Depth' + 1, args') = IF c.args = Through THEN Through ELSE args'
      /\ At(DirPast', Depth', Depth' + 1, cwd') = IF c.dir = Through THEN Through ELSE cwd'
  <2>1. args # Through /\ cwd # Through BY GlobalsBound
  <2> DEFINE aa == ArgPast
             ba == ArgPast'
             ad == DirPast
             bd == DirPast'
  <2>2. /\ ba[Depth'] = c.args /\ bd[Depth'] = c.dir
        /\ Extends(ba, aa, Depth) /\ Extends(bd, ad, Depth)
    BY <1>3 DEF Extends
  <2>3. /\ PutsAside(ba[Depth'], args, args')
        /\ PutsAside(bd[Depth'], cwd, cwd')
    BY <2>2
  <2> HIDE DEF aa, ba, ad, bd
  <2>4. /\ \A k \in 1..Depth' : At(ba, Depth', k, args') = At(aa, Depth, k, args)
        /\ At(ba, Depth', Depth' + 1, args')
           = IF ba[Depth'] = Through THEN Through ELSE args'
    <3>1. args # Through /\ Extends(ba, aa, Depth) /\ PutsAside(ba[Depth'], args, args')
      BY <2>1, <2>2, <2>3
    <3>2. OpensOver(ba, Depth', args', aa, Depth, args)
      BY <1>2, <3>1, Opened
    <3> QED BY <3>2 DEF OpensOver
  <2>5. /\ \A k \in 1..Depth' : At(bd, Depth', k, cwd') = At(ad, Depth, k, cwd)
        /\ At(bd, Depth', Depth' + 1, cwd')
           = IF bd[Depth'] = Through THEN Through ELSE cwd'
    <3>1. cwd # Through /\ Extends(bd, ad, Depth) /\ PutsAside(bd[Depth'], cwd, cwd')
      BY <2>1, <2>2, <2>3
    <3>2. OpensOver(bd, Depth', cwd', ad, Depth, cwd)
      BY <1>2, <3>1, Opened
    <3> QED BY <3>2 DEF OpensOver
  <2> QED BY <2>2, <2>4, <2>5 DEF aa, ba, ad, bd
<1>10. ASSUME NEW k \in 1..Depth' PROVE TheScopes'[k] = TheScopes[k]
  <2>1. k \in 1..Depth' + 1 BY <1>2
  <2>2. \A n \in Names : /\ TheScopes'[k].var[n] = TheScopes[k].var[n]
                         /\ TheScopes'[k].env[n] = TheScopes[k].env[n]
    <3> TAKE n \in Names
    <3>1. /\ TheScopes'[k].var[n] = At(VarPast(n)', Depth', k, shellVars'[n])
          /\ TheScopes'[k].env[n] = At(EnvPast(n)', Depth', k, env'[n])
      BY <1>6, <2>1
    <3>2. /\ TheScopes[k].var[n] = At(VarPast(n), Depth, k, shellVars[n])
          /\ TheScopes[k].env[n] = At(EnvPast(n), Depth, k, env[n])
      BY <1>7
    <3> QED BY <1>8, <3>1, <3>2
  <2>4. /\ TheScopes'[k].args = At(ArgPast', Depth', k, args')
        /\ TheScopes'[k].dir = At(DirPast', Depth', k, cwd')
        /\ IsScope(TheScopes'[k])
    BY <1>6, <2>1
  <2>5. /\ TheScopes[k].args = At(ArgPast, Depth, k, args)
        /\ TheScopes[k].dir = At(DirPast, Depth, k, cwd)
        /\ IsScope(TheScopes[k])
    BY <1>7
  <2>3. /\ TheScopes'[k].args = TheScopes[k].args /\ TheScopes'[k].dir = TheScopes[k].dir
        /\ IsScope(TheScopes[k]) /\ IsScope(TheScopes'[k])
    BY <1>9, <2>4, <2>5
  <2> QED BY <2>2, <2>3, ScopeEqual
<1>11. TheScopes'[Depth' + 1] =
          [var |-> [n \in Names |-> IF c.var[n] = Through THEN Through
                                    ELSE shellVars'[n]],
           env |-> [n \in Names |-> IF EnvAside(c, n) = Through THEN Through
                                    ELSE env'[n]],
           args |-> IF c.args = Through THEN Through ELSE args',
           dir |-> IF c.dir = Through THEN Through ELSE cwd']
  <2>1. Depth' + 1 \in 1..Depth' + 1 BY <1>2
  <2>2. TheScopes'[Depth' + 1].var = [n \in Names |-> IF c.var[n] = Through THEN Through
                                                     ELSE shellVars'[n]]
    BY <1>6, <1>8, <2>1
  <2>3. TheScopes'[Depth' + 1].env = [n \in Names |-> IF EnvAside(c, n) = Through THEN Through
                                                     ELSE env'[n]]
    BY <1>6, <1>8, <2>1
  <2>4. /\ TheScopes'[Depth' + 1].args = IF c.args = Through THEN Through ELSE args'
        /\ TheScopes'[Depth' + 1].dir = IF c.dir = Through THEN Through ELSE cwd'
    BY <1>6, <1>9, <2>1
  <2>5. TheScopes'[Depth' + 1] = [var |-> TheScopes'[Depth' + 1].var,
                                 env |-> TheScopes'[Depth' + 1].env,
                                 args |-> TheScopes'[Depth' + 1].args,
                                 dir |-> TheScopes'[Depth' + 1].dir]
    BY <1>6, <2>1 DEF IsScope
  <2> QED BY <2>2, <2>3, <2>4, <2>5
<1>12. TheScopes' = [k \in 1..Depth' + 1 |-> TheScopes'[k]]
  BY <1>2, <1>5 DEF ScopeFacts
<1> QED BY <1>2, <1>10, <1>11, <1>12

Pops == calls # <<>> /\ calls' = Front(calls)

Leaves(c) == c = Last(calls)

\* One call less: what it had put aside, which is back in the globals, is what
\* the scopes below have bound all along.  d is the directory it had put aside.
LEMMA Popped ==
    ASSUME VarsInv, VarsInv', Pops, NEW c, Leaves(c), NEW d, d # Through,
           \A n \in Names : /\ PutsAside(c.var[n], shellVars'[n], shellVars[n])
                            /\ PutsAside(EnvAside(c, n), env'[n], env[n]),
           PutsAside(c.args, args', args), PutsAside(c.dir, d, cwd)
    PROVE  /\ Depth' \in Nat /\ Depth' = Depth - 1 /\ Depth \in Nat
           /\ \A k \in 1..Depth :
                 /\ \A n \in Names : /\ TheScopes'[k].var[n] = TheScopes[k].var[n]
                                     /\ TheScopes'[k].env[n] = TheScopes[k].env[n]
                 /\ TheScopes'[k].args = TheScopes[k].args
                 /\ TheScopes'[k].dir = IF k = DirTop' THEN cwd' ELSE TheScopes[k].dir
                 /\ IsScope(TheScopes'[k]) /\ IsScope(TheScopes[k])
           /\ TheScopes = [k \in 1..Depth + 1 |-> TheScopes[k]]
           /\ TheScopes' = [k \in 1..Depth |-> TheScopes'[k]]
           /\ TheScopes[Depth + 1].dir = IF c.dir = Through THEN Through ELSE cwd
           /\ DirTop' \in 1..Depth /\ TheScopes[DirTop'].dir = d
           /\ DirTop' = Max({k \in 1..Depth : TheScopes[k].dir # Through})
<1>1. calls \in Seq(CallType) /\ calls' \in Seq(CallType)
  BY DEF VarsInv, TypeOK
<1>2. /\ Depth' \in Nat /\ Depth \in Nat /\ Depth' = Depth - 1
      /\ calls[Depth] = c /\ \A j \in 1..Depth' : calls[j] = calls'[j]
  BY <1>1, LastFrontFacts DEF Depth, Pops, Leaves
<1>3. /\ \A n : VarPast(n)[Depth] = c.var[n] /\ EnvPast(n)[Depth] = EnvAside(c, n)
      /\ ArgPast[Depth] = c.args /\ DirPast[Depth] = c.dir
      /\ \A n : /\ Extends(VarPast(n), VarPast(n)', Depth')
                /\ Extends(EnvPast(n), EnvPast(n)', Depth')
      /\ Extends(ArgPast, ArgPast', Depth') /\ Extends(DirPast, DirPast', Depth')
  <2>1. ASSUME NEW n
        PROVE  /\ VarPast(n)[Depth] = c.var[n]
               /\ Extends(VarPast(n), VarPast(n)', Depth')
    <3>1. VarPast(n)' = [j \in 1..Depth' |-> calls'[j].var[n]]
      BY DEF VarPast
    <3>2. VarPast(n) = [j \in 1..Depth |-> calls[j].var[n]]
      BY DEF VarPast
    <3> QED BY <1>2, <3>1, <3>2 DEF Extends
  <2>2. ASSUME NEW n
        PROVE  /\ EnvPast(n)[Depth] = EnvAside(c, n)
               /\ Extends(EnvPast(n), EnvPast(n)', Depth')
    <3>1. EnvPast(n)' = [j \in 1..Depth' |-> EnvAside(calls'[j], n)]
      BY DEF EnvPast, EnvAside
    <3>2. EnvPast(n) = [j \in 1..Depth |-> EnvAside(calls[j], n)]
      BY DEF EnvPast
    <3> QED BY <1>2, <3>1, <3>2 DEF Extends
  <2>3. ArgPast[Depth] = c.args /\ Extends(ArgPast, ArgPast', Depth')
    <3>1. ArgPast' = [j \in 1..Depth' |-> calls'[j].args] BY DEF ArgPast
    <3>2. ArgPast = [j \in 1..Depth |-> calls[j].args] BY DEF ArgPast
    <3> QED BY <1>2, <3>1, <3>2 DEF Extends
  <2>4. DirPast[Depth] = c.dir /\ Extends(DirPast, DirPast', Depth')
    <3>1. DirPast' = [j \in 1..Depth' |-> calls'[j].dir] BY DEF DirPast
    <3>2. DirPast = [j \in 1..Depth |-> calls[j].dir] BY DEF DirPast
    <3> QED BY <1>2, <3>1, <3>2 DEF Extends
  <2> QED BY <2>1, <2>2, <2>3, <2>4
<1>4. ScopesAre /\ ScopesAre' BY ScopesAreThose, ScopesAreNext
<1>5. ScopeFacts /\ ScopeFacts' BY ScopeFactsHold, ScopeFactsNext
<1>6. ASSUME NEW k \in 1..Depth
      PROVE  /\ TheScopes'[k].var = [n \in Names |-> At(VarPast(n)', Depth', k, shellVars'[n])]
             /\ TheScopes'[k].env = [n \in Names |-> At(EnvPast(n)', Depth', k, env'[n])]
             /\ TheScopes'[k].args = At(ArgPast', Depth', k, args')
             /\ TheScopes'[k].dir = At(DirPast', Depth', k, cwd')
             /\ IsScope(TheScopes'[k])
  <2>1. k \in 1..Depth' + 1 BY <1>2
  <2>2. IsScope(TheScopes'[k]) BY <1>5, <2>1 DEF ScopeFacts, IsScope
  <2>3. TheScopes'[k].var = [n \in Names |-> At(VarPast(n)', Depth', k, shellVars'[n])]
    BY <1>4, <2>1 DEF ScopesAre, At, Above
  <2>4. TheScopes'[k].env = [n \in Names |-> At(EnvPast(n)', Depth', k, env'[n])]
    BY <1>4, <2>1 DEF ScopesAre, At, Above
  <2>5. /\ TheScopes'[k].args = At(ArgPast', Depth', k, args')
        /\ TheScopes'[k].dir = At(DirPast', Depth', k, cwd')
    BY <1>4, <2>1 DEF ScopesAre, At, Above
  <2> QED BY <2>2, <2>3, <2>4, <2>5
<1>7. ASSUME NEW k \in 1..Depth + 1
      PROVE  /\ TheScopes[k].var = [n \in Names |-> At(VarPast(n), Depth, k, shellVars[n])]
             /\ TheScopes[k].env = [n \in Names |-> At(EnvPast(n), Depth, k, env[n])]
             /\ TheScopes[k].args = At(ArgPast, Depth, k, args)
             /\ TheScopes[k].dir = At(DirPast, Depth, k, cwd)
             /\ IsScope(TheScopes[k])
  <2>1. IsScope(TheScopes[k]) BY <1>5 DEF ScopeFacts
  <2> QED BY <1>4, <2>1 DEF ScopesAre
<1>8. ASSUME NEW n \in Names, NEW k \in 1..Depth
      PROVE  /\ At(VarPast(n), Depth, k, shellVars[n])
                = At(VarPast(n)', Depth', k, shellVars'[n])
             /\ At(EnvPast(n), Depth, k, env[n]) = At(EnvPast(n)', Depth', k, env'[n])
  <2> DEFINE av == VarPast(n)'
             bv == VarPast(n)
             ae == EnvPast(n)'
             be == EnvPast(n)
  <2>1. /\ shellVars'[n] # Through /\ Extends(bv, av, Depth')
        /\ PutsAside(bv[Depth], shellVars'[n], shellVars[n])
    BY <1>3, GlobalsBoundNext
  <2>2. /\ env'[n] # Through /\ Extends(be, ae, Depth')
        /\ PutsAside(be[Depth], env'[n], env[n])
    BY <1>3, GlobalsBoundNext
  <2> HIDE DEF av, bv, ae, be
  <2>3. At(bv, Depth, k, shellVars[n]) = At(av, Depth', k, shellVars'[n])
    <3>1. OpensOver(bv, Depth, shellVars[n], av, Depth', shellVars'[n])
      BY <1>2, <2>1, Opened
    <3> QED BY <3>1 DEF OpensOver
  <2>4. At(be, Depth, k, env[n]) = At(ae, Depth', k, env'[n])
    <3>1. OpensOver(be, Depth, env[n], ae, Depth', env'[n])
      BY <1>2, <2>2, Opened
    <3> QED BY <3>1 DEF OpensOver
  <2> QED BY <2>3, <2>4 DEF av, bv, ae, be
<1>9. ASSUME NEW k \in 1..Depth
      PROVE  At(ArgPast, Depth, k, args) = At(ArgPast', Depth', k, args')
  <2> DEFINE a == ArgPast'
             b == ArgPast
  <2>1. args' # Through /\ Extends(b, a, Depth') /\ PutsAside(b[Depth], args', args)
    BY <1>3, GlobalsBoundNext
  <2> HIDE DEF a, b
  <2>2. At(b, Depth, k, args) = At(a, Depth', k, args')
    <3>1. OpensOver(b, Depth, args, a, Depth', args')
      BY <1>2, <2>1, Opened
    <3> QED BY <3>1 DEF OpensOver
  <2> QED BY <2>2 DEF a, b
<1>10. /\ \A k \in 1..Depth : At(DirPast, Depth, k, cwd) = At(DirPast', Depth', k, d)
       /\ At(DirPast, Depth, Depth + 1, cwd) = IF c.dir = Through THEN Through ELSE cwd
  <2> DEFINE a == DirPast'
             b == DirPast
  <2>1. Extends(b, a, Depth') /\ PutsAside(b[Depth], d, cwd) /\ b[Depth] = c.dir
    BY <1>3
  <2> HIDE DEF a, b
  <2>2. /\ \A k \in 1..Depth : At(b, Depth, k, cwd) = At(a, Depth', k, d)
        /\ At(b, Depth, Depth + 1, cwd) = IF b[Depth] = Through THEN Through ELSE cwd
    <3>1. OpensOver(b, Depth, cwd, a, Depth', d) BY <1>2, <2>1, Opened
    <3> QED BY <3>1 DEF OpensOver
  <2> QED BY <2>1, <2>2 DEF a, b
<1>11. /\ DirTop' = Top(DirPast', Depth')
       /\ Top(DirPast', Depth') \in 1..Depth
       /\ At(DirPast', Depth', Top(DirPast', Depth'), d) = d
       /\ \A k \in 1..Depth : At(DirPast', Depth', k, cwd') =
             IF k = Top(DirPast', Depth') THEN cwd' ELSE At(DirPast', Depth', k, d)
       /\ Binding(DirPast', Depth') = {k \in 1..Depth : At(DirPast', Depth', k, d) # Through}
  <2> DEFINE a == DirPast'
  <2>1. DirTop' = Top(a, Depth') BY DEF DirTop, Top, Binding
  <2> HIDE DEF a
  <2>2. Top(a, Depth') \in 1..Depth /\ At(a, Depth', Top(a, Depth'), d) = d
    BY <1>2, TopFacts, AssignTop
  <2>3. ASSUME NEW k \in 1..Depth
        PROVE  At(a, Depth', k, cwd') = IF k = Top(a, Depth') THEN cwd'
                                        ELSE At(a, Depth', k, d)
    <3>1. k \in 1..Depth' + 1 BY <1>2
    <3> QED BY <1>2, <3>1, AssignTop
  <2>4. Binding(a, Depth') = {k \in 1..Depth : At(a, Depth', k, d) # Through}
    <3>1. Binding(a, Depth') = {k \in 1..Depth' + 1 : At(a, Depth', k, d) # Through}
      BY <1>2, BindingIs
    <3> QED BY <1>2, <3>1
  <2> QED BY <2>1, <2>2, <2>3, <2>4 DEF a
<1>12. ASSUME NEW k \in 1..Depth
       PROVE  /\ \A n \in Names : /\ TheScopes'[k].var[n] = TheScopes[k].var[n]
                                  /\ TheScopes'[k].env[n] = TheScopes[k].env[n]
              /\ TheScopes'[k].args = TheScopes[k].args
              /\ TheScopes'[k].dir = IF k = DirTop' THEN cwd' ELSE TheScopes[k].dir
              /\ IsScope(TheScopes'[k]) /\ IsScope(TheScopes[k])
              /\ TheScopes[k].dir = At(DirPast', Depth', k, d)
  <2>1. k \in 1..Depth + 1 BY <1>2
  <2>2. ASSUME NEW n \in Names
        PROVE  /\ TheScopes'[k].var[n] = TheScopes[k].var[n]
               /\ TheScopes'[k].env[n] = TheScopes[k].env[n]
    <3>1. /\ TheScopes'[k].var[n] = At(VarPast(n)', Depth', k, shellVars'[n])
          /\ TheScopes'[k].env[n] = At(EnvPast(n)', Depth', k, env'[n])
      BY <1>6
    <3>2. /\ TheScopes[k].var[n] = At(VarPast(n), Depth, k, shellVars[n])
          /\ TheScopes[k].env[n] = At(EnvPast(n), Depth, k, env[n])
      BY <1>7, <2>1
    <3> QED BY <1>8, <3>1, <3>2
  <2>3. TheScopes'[k].args = At(ArgPast', Depth', k, args')
        /\ TheScopes'[k].dir = At(DirPast', Depth', k, cwd') /\ IsScope(TheScopes'[k])
    BY <1>6
  <2>4. TheScopes[k].args = At(ArgPast, Depth, k, args)
        /\ TheScopes[k].dir = At(DirPast, Depth, k, cwd) /\ IsScope(TheScopes[k])
    BY <1>7, <2>1
  <2>5. TheScopes[k].dir = At(DirPast', Depth', k, d) BY <1>10, <2>4
  <2>6. TheScopes'[k].dir = IF k = DirTop' THEN cwd' ELSE TheScopes[k].dir
    BY <1>11, <2>3, <2>5
  <2>7. TheScopes'[k].args = TheScopes[k].args BY <1>9, <2>3, <2>4
  <2> QED BY <2>2, <2>3, <2>4, <2>5, <2>6, <2>7
<1>13. TheScopes[Depth + 1].dir = IF c.dir = Through THEN Through ELSE cwd
  <2>1. Depth + 1 \in 1..Depth + 1 BY <1>2
  <2> QED BY <1>7, <1>10, <2>1
<1>14. /\ DirTop' \in 1..Depth /\ TheScopes[DirTop'].dir = d
       /\ DirTop' = Max({k \in 1..Depth : TheScopes[k].dir # Through})
  <2>1. TheScopes[DirTop'].dir = d /\ DirTop' \in 1..Depth
    BY <1>11, <1>12
  <2>2. Binding(DirPast', Depth') = {k \in 1..Depth : TheScopes[k].dir # Through}
    BY <1>11, <1>12
  <2> QED BY <1>11, <2>1, <2>2 DEF Top
<1>15. /\ TheScopes = [k \in 1..Depth + 1 |-> TheScopes[k]]
       /\ TheScopes' = [k \in 1..Depth |-> TheScopes'[k]]
  BY <1>2, <1>5 DEF ScopeFacts
<1> QED BY <1>2, <1>12, <1>13, <1>14, <1>15

\* What the environment of an open call has put aside of n.
LEMMA EnvAsideIs ==
    ASSUME NEW c, NEW n, c.env \in Seq([name : Names, value : Maybe])
    PROVE  EnvAside(c, n) = IF Naming(c.env, Len(c.env), n) = {} THEN Through
                            ELSE c.env[Max(Naming(c.env, Len(c.env), n))].value
<1>1. {i \in DOMAIN c.env : c.env[i].name = n} = Naming(c.env, Len(c.env), n)
  BY DEF Naming
<1> QED BY <1>1 DEF EnvAside

LEMMA NoEnvAside ==
    ASSUME NEW c, NEW n, c.env = <<>>
    PROVE  EnvAside(c, n) = Through
BY DEF EnvAside

\* VAR=value puts aside what it changes, once for each name.
LEMMA OverridePutsAside ==
    ASSUME VarsInv, OncePerList, NEW list \in Overrides, NEW c, c.env = Saved(list),
           NEW n \in Names
    PROVE  /\ PutsAside(EnvAside(c, n), env[n], Assigned(list, Len(list), env)[n])
           /\ EnvAside(c, n) \in Maybe \cup {Through}
<1> DEFINE at == Naming(list, Len(list), n)
<1>1. /\ list \in Seq([name : Names, value : Maybe])
      /\ c.env \in Seq([name : Names, value : Maybe]) /\ Len(c.env) = Len(list)
      /\ Len(list) \in Nat
  <2>1. list \in Seq([name : Names, value : Maybe]) BY SavedType
  <2>2. Saved(list) \in Seq([name : Names, value : Maybe]) /\ Len(Saved(list)) = Len(list)
    BY SavedType
  <2> QED BY <2>1, <2>2
<1>2. Naming(c.env, Len(c.env), n) = at
  <2>1. \A i \in 1..Len(list) : c.env[i].name = list[i].name
    BY <1>1 DEF Saved
  <2> QED BY <1>1, <2>1 DEF Naming
<1>3. CASE at = {}
  <2>1. EnvAside(c, n) = Through BY <1>1, <1>2, <1>3, EnvAsideIs
  <2>2. Assigned(list, Len(list), env)[n] = env[n]
    BY <1>3 DEF Assigned, Naming
  <2> QED BY <2>1, <2>2 DEF PutsAside
<1>4. CASE at # {}
  <2> PICK m : m = Max(at) OBVIOUS
  <2>1. m \in at /\ m \in 1..Len(list) /\ list[m].name = n
    <3>2. Len(list) \in 0..Len(list) /\ at # {} BY <1>1, <1>4
    <3>1. m \in at BY <1>1, <3>2, LastAssignment
    <3> QED BY <3>1 DEF Naming
  <2>2. \A i \in 1..m - 1 : list[i].name # n
    <3>1. ASSUME NEW i \in 1..m - 1, list[i].name = n PROVE FALSE
      <4>1. i \in DOMAIN list /\ m \in DOMAIN list /\ i # m
        BY <1>1, <2>1
      <4> QED BY <2>1, <3>1, <4>1 DEF OncePerList
    <3> QED BY <3>1
  <2>3. Assigned(list, m - 1, env)[n] = env[n]
    <3>1. {i \in 1..m - 1 : list[i].name = n} = {} BY <2>2
    <3> QED BY <3>1 DEF Assigned
  <2>4. c.env[m].value = env[n]
    <3>1. m \in DOMAIN list BY <1>1, <2>1
    <3> QED BY <2>1, <2>3, <3>1 DEF Saved
  <2>5. EnvAside(c, n) = env[n] BY <1>1, <1>2, <1>4, <2>4, EnvAsideIs
  <2> QED BY <2>5 DEF PutsAside, VarsInv, TypeOK
<1> QED BY <1>3, <1>4

\* Opening a scope is opening one of the nested scopes.
LEMMA OpenStep ==
    ASSUME VarsInv, VarsInv', OncePerList,
           \/ \E a \in ArgLists : CallFunction(a) \/ CallBash(a)
           \/ \E list \in Overrides : CallWithEnv(list)
           \/ CallSubshell
    PROVE  Scopes!Opens
<1>1. ASSUME NEW c, Pushes(c),
             \A n \in Names : /\ PutsAside(c.var[n], shellVars[n], shellVars'[n])
                              /\ PutsAside(EnvAside(c, n), env[n], env'[n]),
             PutsAside(c.args, args, args'), PutsAside(c.dir, cwd, cwd')
      PROVE  Scopes!Open(
                [var |-> [n \in Names |-> IF c.var[n] = Through THEN Through
                                          ELSE shellVars'[n]],
                 env |-> [n \in Names |-> IF EnvAside(c, n) = Through THEN Through
                                          ELSE env'[n]],
                 args |-> IF c.args = Through THEN Through ELSE args',
                 dir |-> IF c.dir = Through THEN Through ELSE cwd'])
  <2> DEFINE q == [var |-> [n \in Names |-> IF c.var[n] = Through THEN Through
                                            ELSE shellVars'[n]],
                   env |-> [n \in Names |-> IF EnvAside(c, n) = Through THEN Through
                                            ELSE env'[n]],
                   args |-> IF c.args = Through THEN Through ELSE args',
                   dir |-> IF c.dir = Through THEN Through ELSE cwd']
  <2>1. /\ Depth \in Nat /\ Depth' = Depth + 1
        /\ \A k \in 1..Depth' : TheScopes'[k] = TheScopes[k]
        /\ TheScopes' = [k \in 1..Depth' + 1 |-> TheScopes'[k]]
        /\ TheScopes'[Depth' + 1] = q
    BY <1>1, Pushed
  <2> HIDE DEF q
  <2>2. TheScopes = [k \in 1..Depth + 1 |-> TheScopes[k]]
    BY DEF TheScopes
  <2>3. TheScopes' = Append(TheScopes, q)
    <3> PICK M : M = Depth' OBVIOUS
    <3>1. /\ M \in Nat /\ TheScopes = [k \in 1..M |-> TheScopes[k]]
          /\ TheScopes' = [k \in 1..M + 1 |-> TheScopes'[k]]
          /\ \A k \in 1..M : TheScopes'[k] = TheScopes[k]
          /\ TheScopes'[M + 1] = q
      BY <2>1, <2>2
    <3>2. TheScopes' = Append(TheScopes, TheScopes'[M + 1])
      BY <3>1, AppendIs
    <3> QED BY <3>1, <3>2
  <2> QED BY <2>3 DEF Scopes!Open, TheScopes, Depth, q
<1>2. \A n \in Names : Nothing[n] = Through BY DEF Nothing
<1>3. UNCHANGED <<dirStack, gone>>
  BY DEF CallFunction, CallBash, CallWithEnv, CallSubshell, places
<1>4. ASSUME NEW a \in ArgLists, CallFunction(a) \/ CallBash(a)
      PROVE  Scopes!Open(Scopes!NewScope(Scopes!Nothing, Scopes!Nothing, a, Through))
  <2>1. PICK kind : Pushes(Call(kind, Nothing, <<>>, args, Through))
    BY <1>4 DEF CallFunction, CallBash, Pushes
  <2> DEFINE c == Call(kind, Nothing, <<>>, args, Through)
  <2>2. /\ c.var = Nothing /\ c.env = <<>> /\ c.args = args /\ c.dir = Through
    BY DEF Call
  <2>3. args' = a /\ UNCHANGED <<shellVars, env, cwd>> /\ args # Through
    BY <1>4, GlobalsBound DEF CallFunction, CallBash, places
  <2> HIDE DEF c
  <2>4. \A n \in Names : c.var[n] = Through /\ EnvAside(c, n) = Through
    BY <1>2, <2>2, NoEnvAside
  <2>5. Scopes!Open(
          [var |-> [n \in Names |-> IF c.var[n] = Through THEN Through ELSE shellVars'[n]],
           env |-> [n \in Names |-> IF EnvAside(c, n) = Through THEN Through ELSE env'[n]],
           args |-> IF c.args = Through THEN Through ELSE args',
           dir |-> IF c.dir = Through THEN Through ELSE cwd'])
    <3>1. Pushes(c) BY <2>1 DEF c
    <3>2. \A n \in Names : /\ PutsAside(c.var[n], shellVars[n], shellVars'[n])
                           /\ PutsAside(EnvAside(c, n), env[n], env'[n])
      BY <2>3, <2>4 DEF PutsAside
    <3>3. PutsAside(c.args, args, args') /\ PutsAside(c.dir, cwd, cwd')
      BY <2>2, <2>3 DEF PutsAside
    <3> QED BY <1>1, <3>1, <3>2, <3>3
  <2>6. /\ [n \in Names |-> IF c.var[n] = Through THEN Through ELSE shellVars'[n]] = Nothing
        /\ [n \in Names |-> IF EnvAside(c, n) = Through THEN Through ELSE env'[n]] = Nothing
        /\ (IF c.args = Through THEN Through ELSE args') = a
        /\ (IF c.dir = Through THEN Through ELSE cwd') = Through
    BY <2>2, <2>3, <2>4 DEF Nothing
  <2> QED BY <2>5, <2>6 DEF Scopes!NewScope, Scopes!Nothing, Nothing
<1>5. ASSUME NEW list \in Overrides, CallWithEnv(list)
      PROVE  \E e \in [Names -> Values \cup {Unset, Through}] :
                Scopes!Open(Scopes!NewScope(Scopes!Nothing, e, Through, Through))
  <2> DEFINE c == Call("override", Nothing, Saved(list), Through, Through)
  <2>1. Pushes(c) BY <1>5 DEF CallWithEnv, Saved, Pushes
  <2>2. /\ c.var = Nothing /\ c.env = Saved(list) /\ c.args = Through /\ c.dir = Through
    BY DEF Call
  <2>3. /\ env' = Assigned(list, Len(list), env) /\ UNCHANGED <<shellVars, args, cwd>>
    BY <1>5 DEF CallWithEnv, places
  <2> HIDE DEF c
  <2>4. \A n \in Names : /\ c.var[n] = Through
                         /\ PutsAside(EnvAside(c, n), env[n], env'[n])
                         /\ EnvAside(c, n) \in Maybe \cup {Through}
    BY <1>2, <2>2, <2>3, OverridePutsAside
  <2> DEFINE e == [n \in Names |-> IF EnvAside(c, n) = Through THEN Through ELSE env'[n]]
  <2>5. Scopes!Open(
          [var |-> [n \in Names |-> IF c.var[n] = Through THEN Through ELSE shellVars'[n]],
           env |-> e,
           args |-> IF c.args = Through THEN Through ELSE args',
           dir |-> IF c.dir = Through THEN Through ELSE cwd'])
    <3>1. \A n \in Names : /\ PutsAside(c.var[n], shellVars[n], shellVars'[n])
                           /\ PutsAside(EnvAside(c, n), env[n], env'[n])
      BY <2>3, <2>4 DEF PutsAside
    <3>2. PutsAside(c.args, args, args') /\ PutsAside(c.dir, cwd, cwd')
      BY <2>2, <2>3 DEF PutsAside
    <3> QED BY <1>1, <2>1, <3>1, <3>2
  <2>6. /\ [n \in Names |-> IF c.var[n] = Through THEN Through ELSE shellVars'[n]] = Nothing
        /\ (IF c.args = Through THEN Through ELSE args') = Through
        /\ (IF c.dir = Through THEN Through ELSE cwd') = Through
    BY <2>2, <2>4 DEF Nothing
  <2>7. e \in [Names -> Values \cup {Unset, Through}]
    BY DEF VarsInv, TypeOK, Maybe
  <2> HIDE DEF e
  <2> QED BY <2>5, <2>6, <2>7 DEF Scopes!NewScope, Scopes!Nothing, Nothing
<1>6. ASSUME CallSubshell
      PROVE  Scopes!Open(Scopes!NewScope(Scopes!Nothing, Scopes!Nothing, Through,
                                         Scopes!TheDir))
  <2> DEFINE c == Call("subshell", Nothing, <<>>, Through, cwd)
  <2>1. Pushes(c) BY <1>6 DEF CallSubshell, Pushes
  <2>2. /\ c.var = Nothing /\ c.env = <<>> /\ c.args = Through /\ c.dir = cwd
    BY DEF Call
  <2>3. UNCHANGED <<shellVars, env, args, cwd>> /\ cwd # Through
    BY <1>6, GlobalsBound DEF CallSubshell, places
  <2> HIDE DEF c
  <2>4. \A n \in Names : c.var[n] = Through /\ EnvAside(c, n) = Through
    BY <1>2, <2>2, NoEnvAside
  <2>5. Scopes!Open(
          [var |-> [n \in Names |-> IF c.var[n] = Through THEN Through ELSE shellVars'[n]],
           env |-> [n \in Names |-> IF EnvAside(c, n) = Through THEN Through ELSE env'[n]],
           args |-> IF c.args = Through THEN Through ELSE args',
           dir |-> IF c.dir = Through THEN Through ELSE cwd'])
    <3>1. \A n \in Names : /\ PutsAside(c.var[n], shellVars[n], shellVars'[n])
                           /\ PutsAside(EnvAside(c, n), env[n], env'[n])
      BY <2>3, <2>4 DEF PutsAside
    <3>2. PutsAside(c.args, args, args') /\ PutsAside(c.dir, cwd, cwd')
      BY <2>2, <2>3 DEF PutsAside
    <3> QED BY <1>1, <2>1, <3>1, <3>2
  <2>6. /\ [n \in Names |-> IF c.var[n] = Through THEN Through ELSE shellVars'[n]] = Nothing
        /\ [n \in Names |-> IF EnvAside(c, n) = Through THEN Through ELSE env'[n]] = Nothing
        /\ (IF c.args = Through THEN Through ELSE args') = Through
        /\ (IF c.dir = Through THEN Through ELSE cwd') = cwd
    BY <2>2, <2>3, <2>4 DEF Nothing
  <2>7. Scopes!TheDir = cwd BY Levels
  <2> QED BY <2>5, <2>6, <2>7 DEF Scopes!NewScope, Scopes!Nothing, Nothing
<1> QED BY <1>3, <1>4, <1>5, <1>6 DEF Scopes!Opens

\* The end of a scope: what it had put aside is back.
LEMMA EndsRestore ==
    ASSUME VarsInv, NEW c, Leaves(c), NEW d,
           d = IF c.dir = Through THEN cwd ELSE c.dir,
           FunctionEnds \/ BashEnds \/ EnvEnds \/ SubshellEnds
    PROVE  /\ Pops /\ d # Through /\ UNCHANGED <<dirStack, gone>>
           /\ \A n \in Names : /\ PutsAside(c.var[n], shellVars'[n], shellVars[n])
                               /\ PutsAside(EnvAside(c, n), env'[n], env[n])
           /\ PutsAside(c.args, args', args) /\ PutsAside(c.dir, d, cwd)
           /\ cwd' = IF c.dir # Through /\ c.dir \in gone THEN cwd ELSE d
<1>1. Pops /\ c = Last(calls) /\ UNCHANGED <<dirStack, gone>>
  BY DEF FunctionEnds, BashEnds, EnvEnds, SubshellEnds, Ends, Pops, places, Leaves
<1>2. Shape(c) /\ c \in CallType
  BY <1>1, PopCall DEF Pops, VarsInv, TypeOK
<1>3. d # Through /\ PutsAside(c.dir, d, cwd)
  BY GlobalsBound DEF PutsAside
<1>4. CASE FunctionEnds
  <2>1. /\ c.kind = "function" /\ c.args # Through /\ c.dir = Through /\ c.env = <<>>
        /\ args' = c.args /\ UNCHANGED <<env, cwd>>
    BY <1>1, <1>2, <1>4 DEF FunctionEnds, Ends, Shape, places
  <2>2. \A n \in Names : PutsAside(c.var[n], shellVars'[n], shellVars[n])
    BY <1>1, <1>4 DEF FunctionEnds, PutsAside
  <2>3. \A n \in Names : PutsAside(EnvAside(c, n), env'[n], env[n])
    BY <2>1, NoEnvAside DEF PutsAside
  <2> QED BY <1>1, <1>3, <2>1, <2>2, <2>3 DEF PutsAside
<1>5. CASE BashEnds
  <2>1. /\ c.kind = "bash" /\ c.args # Through /\ c.dir = Through /\ c.env = <<>>
        /\ c.var = Nothing /\ args' = c.args /\ UNCHANGED <<shellVars, env, cwd>>
    BY <1>1, <1>2, <1>5 DEF BashEnds, Ends, Shape, places
  <2>2. \A n \in Names : /\ PutsAside(c.var[n], shellVars'[n], shellVars[n])
                         /\ PutsAside(EnvAside(c, n), env'[n], env[n])
    BY <2>1, NoEnvAside DEF PutsAside, Nothing
  <2> QED BY <1>1, <1>3, <2>1, <2>2 DEF PutsAside
<1>6. CASE EnvEnds
  <2>1. /\ c.kind = "override" /\ c.args = Through /\ c.dir = Through
        /\ c.var = Nothing /\ UNCHANGED <<shellVars, args, cwd>>
        /\ env' = Assigned(c.env, Len(c.env), env)
    BY <1>1, <1>2, <1>6 DEF EnvEnds, Ends, Shape, places
  <2>2. ASSUME NEW n \in Names PROVE PutsAside(EnvAside(c, n), env'[n], env[n])
    <3> DEFINE at == Naming(c.env, Len(c.env), n)
    <3>1. c.env \in Seq([name : Names, value : Maybe]) /\ Len(c.env) \in 0..Len(c.env)
      BY <1>2 DEF CallType
    <3>2. env'[n] = IF at = {} THEN env[n] ELSE InEnv(c.env[Max(at)].value)
      BY <2>1 DEF Assigned, Naming
    <3>3. EnvAside(c, n) = IF at = {} THEN Through ELSE c.env[Max(at)].value
      BY <3>1, EnvAsideIs
    <3>4. at # {} => InEnv(c.env[Max(at)].value) = c.env[Max(at)].value
      <4>1. SUFFICES ASSUME at # {} PROVE InEnv(c.env[Max(at)].value) = c.env[Max(at)].value
        OBVIOUS
      <4>2. Max(at) \in at BY <3>1, <4>1, LastAssignment
      <4>3. Max(at) \in DOMAIN c.env BY <3>1, <4>2 DEF Naming
      <4>4. c.env[Max(at)].value # Empty BY <1>2, <4>3 DEF Shape
      <4> QED BY <4>4 DEF InEnv
    <3> HIDE DEF at
    <3> QED BY <3>2, <3>3, <3>4 DEF PutsAside
  <2>3. \A n \in Names : PutsAside(c.var[n], shellVars'[n], shellVars[n])
    BY <2>1 DEF PutsAside, Nothing
  <2> QED BY <1>1, <1>3, <2>1, <2>2, <2>3 DEF PutsAside
<1>7. CASE SubshellEnds
  <2>1. /\ c.kind = "subshell" /\ c.args = Through /\ c.dir # Through /\ c.env = <<>>
        /\ c.var = Nothing /\ UNCHANGED <<shellVars, env, args>>
        /\ cwd' = IF c.dir \in gone THEN cwd ELSE c.dir
    BY <1>1, <1>2, <1>7 DEF SubshellEnds, Ends, Shape, places
  <2>2. \A n \in Names : /\ PutsAside(c.var[n], shellVars'[n], shellVars[n])
                         /\ PutsAside(EnvAside(c, n), env'[n], env[n])
    BY <2>1, NoEnvAside DEF PutsAside, Nothing
  <2> QED BY <1>1, <1>3, <2>1, <2>2 DEF PutsAside
<1> QED BY <1>4, <1>5, <1>6, <1>7

\* Closing a scope is closing the innermost of the nested scopes.
LEMMA CloseStep ==
    ASSUME VarsInv, VarsInv', FunctionEnds \/ BashEnds \/ EnvEnds \/ SubshellEnds
    PROVE  Scopes!Closes
<1> PICK c : Leaves(c) BY DEF Leaves
<1> PICK d : d = IF c.dir = Through THEN cwd ELSE c.dir OBVIOUS
<1>1. /\ Pops /\ d # Through /\ UNCHANGED <<dirStack, gone>>
      /\ \A n \in Names : /\ PutsAside(c.var[n], shellVars'[n], shellVars[n])
                          /\ PutsAside(EnvAside(c, n), env'[n], env[n])
      /\ PutsAside(c.args, args', args) /\ PutsAside(c.dir, d, cwd)
      /\ cwd' = IF c.dir # Through /\ c.dir \in gone THEN cwd ELSE d
  BY EndsRestore
<1>2. /\ Depth' \in Nat /\ Depth' = Depth - 1 /\ Depth \in Nat
      /\ \A k \in 1..Depth :
            /\ \A n \in Names : /\ TheScopes'[k].var[n] = TheScopes[k].var[n]
                                /\ TheScopes'[k].env[n] = TheScopes[k].env[n]
            /\ TheScopes'[k].args = TheScopes[k].args
            /\ TheScopes'[k].dir = IF k = DirTop' THEN cwd' ELSE TheScopes[k].dir
            /\ IsScope(TheScopes'[k]) /\ IsScope(TheScopes[k])
      /\ TheScopes = [k \in 1..Depth + 1 |-> TheScopes[k]]
      /\ TheScopes' = [k \in 1..Depth |-> TheScopes'[k]]
      /\ TheScopes[Depth + 1].dir = IF c.dir = Through THEN Through ELSE cwd
      /\ DirTop' \in 1..Depth /\ TheScopes[DirTop'].dir = d
      /\ DirTop' = Max({k \in 1..Depth : TheScopes[k].dir # Through})
  BY <1>1, Popped
<1> PICK b : b = DirTop' OBVIOUS
<1> DEFINE outer == [k \in 1..Depth |-> TheScopes[k]]
<1>3. Len(TheScopes) = Depth + 1 /\ SubSeq(TheScopes, 1, Len(TheScopes) - 1) = outer
  <2>2. Depth \in Nat /\ TheScopes = [k \in 1..Depth + 1 |-> TheScopes[k]]
    BY <1>2
  <2> QED BY <2>2, FrontOf
<1>4. ScopeSeq(outer, Depth) BY <1>2 DEF ScopeSeq
<1>5. \A k \in 1..Depth : outer[k] = TheScopes[k] OBVIOUS
<1>10. ASSUME NEW k \in 1..Depth
       PROVE  /\ \A n \in Names : /\ TheScopes'[k].var[n] = outer[k].var[n]
                                  /\ TheScopes'[k].env[n] = outer[k].env[n]
              /\ TheScopes'[k].args = outer[k].args
              /\ TheScopes'[k].dir = IF k = b THEN cwd' ELSE outer[k].dir
  <2>1. outer[k] = TheScopes[k] BY <1>5
  <2> HIDE DEF outer
  <2>2. /\ \A n \in Names : /\ TheScopes'[k].var[n] = TheScopes[k].var[n]
                            /\ TheScopes'[k].env[n] = TheScopes[k].env[n]
        /\ TheScopes'[k].args = TheScopes[k].args
        /\ TheScopes'[k].dir = IF k = b THEN cwd' ELSE TheScopes[k].dir
    BY <1>2
  <2> QED BY <2>1, <2>2
<1>6. DOMAIN outer = 1..Depth /\ b = Max({k \in DOMAIN outer : outer[k].dir # Through})
  BY <1>2
<1> HIDE DEF outer
<1>7. TheScopes' = IF TheScopes[Depth + 1].dir # Through /\ outer[b].dir \in gone
                   THEN [outer EXCEPT ![b].dir = TheScopes[Depth + 1].dir] ELSE outer
  <2>1. b \in 1..Depth /\ outer[b].dir = d BY <1>2, <1>5
  <2>2. (TheScopes[Depth + 1].dir # Through /\ outer[b].dir \in gone)
        <=> (c.dir # Through /\ c.dir \in gone)
    BY <1>2, <2>1, GlobalsBound
  <2>3. CASE c.dir # Through /\ c.dir \in gone
    <3> DEFINE R == WithDir(outer, b, cwd)
    <3>1. /\ ScopeSeq(R, Depth)
          /\ \A k \in 1..Depth : /\ R[k].var = outer[k].var /\ R[k].env = outer[k].env
                                 /\ R[k].args = outer[k].args
                                 /\ R[k].dir = IF k = b THEN cwd ELSE outer[k].dir
      <4>1. Depth \in Nat BY <1>2
      <4> QED BY <1>4, <2>1, <4>1, SetDirIs
    <3> HIDE DEF R
    <3>2. ASSUME NEW k \in 1..Depth PROVE TheScopes'[k] = R[k]
      <4>1. IsScope(R[k]) /\ IsScope(TheScopes'[k])
        BY <1>2, <3>1 DEF ScopeSeq
      <4>2. \A n \in Names : /\ TheScopes'[k].var[n] = R[k].var[n]
                             /\ TheScopes'[k].env[n] = R[k].env[n]
        BY <1>10, <3>1
      <4>3. TheScopes'[k].args = R[k].args /\ TheScopes'[k].dir = R[k].dir
        BY <1>1, <1>10, <2>3, <3>1
      <4> QED BY <4>1, <4>2, <4>3, ScopeEqual
    <3>3. TheScopes' = R BY <1>2, <3>1, <3>2 DEF ScopeSeq
    <3>4. TheScopes[Depth + 1].dir = cwd BY <1>2, <2>3
    <3> QED BY <2>2, <2>3, <3>3, <3>4 DEF R, WithDir
  <2>4. CASE ~(c.dir # Through /\ c.dir \in gone)
    <3>1. ASSUME NEW k \in 1..Depth PROVE TheScopes'[k] = outer[k]
      <4>1. IsScope(outer[k]) /\ IsScope(TheScopes'[k]) BY <1>2, <1>5
      <4>2. \A n \in Names : /\ TheScopes'[k].var[n] = outer[k].var[n]
                             /\ TheScopes'[k].env[n] = outer[k].env[n]
        BY <1>10
      <4>3. TheScopes'[k].args = outer[k].args /\ TheScopes'[k].dir = outer[k].dir
        BY <1>1, <1>10, <2>1, <2>4
      <4> QED BY <4>1, <4>2, <4>3, ScopeEqual
    <3>2. TheScopes' = outer BY <1>2, <1>4, <3>1 DEF ScopeSeq
    <3> QED BY <2>2, <2>4, <3>2
  <2> QED BY <2>3, <2>4
<1>8. Len(TheScopes) > 1 BY ONLY <1>2, <1>3
<1> DEFINE A == SubSeq(TheScopes, 1, Len(TheScopes) - 1)
           B == Max({k \in DOMAIN A : A[k].dir # Through})
<1>9. /\ TheScopes' = IF TheScopes[Len(TheScopes)].dir # Through /\ A[B].dir \in gone
                      THEN [A EXCEPT ![B].dir = TheScopes[Len(TheScopes)].dir] ELSE A
  <2>1. A = outer BY <1>3
  <2>2. B = b BY <1>6, <2>1
  <2> HIDE DEF A, B
  <2> QED BY <1>3, <1>7, <2>1, <2>2
<1> HIDE DEF A, B
<1> QED
  BY <1>1, <1>8, <1>9 DEF A, B, Scopes!Closes, TheScopes, Depth, Max, Scopes!Max

\* `local' binds the name in the scope of the innermost function, which keeps
\* the value it had outside, or assigns it there if it is bound already.
LEMMA LocalStep ==
    ASSUME VarsInv, VarsInv', NEW n \in Names, NEW v \in Values, Local(n, v)
    PROVE  \/ Scopes!SetVar(n, v)
           \/ \E k \in 2..Len(TheScopes) : TheScopes' = [TheScopes EXCEPT ![k].var[n] = v]
<1> PICK m : m = Max(Functions) OBVIOUS
<1>1. /\ m \in DOMAIN calls /\ calls[m].kind = "function"
      /\ \A k \in DOMAIN calls : k > m => calls[k].kind # "function"
  BY InnermostFunction DEF Local
<1>2. /\ shellVars' = [shellVars EXCEPT ![n] = v] /\ UNCHANGED <<env, args, cwd>>
      /\ calls' = IF calls[m].var[n] = Through
                  THEN [calls EXCEPT ![m].var[n] = shellVars[n]] ELSE calls
  BY DEF Local, places
<1>3. CASE calls[m].var[n] # Through BY <1>2, <1>3, SetVarStep
<1>4. CASE calls[m].var[n] = Through
  <2>1. calls \in Seq(CallType) /\ Depth \in Nat /\ DOMAIN calls = 1..Depth
    BY DEF VarsInv, TypeOK, Depth
  <2>2. m \in 1..Depth /\ calls[m] \in CallType
    BY <1>1, <2>1, ElementOfSeq
  <2>3. calls' = [calls EXCEPT ![m] = [calls[m] EXCEPT !.var[n] = shellVars[n]]]
    BY <1>2, <1>4
  <2>4. /\ Depth' = Depth
        /\ \A j \in 1..Depth :
              /\ calls'[j].args = calls[j].args /\ calls'[j].dir = calls[j].dir
              /\ calls'[j].env = calls[j].env
              /\ \A x \in Names : calls'[j].var[x] = IF j = m /\ x = n THEN shellVars[n]
                                                     ELSE calls[j].var[x]
    <3>1. Len(calls') = Len(calls) BY <2>1, <2>2, <2>3
    <3>2. \A j \in 1..Depth : j # m => calls'[j] = calls[j]
      BY <2>1, <2>3
    <3>3. calls'[m] = [calls[m] EXCEPT !.var[n] = shellVars[n]]
      BY <2>1, <2>2, <2>3
    <3>4. /\ calls'[m].args = calls[m].args /\ calls'[m].dir = calls[m].dir
          /\ calls'[m].env = calls[m].env
          /\ calls'[m].var = [calls[m].var EXCEPT ![n] = shellVars[n]]
      BY <2>2, <3>3 DEF CallType
    <3>5. \A x \in Names : calls'[m].var[x] = IF x = n THEN shellVars[n] ELSE calls[m].var[x]
      BY <2>2, <3>4 DEF CallType
    <3> QED BY <3>1, <3>2, <3>4, <3>5 DEF Depth
  <2>5. /\ ArgPast' = ArgPast /\ DirPast' = DirPast
        /\ \A x \in Names : EnvPast(x)' = EnvPast(x)
        /\ \A x \in Names : x # n => VarPast(x)' = VarPast(x)
    <3>1. ArgPast' = ArgPast /\ DirPast' = DirPast
      BY <2>4 DEF ArgPast, DirPast
    <3>2. ASSUME NEW x \in Names PROVE EnvPast(x)' = EnvPast(x)
      <4>1. ASSUME NEW j \in 1..Depth PROVE EnvAside(calls'[j], x) = EnvAside(calls[j], x)
        <5>1. calls'[j].env = calls[j].env BY <2>4
        <5> QED BY <5>1 DEF EnvAside
      <4>2. EnvPast(x)' = [j \in 1..Depth' |-> EnvAside(calls'[j], x)]
        BY DEF EnvPast, EnvAside
      <4> QED BY <2>4, <4>1, <4>2 DEF EnvPast
    <3>3. ASSUME NEW x \in Names, x # n PROVE VarPast(x)' = VarPast(x)
      BY <2>4, <3>3 DEF VarPast
    <3> QED BY <3>1, <3>2, <3>3
  <2>6. ASSUME NEW k \in 1..Depth + 1
        PROVE  At(VarPast(n)', Depth, k, v) = IF k = m + 1 THEN v
                                              ELSE At(VarPast(n), Depth, k, shellVars[n])
    <3> DEFINE a == VarPast(n)
               b == VarPast(n)'
    <3>1. a[m] = Through /\ b[m] = shellVars[n] /\ shellVars[n] # Through
      BY <1>4, <2>2, <2>4, GlobalsBound DEF VarPast
    <3>2. \A j \in 1..Depth : j # m => b[j] = a[j] BY <2>4 DEF VarPast
    <3>3. \A j \in m + 1..Depth : a[j] = Through
      <4> TAKE j \in m + 1..Depth
      <4>1. j \in 1..Depth /\ j > m BY <2>2
      <4>2. calls[j].kind # "function" /\ Shape(calls[j])
        BY <1>1, <2>1, <4>1 DEF VarsInv, Shaped
      <4>3. calls[j].var = Nothing BY <4>2 DEF Shape
      <4> QED BY <4>1, <4>3 DEF VarPast, Nothing
    <3> HIDE DEF a, b
    <3> DEFINE L == Depth
               now == shellVars[n]
    <3>4. L \in Nat /\ m \in 1..L /\ k \in 1..L + 1 BY <2>1, <2>2
    <3>5. /\ now # Through /\ a[m] = Through /\ b[m] = now
          /\ \A j \in 1..L : j # m => b[j] = a[j]
          /\ \A j \in m + 1..L : a[j] = Through
      BY <3>1, <3>2, <3>3
    <3> HIDE DEF L, now
    <3>6. SeenNow(a, b, L, k, m, v, now) BY ONLY <3>4, <3>5, PutAside
    <3> QED BY <3>6 DEF a, b, L, now, SeenNow
  <2>7. ScopesAre /\ ScopesAre' /\ ScopeFacts /\ ScopeFacts'
    BY ScopesAreThose, ScopesAreNext, ScopeFactsHold, ScopeFactsNext
  <2>8. m + 1 \in 1..Depth + 1 /\ Depth + 1 \in Nat /\ ScopeSeq(TheScopes, Depth + 1)
    BY <2>1, <2>2, TheScopesAreScopes
  <2> DEFINE R == WithVar(TheScopes, m + 1, n, v)
  <2>9. /\ ScopeSeq(R, Depth + 1)
        /\ \A k \in 1..Depth + 1 :
              /\ \A x \in Names :
                    /\ R[k].var[x] = IF k = m + 1 /\ x = n THEN v ELSE TheScopes[k].var[x]
                    /\ R[k].env[x] = TheScopes[k].env[x]
              /\ R[k].args = TheScopes[k].args /\ R[k].dir = TheScopes[k].dir
    BY <2>8, SetVarIs
  <2> HIDE DEF R
  <2>10. ASSUME NEW k \in 1..Depth + 1 PROVE TheScopes'[k] = R[k]
    <3>1. IsScope(R[k]) /\ IsScope(TheScopes'[k])
      <4>1. IsScope(R[k]) BY <2>9 DEF ScopeSeq
      <4>2. IsScope(TheScopes'[k]) BY <2>4, <2>7 DEF ScopeFacts, IsScope
      <4> QED BY <4>1, <4>2
    <3>2. ASSUME NEW x \in Names PROVE TheScopes'[k].var[x] = R[k].var[x]
      <4>1. TheScopes'[k].var = [y \in Names |-> At(VarPast(y)', Depth', k, shellVars'[y])]
        BY <2>4, <2>7 DEF ScopesAre, At, Above
      <4>2. TheScopes[k].var = [y \in Names |-> At(VarPast(y), Depth, k, shellVars[y])]
        BY <2>7 DEF ScopesAre
      <4>3. \A y \in Names : shellVars'[y] = IF y = n THEN v ELSE shellVars[y]
        BY <1>2, NewValue
      <4>4. CASE x = n BY <2>4, <2>6, <2>9, <4>1, <4>2, <4>3, <4>4
      <4>5. CASE x # n BY <2>4, <2>5, <2>9, <4>1, <4>2, <4>3, <4>5
      <4> QED BY <4>4, <4>5
    <3>3. ASSUME NEW x \in Names PROVE TheScopes'[k].env[x] = R[k].env[x]
      <4>1. TheScopes'[k].env = [y \in Names |-> At(EnvPast(y)', Depth', k, env'[y])]
        BY <2>4, <2>7 DEF ScopesAre, At, Above
      <4>2. TheScopes[k].env = [y \in Names |-> At(EnvPast(y), Depth, k, env[y])]
        BY <2>7 DEF ScopesAre
      <4> QED BY <1>2, <2>4, <2>5, <2>9, <4>1, <4>2
    <3>4. TheScopes'[k].args = R[k].args /\ TheScopes'[k].dir = R[k].dir
      <4>1. /\ TheScopes'[k].args = At(ArgPast', Depth', k, args')
            /\ TheScopes'[k].dir = At(DirPast', Depth', k, cwd')
        BY <2>4, <2>7 DEF ScopesAre, At, Above
      <4>2. /\ TheScopes[k].args = At(ArgPast, Depth, k, args)
            /\ TheScopes[k].dir = At(DirPast, Depth, k, cwd)
        BY <2>7 DEF ScopesAre
      <4> QED BY <1>2, <2>4, <2>5, <2>9, <4>1, <4>2
    <3> QED BY <3>1, <3>2, <3>3, <3>4, ScopeEqual
  <2>11. TheScopes' = [k \in 1..Depth + 1 |-> TheScopes'[k]]
    BY <2>4, <2>7 DEF ScopeFacts
  <2>12. TheScopes' = R BY <2>9, <2>10, <2>11 DEF ScopeSeq
  <2>13. m + 1 \in 2..Len(TheScopes)
    <3>1. TheScopes = [k \in 1..Depth + 1 |-> TheScopes[k]]
      BY <2>8 DEF ScopeSeq
    <3>2. Len(TheScopes) = Depth + 1 BY <2>1, <3>1, FrontOf
    <3> QED BY <2>1, <2>2, <3>2
  <2> QED BY <2>12, <2>13 DEF R, WithVar
<1> QED BY <1>3, <1>4

\* The scopes are what the globals and the open calls make them.
LEMMA Stutter ==
    ASSUME UNCHANGED <<shellVars, env, args, cwd, calls>>
    PROVE  TheScopes' = TheScopes
BY DEF TheScopes, ScopeAt, BoundAt, EnvAside, Depth

\* Each builtin is a step of the nested scopes.
LEMMA VariableSteps ==
    ASSUME VarsInv, VarsInv', NEW n \in UserNames,
           \/ \E v \in Values \ Dirs : Assign(n, v) \/ Export(n, v) \/ Local(n, v)
           \/ ExportName(n)
           \/ UnsetName(n)
    PROVE  Scopes!Variables
<1>1. n \in Names BY ScopeAssumption
<1>2. UNCHANGED <<dirStack, gone>>
  BY DEF Assign, Export, Local, ExportName, UnsetName, places
<1>3. ASSUME NEW v \in Values, Assign(n, v) PROVE Scopes!SetVar(n, v)
  BY <1>1, <1>3, SetVarStep DEF Assign, places
<1>4. ASSUME UnsetName(n) PROVE Scopes!SetVar(n, Unset)
  BY <1>1, <1>4, SetVarStep DEF UnsetName, places
<1>5. \A v \in Values : Scopes!InEnv(v) = InEnv(v)
  BY Distinct DEF InEnv, Scopes!InEnv
<1>6. ASSUME NEW v \in Values, Export(n, v) PROVE Scopes!SetBoth(n, v)
  <2>1. TheScopes' = WithEnv(WithVar(TheScopes, VarTop(n), n, v), EnvTop(n), n, InEnv(v))
    BY <1>1, <1>6, BothStep DEF Export, places
  <2> QED
    BY <1>1, <1>5, <2>1, Levels
    DEF WithEnv, WithVar, Scopes!SetBoth, TheScopes, Depth
<1>7. ASSUME ExportName(n)
      PROVE  Scopes!TheVar(n) # Unset /\ Scopes!SetEnv(n, Scopes!TheVar(n))
  <2>1. shellVars[n] # Unset /\ shellVars[n] \in Values
    BY <1>1, <1>7 DEF ExportName, VarsInv, TypeOK, Maybe
  <2>2. TheScopes' = WithEnv(TheScopes, EnvTop(n), n, InEnv(shellVars[n]))
    BY <1>1, <1>7, EnvStep DEF ExportName, places
  <2> QED
    BY <1>1, <1>5, <2>1, <2>2, Levels DEF WithEnv, Scopes!SetEnv, TheScopes, Depth
<1>8. ASSUME NEW v \in Values, Local(n, v)
      PROVE  \/ Scopes!SetVar(n, v)
             \/ \E k \in 2..Len(TheScopes) : TheScopes' = [TheScopes EXCEPT ![k].var[n] = v]
  BY <1>1, <1>8, LocalStep
<1>9. CASE \E v \in Values \ Dirs : Assign(n, v)
  BY <1>1, <1>2, <1>3, <1>9 DEF Scopes!Variables
<1>10. CASE \E v \in Values \ Dirs : Export(n, v)
  BY <1>1, <1>2, <1>6, <1>10 DEF Scopes!Variables
<1>11. CASE \E v \in Values \ Dirs : Local(n, v)
  <2> PICK v \in Values : Local(n, v) BY <1>11
  <2>1. CASE Scopes!SetVar(n, v)
    BY <1>1, <1>2, <2>1 DEF Scopes!Variables
  <2>2. CASE \E k \in 2..Len(TheScopes) : TheScopes' = [TheScopes EXCEPT ![k].var[n] = v]
    <3> PICK k \in 2..Len(TheScopes) : TheScopes' = [TheScopes EXCEPT ![k].var[n] = v]
      BY <2>2
    <3>1. \E j \in 2..Len(TheScopes), x \in Names, y \in Values :
             TheScopes' = [TheScopes EXCEPT ![j].var[x] = y]
      BY <1>1
    <3> QED BY <1>2, <3>1 DEF Scopes!Variables, TheScopes, Depth
  <2> QED BY <1>8, <2>1, <2>2
<1>12. CASE ExportName(n)
  BY <1>1, <1>2, <1>7, <1>12 DEF Scopes!Variables
<1>13. CASE UnsetName(n) BY <1>1, <1>2, <1>4, <1>13 DEF Scopes!Variables
<1> QED BY <1>9, <1>10, <1>11, <1>12, <1>13

LEMMA ArgumentSteps ==
    ASSUME VarsInv, VarsInv',
           \/ \E a \in ArgLists : SetArgs(a)
           \/ \E i \in 1..2 : Shift(i)
    PROVE  Scopes!Variables \/ UNCHANGED <<TheScopes, dirStack, gone>>
<1>1. UNCHANGED <<dirStack, gone>> /\ Scopes!TheArgs = args /\ Scopes!ArgLevel = ArgTop
  BY Levels DEF SetArgs, Shift, places
<1>2. ASSUME NEW a, SetArgs(a) \/ (args' = a /\ UNCHANGED <<shellVars, env, calls, places>>)
      PROVE  Scopes!SetArgs(a)
  <2>1. TheScopes' = WithArgs(TheScopes, ArgTop, a)
    BY <1>2, ArgsStep DEF SetArgs, places
  <2> QED BY <1>1, <2>1 DEF WithArgs, Scopes!SetArgs, TheScopes, Depth
<1>3. CASE \E a \in ArgLists : SetArgs(a)
  BY <1>1, <1>2, <1>3 DEF Scopes!Variables
<1>4. ASSUME NEW i \in 1..2, Shift(i)
      PROVE  Scopes!Variables \/ UNCHANGED <<TheScopes, dirStack, gone>>
  <2>1. args \in Seq(Values) /\ Len(args) \in Nat BY DEF VarsInv, TypeOK
  <2>2. CASE i =< Len(args)
    <3>1. Scopes!SetArgs(SubSeq(args, i + 1, Len(args)))
      BY <1>2, <1>4, <2>2 DEF Shift
    <3>2. i \in 1..Len(args) BY <2>1, <2>2
    <3> QED BY <1>1, <3>1, <3>2 DEF Scopes!Variables
  <2>3. CASE i > Len(args) /\ Len(args) > 0
    <3>1. args' = <<>> BY <1>4, <2>1, <2>3 DEF Shift
    <3>2. SubSeq(args, Len(args) + 1, Len(args)) = <<>> BY <2>1
    <3>3. Scopes!SetArgs(SubSeq(args, Len(args) + 1, Len(args)))
      BY <1>2, <1>4, <3>1, <3>2 DEF Shift
    <3>4. Len(args) \in 1..Len(args) BY <2>1, <2>3
    <3> QED BY <1>1, <3>3, <3>4 DEF Scopes!Variables
  <2>4. CASE Len(args) = 0
    <3>1. args = <<>> BY <2>1, <2>4
    <3>2. UNCHANGED <<shellVars, env, args, cwd, calls>>
      BY <1>4, <2>4, <3>1 DEF Shift, places
    <3>3. TheScopes' = TheScopes BY <3>2, Stutter
    <3> QED BY <1>1, <3>3
  <2> QED BY <2>1, <2>2, <2>3, <2>4
<1> QED BY <1>3, <1>4

LEMMA DirectorySteps ==
    ASSUME VarsInv, VarsInv', Popd \/ \E d \in Dirs : Cd(d) \/ Pushd(d) \/ RemoveDir(d)
    PROVE  Scopes!Directories
<1>1. /\ Scopes!TheDir = cwd /\ Scopes!DirLevel = DirTop /\ PWD \in Names
      /\ Scopes!EnvLevel(PWD) = EnvTop(PWD)
  BY Levels, ScopeAssumption
<1>2. ASSUME NEW d, cwd' = d, UNCHANGED <<shellVars, env, args, calls>>
      PROVE  Scopes!SetDir(d)
  <2>1. TheScopes' = WithDir(TheScopes, DirTop, d) BY <1>2, DirStep
  <2> QED BY <1>1, <2>1 DEF WithDir, Scopes!SetDir, TheScopes, Depth
<1>3. ASSUME NEW d \in Dirs, Cd(d) PROVE Scopes!Directories
  <2>1. TheScopes' = WithEnv(WithDir(TheScopes, DirTop, d), EnvTop(PWD), PWD, d)
    BY <1>1, <1>3, CdStep DEF Cd
  <2>2. TheScopes' = [[TheScopes EXCEPT ![Scopes!DirLevel].dir = d]
                         EXCEPT ![Scopes!EnvLevel(PWD)].env[PWD] = d]
    BY <1>1, <2>1 DEF WithEnv, WithDir
  <2>3. d \in Dirs \ gone /\ UNCHANGED <<dirStack, gone>> BY <1>3 DEF Cd
  <2> QED BY <2>2, <2>3 DEF Scopes!Directories, TheScopes, Depth
<1>4. ASSUME NEW d \in Dirs, Pushd(d) PROVE Scopes!Directories
  <2>1. Scopes!SetDir(d) BY <1>2, <1>4 DEF Pushd
  <2>2. d \in Dirs \ gone /\ dirStack' = Append(dirStack, cwd) /\ UNCHANGED gone
    BY <1>4 DEF Pushd
  <2> QED BY <1>1, <2>1, <2>2 DEF Scopes!Directories
<1>5. ASSUME NEW d \in Dirs, RemoveDir(d) PROVE Scopes!Directories
  <2>1. TheScopes' = TheScopes BY <1>5, Stutter DEF RemoveDir
  <2>2. d \in Dirs \ {cwd} /\ gone' = gone \cup {d} /\ dirStack' = dirStack
    BY <1>5 DEF RemoveDir
  <2> QED BY <1>1, <2>1, <2>2 DEF Scopes!Directories, TheScopes, Depth
<1>6. ASSUME Popd PROVE Scopes!Directories
  <2>1. /\ dirStack # <<>> /\ UNCHANGED gone
        /\ dirStack[Len(dirStack)] = Last(dirStack)
        /\ dirStack' = SubSeq(dirStack, 1, Len(dirStack) - 1)
    BY <1>6, LastFrontFacts DEF Popd, Front, Last
  <2>2. CASE Last(dirStack) \in gone
    <3>1. TheScopes' = TheScopes BY <1>6, <2>2, Stutter DEF Popd
    <3> QED BY <2>1, <2>2, <3>1 DEF Scopes!Directories, TheScopes, Depth
  <2>3. CASE Last(dirStack) \notin gone
    <3>1. Scopes!SetDir(Last(dirStack)) BY <1>2, <1>6, <2>3 DEF Popd
    <3> QED BY <2>1, <2>3, <3>1 DEF Scopes!Directories
  <2> QED BY <2>2, <2>3
<1> QED BY <1>3, <1>4, <1>5, <1>6

LEMMA ScopesInit == Init => Scopes!SInit
<1> SUFFICES ASSUME Init PROVE Scopes!SInit OBVIOUS
<1>1. calls = <<>> /\ dirStack = <<>> /\ gone = {} /\ args \in ArgLists
  BY DEF Init
<1>2. PICK d \in Dirs, p \in BOOLEAN :
         cwd = d /\ env = [n \in Names |-> IF p /\ n = PWD THEN d ELSE Unset]
  BY DEF Init
<1>3. shellVars \in [Names -> {Unset}] BY DEF Init
<1> DEFINE e == [n \in Names |-> Unset]
<1>4. env = [e EXCEPT ![PWD] = IF p THEN d ELSE @]
  BY <1>2, ScopeAssumption
<1>5. TheScopes = <<Scopes!NewScope(shellVars, env, args, d)>>
  <2>1. Depth = 0 BY <1>1 DEF Depth
  <2>2. ScopesAre BY VarsInvInit, ScopesAreThose
  <2>3. 1 \in 1..Depth + 1 /\ Depth + 1 = 1 BY <2>1
  <2>4. /\ \A a, now : At(a, Depth, 1, now) = now BY <2>1 DEF At, Above
  <2>5. shellVars = [n \in Names |-> shellVars[n]] /\ env = [n \in Names |-> env[n]]
    BY <1>2, <1>3
  <2>6. TheScopes[1] = [var |-> shellVars, env |-> env, args |-> args, dir |-> cwd]
    <3>1. TheScopes[1].var = [n \in Names |-> At(VarPast(n), Depth, 1, shellVars[n])]
      BY <2>2, <2>3 DEF ScopesAre
    <3>2. TheScopes[1].env = [n \in Names |-> At(EnvPast(n), Depth, 1, env[n])]
      BY <2>2, <2>3 DEF ScopesAre
    <3>3. TheScopes[1].args = args /\ TheScopes[1].dir = cwd
      <4>1. /\ TheScopes[1].args = At(ArgPast, Depth, 1, args)
            /\ TheScopes[1].dir = At(DirPast, Depth, 1, cwd)
        BY <2>2, <2>3 DEF ScopesAre
      <4> QED BY <2>4, <4>1
    <3>4. TheScopes[1].var = shellVars /\ TheScopes[1].env = env
      BY <2>4, <2>5, <3>1, <3>2
    <3>5. TheScopes[1] = [var |-> TheScopes[1].var, env |-> TheScopes[1].env,
                          args |-> TheScopes[1].args, dir |-> TheScopes[1].dir]
      BY <2>2, <2>3 DEF ScopesAre
    <3> QED BY <3>3, <3>4, <3>5
  <2>7. TheScopes = [k \in 1..1 |-> TheScopes[1]] BY <2>3 DEF TheScopes
  <2> QED BY <1>2, <2>6, <2>7 DEF Scopes!NewScope
<1>6. e \in [Names -> {Unset}] OBVIOUS
<1> HIDE DEF e
<1>7. \E v \in [Names -> {Unset}], f \in [Names -> {Unset}], a \in ArgLists, b \in Dirs,
         q \in {TRUE, FALSE} :
         TheScopes = << Scopes!NewScope(v, [f EXCEPT ![PWD] = IF q THEN b ELSE @], a, b) >>
  <2>1. TheScopes = << Scopes!NewScope(shellVars, [e EXCEPT ![PWD] = IF p THEN d ELSE @],
                                       args, d) >>
    BY <1>4, <1>5
  <2> QED BY <1>1, <1>3, <1>6, <2>1
<1> QED BY <1>1, <1>7 DEF Scopes!SInit, TheScopes, Depth

LEMMA ScopesStep ==
    ASSUME OncePerList, VarsInv, VarsInv', [Next]_vars
    PROVE  [Scopes!SNext]_(Scopes!svars)
<1>1. CASE UNCHANGED vars
  <2>1. UNCHANGED <<shellVars, env, args, cwd, calls, dirStack, gone>>
    BY <1>1 DEF vars
  <2> QED BY <2>1, Stutter DEF Scopes!svars, TheScopes, Depth
<1>2. CASE Next
  <2>1. CASE \E n \in UserNames :
                \/ \E v \in Values \ Dirs : Assign(n, v) \/ Export(n, v) \/ Local(n, v)
                \/ ExportName(n)
                \/ UnsetName(n)
    BY <2>1, VariableSteps DEF Scopes!SNext
  <2>2. CASE (\E a \in ArgLists : SetArgs(a)) \/ \E i \in 1..2 : Shift(i)
    BY <2>2, ArgumentSteps DEF Scopes!SNext, Scopes!svars, TheScopes, Depth
  <2>3. CASE \/ \E a \in ArgLists : CallFunction(a) \/ CallBash(a)
             \/ \E list \in Overrides : CallWithEnv(list)
             \/ CallSubshell
    BY <2>3, OpenStep DEF Scopes!SNext
  <2>4. CASE FunctionEnds \/ BashEnds \/ EnvEnds \/ SubshellEnds
    BY <2>4, CloseStep DEF Scopes!SNext
  <2>5. CASE Popd \/ \E d \in Dirs : Cd(d) \/ Pushd(d) \/ RemoveDir(d)
    BY <2>5, DirectorySteps DEF Scopes!SNext
  <2> QED BY <1>2, <2>1, <2>2, <2>3, <2>4, <2>5 DEF Next
<1> QED BY <1>1, <1>2

\* Saving and restoring one set of globals by hand comes to the same as
\* nested scopes, for any names, values and depth, if no list of VAR=value
\* names a variable twice (EnvEnds puts the values back in the order they were
\* put aside, which leaves the wrong one of two).
THEOREM ScopesImplemented ==
    ASSUME OncePerList
    PROVE  Spec => ImplementsScopes
<1>1. VarsInv /\ VarsInv' /\ [Next]_vars => [Scopes!SNext]_(Scopes!svars)
  BY ScopesStep
<1> QED
  BY <1>1, ScopesInit, VarsInvInit, VarsInvStep, PTL DEF Spec, ImplementsScopes, Scopes!SSpec
=============================================================================
