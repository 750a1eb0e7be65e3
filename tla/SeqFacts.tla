------------------------------ MODULE SeqFacts ------------------------------
(***************************************************************************)
(* Facts about sequences in the form the proofs about stacks, pools and    *)
(* queues need them.                                                       *)
(***************************************************************************)
EXTENDS Integers, SequencesExt, Selections, SequenceTheorems, FiniteSetTheorems, WellFoundedInduction, TLAPS

\* Append keeps what is there and puts the element last.
LEMMA AppendFacts ==
    ASSUME NEW S, NEW s \in Seq(S), NEW e \in S
    PROVE  /\ Append(s, e) \in Seq(S)
           /\ Len(Append(s, e)) = Len(s) + 1
           /\ DOMAIN Append(s, e) = 1..Len(s) + 1
           /\ \A i \in 1..Len(s) : Append(s, e)[i] = s[i]
           /\ Append(s, e)[Len(s) + 1] = e
OBVIOUS

\* Front drops the last element and nothing else.
LEMMA LastFrontFacts ==
    ASSUME NEW S, NEW s \in Seq(S), s # <<>>
    PROVE  /\ Len(s) \in Nat \ {0}
           /\ Last(s) = s[Len(s)]
           /\ Last(s) \in S
           /\ Front(s) \in Seq(S)
           /\ Len(Front(s)) = Len(s) - 1
           /\ \A i \in 1..Len(s) - 1 : Front(s)[i] = s[i]
<1>1. Len(s) \in Nat \ {0} BY EmptySeq
<1>2. \A i \in 1..Len(s) - 1 : s[i] \in S BY <1>1, ElementOfSeq
<1>3. /\ SubSeq(s, 1, Len(s) - 1) \in Seq(S)
      /\ Len(SubSeq(s, 1, Len(s) - 1)) = Len(s) - 1
      /\ \A i \in 1..Len(s) - 1 : SubSeq(s, 1, Len(s) - 1)[i] = s[i]
  <2> DEFINE n == Len(s) - 1
  <2>1. n \in Nat /\ n \in Int /\ 1 \in Int /\ \A i \in 1..n : s[i] \in S
    BY <1>1, <1>2
  <2> HIDE DEF n
  <2>2. /\ SubSeq(s, 1, n) \in Seq(S)
        /\ Len(SubSeq(s, 1, n)) = IF 1 <= n THEN n - 1 + 1 ELSE 0
        /\ \A i \in 1..n - 1 + 1 : SubSeq(s, 1, n)[i] = s[1 + i - 1]
    BY <2>1, SubSeqProperties
  <2>3. /\ Len(SubSeq(s, 1, n)) = n
        /\ \A i \in 1..n : SubSeq(s, 1, n)[i] = s[i]
    BY <2>1, <2>2
  <2>4. QED BY <2>2, <2>3 DEF n
<1>4. QED BY <1>1, <1>3, ElementOfSeq DEF Front, Last


\* A new last element in place of the old one.
LEMMA SetLastFacts ==
    ASSUME NEW S, NEW s \in Seq(S), s # <<>>, NEW e \in S
    PROVE  LET t == [s EXCEPT ![Len(s)] = e] IN
           /\ t \in Seq(S)
           /\ t # <<>>
           /\ Len(t) = Len(s)
           /\ Last(t) = e
           /\ t[Len(s)] = e
           /\ \A i \in 1..Len(s) - 1 : t[i] = s[i]
<1>1. Len(s) \in Nat \ {0} BY EmptySeq
<1>2. /\ [s EXCEPT ![Len(s)] = e] \in Seq(S)
      /\ Len([s EXCEPT ![Len(s)] = e]) = Len(s)
  BY <1>1, ExceptSeq
<1>3. PICK n \in DOMAIN s : n = Len(s) BY <1>1
<1>4. /\ [s EXCEPT ![Len(s)] = e][Len(s)] = e
      /\ \A i \in 1..Len(s) - 1 : [s EXCEPT ![Len(s)] = e][i] = s[i]
  <2>1. [s EXCEPT ![n] = e][n] = e BY <1>3
  <2>2. ASSUME NEW i \in 1..Len(s) - 1
        PROVE  [s EXCEPT ![n] = e][i] = s[i]
    <3>1. i \in DOMAIN s /\ i # n BY <1>1, <1>3
    <3>2. QED BY <3>1
  <2>3. QED BY <1>3, <2>1, <2>2
<1>5. DEFINE t == [s EXCEPT ![Len(s)] = e]
<1>6. t \in Seq(S) /\ Len(t) = Len(s) /\ t[Len(s)] = e
      /\ \A i \in 1..Len(s) - 1 : t[i] = s[i]
  BY <1>2, <1>4
<1>7. HIDE DEF t
<1>8. t # <<>> BY <1>1, <1>6, EmptySeq
<1>9. Last(t) = e BY <1>6 DEF Last
<1>10. QED BY <1>6, <1>8, <1>9 DEF t

\* Front of any sequence is a sequence, that of the empty one the empty one.
LEMMA FrontType ==
    ASSUME NEW S, NEW s \in Seq(S)
    PROVE  Front(s) \in Seq(S)
<1>1. CASE s = <<>>
  <2>1. Front(s) = SubSeq(s, 1, -1) BY <1>1 DEF Front
  <2>2. SubSeq(s, 1, -1) \in Seq(S) BY <1>1, SubSeqProperties
  <2>3. QED BY <2>1, <2>2
<1>2. CASE s # <<>> BY <1>2, LastFrontFacts
<1>3. QED BY <1>1, <1>2

\* A set of natural numbers has a least element.
LEMMA LeastNat ==
    ASSUME NEW T, T \subseteq Nat, T # {}
    PROVE  \E x \in T : \A y \in T : x =< y
<1>1. \E x \in T : \A y \in T : ~(<<y, x>> \in OpToRel(<, Nat))
  BY NatLessThanWellFounded, WFMin
<1>2. PICK x \in T : \A y \in T : ~(<<y, x>> \in OpToRel(<, Nat))
  BY <1>1
<1>3. ASSUME NEW y \in T PROVE x =< y
  <2>1. ~(<<y, x>> \in OpToRel(<, Nat)) BY <1>2
  <2>2. ~(y < x) BY <2>1 DEF OpToRel
  <2> QED BY <2>2
<1> QED BY <1>3

\* Min of a set of natural numbers.
LEMMA MinFacts ==
    ASSUME NEW T, T \subseteq Nat, T # {}
    PROVE  Min(T) \in T /\ \A y \in T : Min(T) =< y
BY LeastNat DEF Min

\* Max of a set of numbers that has a bound.
LEMMA MaxFacts ==
    ASSUME NEW n \in Nat, NEW T, T \subseteq 0..n, T # {}
    PROVE  Max(T) \in T /\ \A y \in T : Max(T) >= y
<1> DEFINE U == {n - y : y \in T}
<1>1. U \subseteq Nat /\ U # {}
  <2>1. \A y \in T : y \in 0..n /\ n - y \in Nat OBVIOUS
  <2> QED BY <2>1
<1>2. PICK u \in U : \A w \in U : u =< w BY <1>1, LeastNat
<1>3. PICK x \in T : u = n - x OBVIOUS
<1>4. \A y \in T : x >= y
  <2> TAKE y \in T
  <2>1. n - y \in U OBVIOUS
  <2> QED BY <2>1, <1>2, <1>3
<1> QED BY <1>4 DEF Max

\* Induction over the natural numbers, for a set.
LEMMA SetInduction ==
    ASSUME NEW T, 0 \in T, \A n \in Nat : n \in T => n + 1 \in T
    PROVE  Nat \subseteq T
<1> SUFFICES ASSUME Nat \ T # {} PROVE FALSE OBVIOUS
<1>1. PICK x \in Nat \ T : \A y \in Nat \ T : x =< y
  <2> DEFINE U == Nat \ T
  <2>1. U \subseteq Nat /\ U # {} OBVIOUS
  <2>2. \E x \in U : \A y \in U : x =< y
    <3> HIDE DEF U
    <3> QED BY <2>1, LeastNat
  <2> QED BY <2>2
<1>2. x # 0 /\ x - 1 \in Nat OBVIOUS
<1>3. x - 1 \in T BY <1>1, <1>2
<1> QED BY <1>2, <1>3

\* A function on 1..n is a sequence.
LEMMA SeqOfFunction ==
    ASSUME NEW S, NEW n \in Nat, NEW s, s = [i \in 1..n |-> s[i]], \A i \in 1..n : s[i] \in S
    PROVE  s \in Seq(S) /\ Len(s) = n
<1>1. s \in [1..n -> S] OBVIOUS
<1> QED BY <1>1

\* A function on 1..n + 1 that begins as s, which is one on 1..n.
LEMMA AppendIs ==
    ASSUME NEW n \in Nat, NEW s, s = [k \in 1..n |-> s[k]],
           NEW t, t = [k \in 1..n + 1 |-> t[k]], \A k \in 1..n : t[k] = s[k]
    PROVE  t = Append(s, t[n + 1])
<1> DEFINE T == {t[k] : k \in 1..n + 1}
<1>1. s \in Seq(T) /\ Len(s) = n
  <2>1. \A k \in 1..n : s[k] \in T OBVIOUS
  <2> HIDE DEF T
  <2> QED BY <2>1, SeqOfFunction
<1>2. t \in Seq(T) /\ Len(t) = n + 1
  <2>1. \A k \in 1..n + 1 : t[k] \in T OBVIOUS
  <2>2. n + 1 \in Nat OBVIOUS
  <2> HIDE DEF T
  <2> QED BY <2>1, <2>2, SeqOfFunction
<1>3. t[n + 1] \in T OBVIOUS
<1> HIDE DEF T
<1>4. /\ Append(s, t[n + 1]) \in Seq(T)
      /\ Len(Append(s, t[n + 1])) = n + 1
      /\ \A i \in 1..n : Append(s, t[n + 1])[i] = s[i]
      /\ Append(s, t[n + 1])[n + 1] = t[n + 1]
  BY <1>1, <1>3, AppendFacts
<1>5. \A i \in 1..n + 1 : t[i] = Append(s, t[n + 1])[i]
  <2> DEFINE a == Append(s, t[n + 1])
  <2>1. (\A i \in 1..n : a[i] = t[i]) /\ a[n + 1] = t[n + 1] BY <1>4
  <2> HIDE DEF a
  <2>2. \A i \in 1..n + 1 : i \in 1..n \/ i = n + 1 OBVIOUS
  <2>3. \A i \in 1..n + 1 : t[i] = a[i] BY <2>1, <2>2
  <2> QED BY <2>3 DEF a
<1> QED BY <1>2, <1>4, <1>5, SeqEqual

\* All but the last element of a sequence given element by element.
LEMMA FrontOf ==
    ASSUME NEW n \in Nat, NEW t, t = [k \in 1..n + 1 |-> t[k]]
    PROVE  Len(t) = n + 1 /\ SubSeq(t, 1, Len(t) - 1) = [k \in 1..n |-> t[k]]
<1> DEFINE T == {t[k] : k \in 1..n + 1}
           s == [k \in 1..n |-> t[k]]
<1>1. t \in Seq(T) /\ Len(t) = n + 1
  <2>1. \A k \in 1..n + 1 : t[k] \in T OBVIOUS
  <2>2. n + 1 \in Nat OBVIOUS
  <2> HIDE DEF T
  <2> QED BY <2>1, <2>2, SeqOfFunction
<1>2. s \in Seq(T) /\ Len(s) = n /\ \A k \in 1..n : s[k] = t[k]
  <2>1. \A k \in 1..n : s[k] \in T OBVIOUS
  <2>2. s = [k \in 1..n |-> s[k]] /\ \A k \in 1..n : s[k] = t[k] OBVIOUS
  <2> HIDE DEF T, s
  <2> QED BY <2>1, <2>2, SeqOfFunction
<1> HIDE DEF T, s
<1> DEFINE u == SubSeq(t, 1, n)
<1>3. u \in Seq(T) /\ Len(u) = n /\ \A i \in 1..n : u[i] = t[i] BY <1>1
<1> HIDE DEF u
<1>4. \A i \in 1..Len(s) : s[i] = u[i] BY <1>2, <1>3
<1>5. s = u BY <1>2, <1>3, <1>4, SeqEqual
<1> QED BY <1>1, <1>5 DEF u, s

\* Concatenation is associative.
LEMMA ConcatAssociates ==
    ASSUME NEW S, NEW a \in Seq(S), NEW b \in Seq(S), NEW c \in Seq(S)
    PROVE  (a \o b) \o c = a \o (b \o c)
BY ConcatAssociative

Joined(a, b) == a \o b

LEMMA JoinedAssociates ==
    ASSUME NEW S, NEW a \in Seq(S), NEW b \in Seq(S), NEW c \in Seq(S)
    PROVE  Joined(Joined(a, b), c) = Joined(a, Joined(b, c))
BY ConcatAssociates DEF Joined

\* The running concatenations of a sequence of sequences.
Running(s, f) ==
    f = [i \in 1..Len(s) |-> IF i = 1 THEN s[i] ELSE f[i - 1] \o s[i]]

\* There are such: FlattenSeq is well defined.
LEMMA RunningExists ==
    ASSUME NEW S, NEW s \in Seq(Seq(S))
    PROVE  \E f : Running(s, f)
<1> DEFINE Up(m, h) == h = [i \in 1..m |-> IF i = 1 THEN s[i] ELSE h[i - 1] \o s[i]]
           T == {m \in Nat : \E h : Up(m, h)}
<1>1. 0 \in T
  <2> DEFINE h == [i \in 1..0 |-> 0]
  <2>1. Up(0, h) OBVIOUS
  <2> QED BY <2>1
<1>2. ASSUME NEW m \in Nat, m \in T PROVE m + 1 \in T
  <2>1. PICK h : Up(m, h) BY <1>2
  <2> DEFINE k == [i \in 1..m + 1 |->
                     IF i = m + 1 THEN IF i = 1 THEN s[i] ELSE h[i - 1] \o s[i]
                     ELSE h[i]]
  <2>2. \A i \in 1..m + 1 : k[i] = IF i = 1 THEN s[i] ELSE k[i - 1] \o s[i]
    <3> TAKE i \in 1..m + 1
    <3>1. CASE i = m + 1
      <4>1. CASE i = 1 BY <3>1, <4>1
      <4>2. CASE i # 1
        <5>1. i - 1 \in 1..m + 1 /\ i - 1 # m + 1 BY <3>1, <4>2
        <5>2. k[i - 1] = h[i - 1] BY <5>1
        <5> QED BY <3>1, <4>2, <5>2
      <4> QED BY <4>1, <4>2
    <3>2. CASE i # m + 1
      <4>1. i \in 1..m BY <3>2
      <4>2. k[i] = h[i] BY <4>1, <3>2
      <4>3. h[i] = IF i = 1 THEN s[i] ELSE h[i - 1] \o s[i]
        BY <4>1, <2>1
      <4>4. i # 1 => k[i - 1] = h[i - 1] BY <4>1
      <4> QED BY <4>2, <4>3, <4>4
    <3> QED BY <3>1, <3>2
  <2>3. k = [i \in 1..m + 1 |-> k[i]] OBVIOUS
  <2> HIDE DEF k
  <2>4. Up(m + 1, k) BY <2>2, <2>3
  <2>5. m + 1 \in Nat OBVIOUS
  <2> QED BY <2>4, <2>5
<1>3. Nat \subseteq T
  <2> HIDE DEF T
  <2> QED BY <1>1, <1>2, SetInduction
<1>4. Len(s) \in T
  <2> HIDE DEF T
  <2> QED BY <1>3, LenProperties
<1> QED BY <1>4 DEF Running

LEMMA FlattenIs ==
    ASSUME NEW S, NEW s \in Seq(Seq(S)), s # <<>>
    PROVE  \E f : Running(s, f) /\ FlattenSeq(s) = f[Len(s)]
<1> DEFINE F == CHOOSE f : f = [i \in 1..Len(s) |-> IF i = 1 THEN s[i] ELSE f[i - 1] \o s[i]]
<1>1. Len(s) # 0 BY EmptySeq
<1>2. FlattenSeq(s) = F[Len(s)] BY <1>1 DEF FlattenSeq
<1>3. Running(s, F) BY RunningExists DEF Running
<1> QED BY <1>2, <1>3

LEMMA FlattenEmpty == FlattenSeq(<<>>) = <<>>
BY DEF FlattenSeq

LEMMA FlattenType ==
    ASSUME NEW S, NEW s \in Seq(Seq(S))
    PROVE  FlattenSeq(s) \in Seq(S)
<1>1. CASE s = <<>>
  <2>1. <<>> \in Seq(S) BY EmptySeq
  <2> QED BY <1>1, <2>1, FlattenEmpty
<1>2. CASE s # <<>>
  <2>1. PICK f : Running(s, f) /\ FlattenSeq(s) = f[Len(s)]
    BY <1>2, FlattenIs
  <2> DEFINE T == {m \in Nat : m + 1 =< Len(s) => f[m + 1] \in Seq(S)}
  <2>2. Len(s) \in Nat /\ Len(s) # 0 /\ \A i \in 1..Len(s) : s[i] \in Seq(S)
    BY <1>2, EmptySeq
  <2>3. \A i \in 1..Len(s) : f[i] = IF i = 1 THEN s[i] ELSE f[i - 1] \o s[i]
    BY <2>1 DEF Running
  <2>4. 0 \in T
    <3>1. f[1] = s[1] /\ s[1] \in Seq(S) BY <2>2, <2>3
    <3> QED BY <3>1
  <2>5. ASSUME NEW m \in Nat, m \in T PROVE m + 1 \in T
    <3>1. SUFFICES ASSUME m + 1 + 1 =< Len(s) PROVE f[m + 1 + 1] \in Seq(S)
      OBVIOUS
    <3>2. f[m + 1] \in Seq(S) BY <2>2, <2>5, <3>1
    <3>3. PICK k \in 1..Len(s) : k = m + 1 + 1 BY <2>2, <3>1
    <3>4. k # 1 /\ k - 1 = m + 1 BY <3>3
    <3>5. f[k] = f[m + 1] \o s[k] BY <2>3, <3>4
    <3>6. f[k] \in Seq(S) BY <2>2, <3>2, <3>5
    <3> QED BY <3>3, <3>6
  <2>6. Nat \subseteq T
    <3> HIDE DEF T
    <3> QED BY <2>4, <2>5, SetInduction
  <2>7. Len(s) - 1 \in T
    <3> HIDE DEF T
    <3> QED BY <2>2, <2>6
  <2>8. Len(s) - 1 + 1 = Len(s) BY <2>2
  <2> QED BY <2>1, <2>2, <2>7, <2>8
<1> QED BY <1>1, <1>2

\* t is s without its first element.
Drops(s, t) == Len(s) = Len(t) + 1 /\ \A i \in 1..Len(t) : t[i] = s[i + 1]

\* Flattening takes the first sequence, then flattens the others.
LEMMA FlattenFirst ==
    ASSUME NEW S, NEW s \in Seq(Seq(S)), NEW t \in Seq(Seq(S)), Drops(s, t)
    PROVE  FlattenSeq(s) = s[1] \o FlattenSeq(t)
<1>1. Len(s) \in Nat /\ Len(t) \in Nat /\ Len(s) = Len(t) + 1 /\ s # <<>>
  BY EmptySeq DEF Drops
<1>2. PICK f : Running(s, f) /\ FlattenSeq(s) = f[Len(s)]
  BY <1>1, FlattenIs
<1>3. \A i \in 1..Len(s) : f[i] = IF i = 1 THEN s[i] ELSE f[i - 1] \o s[i]
  BY <1>2 DEF Running
<1>4. s[1] \in Seq(S) /\ f[1] = s[1] BY <1>1, <1>3
<1>5. CASE t = <<>>
  <2>1. Len(s) = 1 BY <1>1, <1>5
  <2>2. FlattenSeq(t) = <<>> BY <1>5, FlattenEmpty
  <2> QED BY <1>2, <1>4, <2>1, <2>2
<1>6. CASE t # <<>>
  <2>1. PICK h : Running(t, h) /\ FlattenSeq(t) = h[Len(t)]
    BY <1>6, FlattenIs
  <2>2. \A i \in 1..Len(t) : h[i] = IF i = 1 THEN t[i] ELSE h[i - 1] \o t[i]
    BY <2>1 DEF Running
  <2>3. Len(t) # 0 /\ \A i \in 1..Len(t) : t[i] \in Seq(S)
    BY <1>6, EmptySeq
  <2> DEFINE P(j) == h[j] \in Seq(S) /\ \A q \in 1..Len(s) : q = j + 1 => f[q] = s[1] \o h[j]
             T == {m \in Nat : \A j \in 1..Len(t) : j = m + 1 => P(j)}
  <2>4. 0 \in T
    <3>1. h[1] = t[1] /\ t[1] \in Seq(S) /\ t[1] = s[2]
      BY <1>1, <2>2, <2>3 DEF Drops
    <3>2. PICK q \in 1..Len(s) : q = 2 BY <1>1, <2>3
    <3>3. q # 1 /\ q - 1 = 1 BY <3>2
    <3>4. f[q] = f[1] \o s[q] BY <1>3, <3>3
    <3>5. f[q] = s[1] \o h[1] /\ \A k \in 1..Len(s) : k = 1 + 1 => k = q
      BY <1>4, <3>1, <3>2, <3>4
    <3>6. P(1) BY <3>1, <3>5
    <3> HIDE DEF P
    <3> QED BY <3>6
  <2>5. ASSUME NEW m \in Nat, m \in T PROVE m + 1 \in T
    <3>1. ASSUME NEW k \in 1..Len(t), k = m + 1 + 1 PROVE P(k)
      <4>1. PICK j \in 1..Len(t) : j = m + 1 BY <1>1, <3>1
      <4>2. P(j) BY <2>5, <4>1
      <4>3. k # 1 /\ k - 1 = j BY <3>1, <4>1
      <4>4. h[k] = h[j] \o t[k] BY <2>2, <4>3
      <4>5. t[k] \in Seq(S) /\ h[j] \in Seq(S) BY <2>3, <4>2
      <4>6. h[k] \in Seq(S) BY <4>4, <4>5
      <4>7. ASSUME NEW q \in 1..Len(s), q = k + 1 PROVE f[q] = s[1] \o h[k]
        <5>1. q # 1 /\ q - 1 = k BY <4>7
        <5>2. f[q] = f[k] \o s[q] BY <1>3, <5>1
        <5>3. s[q] = t[k] BY <4>7 DEF Drops
        <5>4. k \in 1..Len(s) /\ k = j + 1 BY <1>1, <4>3
        <5>5. f[k] = s[1] \o h[j] BY <4>2, <5>4
        <5>6. f[q] = f[k] \o t[k] BY <5>2, <5>3
        <5>7. f[k] \o t[k] = s[1] \o h[k]
          <6> HIDE DEF P, T
          <6>1. s[1] \in Seq(S) BY <1>4
          <6>2. Joined(Joined(s[1], h[j]), t[k]) = Joined(s[1], Joined(h[j], t[k]))
            BY <6>1, <4>5, JoinedAssociates
          <6> QED BY <4>4, <5>5, <6>2 DEF Joined
        <5> QED BY <5>6, <5>7
      <4> QED BY <4>6, <4>7
    <3> HIDE DEF P
    <3> QED BY <3>1
  <2>6. Nat \subseteq T
    <3> HIDE DEF T
    <3> QED BY <2>4, <2>5, SetInduction
  <2>7. Len(t) - 1 \in T
    <3> HIDE DEF T
    <3> QED BY <1>1, <2>3, <2>6
  <2>8. P(Len(t))
    <3>1. Len(t) \in 1..Len(t) /\ Len(t) = Len(t) - 1 + 1 BY <1>1, <2>3
    <3> HIDE DEF P
    <3> QED BY <2>7, <3>1
  <2>9. f[Len(s)] = s[1] \o h[Len(t)]
    <3>1. Len(s) \in 1..Len(s) BY <1>1
    <3> QED BY <1>1, <2>8, <3>1
  <2> QED BY <1>2, <2>1, <2>9
<1> QED BY <1>5, <1>6

\* Flattening empty sequences gives the empty one.
LEMMA FlattenAllEmpty ==
    ASSUME NEW S, NEW s \in Seq(Seq(S)), \A i \in DOMAIN s : s[i] = <<>>
    PROVE  FlattenSeq(s) = <<>>
<1>1. CASE s = <<>> BY <1>1, FlattenEmpty
<1>2. CASE s # <<>>
  <2>1. PICK f : Running(s, f) /\ FlattenSeq(s) = f[Len(s)]
    BY <1>2, FlattenIs
  <2>2. Len(s) \in Nat /\ Len(s) # 0 /\ \A i \in 1..Len(s) : s[i] = <<>>
    BY <1>2, EmptySeq
  <2>3. \A i \in 1..Len(s) : f[i] = IF i = 1 THEN s[i] ELSE f[i - 1] \o s[i]
    BY <2>1 DEF Running
  <2> DEFINE T == {m \in Nat : \A i \in 1..Len(s) : i = m + 1 => f[i] = <<>>}
  <2>4. 0 \in T BY <2>2, <2>3
  <2>5. ASSUME NEW m \in Nat, m \in T PROVE m + 1 \in T
    <3>1. ASSUME NEW i \in 1..Len(s), i = m + 1 + 1 PROVE f[i] = <<>>
      <4>1. PICK j \in 1..Len(s) : j = m + 1 BY <2>2, <3>1
      <4>2. f[j] = <<>> /\ i # 1 /\ i - 1 = j BY <2>5, <3>1, <4>1
      <4>3. f[i] = <<>> \o <<>> BY <2>2, <2>3, <4>2
      <4> QED BY <4>3
    <3> QED BY <3>1
  <2>6. Nat \subseteq T
    <3> HIDE DEF T
    <3> QED BY <2>4, <2>5, SetInduction
  <2>7. Len(s) - 1 \in T
    <3> HIDE DEF T
    <3> QED BY <2>2, <2>6
  <2>8. Len(s) \in 1..Len(s) /\ Len(s) = Len(s) - 1 + 1 BY <2>2
  <2> QED BY <2>1, <2>7, <2>8
<1> QED BY <1>1, <1>2

\* What is left of a sequence after some elements, one more element at a time.
LEMMA LaterPart ==
    ASSUME NEW S, NEW s \in Seq(S), NEW m \in 0..Len(s)
    PROVE  /\ SubSeq(s, m + 1, Len(s)) \in Seq(S)
           /\ Len(SubSeq(s, m + 1, Len(s))) = Len(s) - m
           /\ \A i \in 1..Len(s) - m : SubSeq(s, m + 1, Len(s))[i] = s[m + i]
<1> DEFINE a == m + 1
           b == Len(s)
<1>1. a \in Int /\ b \in Int /\ m \in Nat /\ a = m + 1 /\ a =< b + 1 /\ b \in Nat
  OBVIOUS
<1>2. \A i \in a..b : s[i] \in S OBVIOUS
<1> HIDE DEF a, b
<1>3. /\ SubSeq(s, a, b) \in Seq(S)
      /\ Len(SubSeq(s, a, b)) = IF a <= b THEN b - a + 1 ELSE 0
      /\ \A i \in 1..b - a + 1 : SubSeq(s, a, b)[i] = s[a + i - 1]
  BY <1>1, <1>2, SubSeqProperties
<1>4. Len(SubSeq(s, a, b)) = b - m /\ b - a + 1 = b - m BY <1>1, <1>3
<1>5. \A i \in 1..b - m : a + i - 1 = m + i BY <1>1
<1>6. \A i \in 1..b - m : SubSeq(s, a, b)[i] = s[m + i]
  BY <1>3, <1>4, <1>5
<1> QED BY <1>3, <1>4, <1>6 DEF a, b

\* Nothing before, and nothing after.
LEMMA LaterEnds ==
    ASSUME NEW S, NEW s \in Seq(S)
    PROVE  /\ SubSeq(s, 1, Len(s)) = s
           /\ SubSeq(s, Len(s) + 1, Len(s)) = <<>>
<1>1. SubSeq(s, 1, Len(s)) = s BY SubSeqFull
<1>2. SubSeq(s, Len(s) + 1, Len(s)) = <<>>
  <2>1. SubSeq(s, Len(s) + 1, Len(s)) \in Seq(S) /\ Len(SubSeq(s, Len(s) + 1, Len(s))) = 0
    BY LaterPart
  <2> QED BY <2>1, EmptySeq
<1> QED BY <1>1, <1>2

\* Flattening what comes after some elements, one element at a time.
LEMMA FlattenLater ==
    ASSUME NEW S, NEW s \in Seq(Seq(S)), NEW m \in Nat, NEW k \in 1..Len(s), k = m + 1
    PROVE  FlattenSeq(SubSeq(s, k, Len(s))) =
              s[k] \o FlattenSeq(SubSeq(s, k + 1, Len(s)))
<1>1. Len(s) \in Nat /\ m \in 0..Len(s) /\ k \in 0..Len(s)
  BY LenProperties
<1>2. /\ SubSeq(s, m + 1, Len(s)) \in Seq(Seq(S))
      /\ Len(SubSeq(s, m + 1, Len(s))) = Len(s) - m
      /\ \A i \in 1..Len(s) - m : SubSeq(s, m + 1, Len(s))[i] = s[m + i]
  BY <1>1, LaterPart
<1>3. /\ SubSeq(s, k + 1, Len(s)) \in Seq(Seq(S))
      /\ Len(SubSeq(s, k + 1, Len(s))) = Len(s) - k
      /\ \A i \in 1..Len(s) - k : SubSeq(s, k + 1, Len(s))[i] = s[k + i]
  BY <1>1, LaterPart
<1> DEFINE t == SubSeq(s, m + 1, Len(s))
           u == SubSeq(s, k + 1, Len(s))
<1>4. /\ t \in Seq(Seq(S)) /\ Len(t) = Len(s) - m
      /\ \A i \in 1..Len(s) - m : t[i] = s[m + i]
      /\ u \in Seq(Seq(S)) /\ Len(u) = Len(s) - k
      /\ \A i \in 1..Len(s) - k : u[i] = s[k + i]
  BY <1>2, <1>3
<1> HIDE DEF t, u
<1>5. Len(t) = Len(u) + 1 BY <1>1, <1>4
<1>6. ASSUME NEW i \in 1..Len(u) PROVE u[i] = t[i + 1]
  <2>1. PICK j \in 1..Len(s) - m : j = i + 1 BY <1>1, <1>4
  <2>2. i \in 1..Len(s) - k /\ k + i = m + j BY <1>1, <1>4, <2>1
  <2>3. t[j] = s[m + j] /\ u[i] = s[k + i] BY <1>4, <2>2
  <2> QED BY <2>1, <2>2, <2>3
<1>7. t[1] = s[k]
  <2>1. 1 \in 1..Len(s) - m /\ m + 1 = k BY <1>1
  <2> QED BY <1>4, <2>1
<1>8. Drops(t, u) BY <1>5, <1>6 DEF Drops
<1>9. FlattenSeq(t) = t[1] \o FlattenSeq(u) BY <1>4, <1>8, FlattenFirst
<1> QED BY <1>7, <1>9 DEF t, u

\* Taking the next element from a sequence to the end of another one.
LEMMA TakeNext ==
    ASSUME NEW S, NEW b \in Seq(S), NEW s \in Seq(S), NEW m \in Nat,
           NEW k \in 1..Len(s), k = m + 1
    PROVE  Append(b, s[k]) \o SubSeq(s, k + 1, Len(s)) = b \o SubSeq(s, k, Len(s))
<1>1. Len(s) \in Nat /\ m \in 0..Len(s) /\ k \in 0..Len(s) /\ Len(b) \in Nat /\ s[k] \in S
  BY LenProperties
<1>2. /\ SubSeq(s, m + 1, Len(s)) \in Seq(S)
      /\ Len(SubSeq(s, m + 1, Len(s))) = Len(s) - m
      /\ \A i \in 1..Len(s) - m : SubSeq(s, m + 1, Len(s))[i] = s[m + i]
  BY <1>1, LaterPart
<1>3. /\ SubSeq(s, k + 1, Len(s)) \in Seq(S)
      /\ Len(SubSeq(s, k + 1, Len(s))) = Len(s) - k
      /\ \A i \in 1..Len(s) - k : SubSeq(s, k + 1, Len(s))[i] = s[k + i]
  BY <1>1, LaterPart
<1> DEFINE t == SubSeq(s, m + 1, Len(s))
           u == SubSeq(s, k + 1, Len(s))
           a == Append(b, s[k])
<1>4. /\ t \in Seq(S) /\ Len(t) = Len(s) - m
      /\ \A i \in 1..Len(s) - m : t[i] = s[m + i]
      /\ u \in Seq(S) /\ Len(u) = Len(s) - k
      /\ \A i \in 1..Len(s) - k : u[i] = s[k + i]
  BY <1>2, <1>3
<1>5. /\ a \in Seq(S) /\ Len(a) = Len(b) + 1
      /\ \A i \in 1..Len(b) : a[i] = b[i]
      /\ a[Len(b) + 1] = s[k]
  BY <1>1, AppendFacts
<1> HIDE DEF t, u, a
<1> DEFINE x == a \o u
           y == b \o t
<1>6. /\ x \in Seq(S) /\ Len(x) = Len(a) + Len(u)
      /\ \A i \in 1..Len(a) : x[i] = a[i]
      /\ \A i \in Len(a) + 1..Len(a) + Len(u) : x[i] = u[i - Len(a)]
  <2>1. a \in Seq(S) /\ u \in Seq(S) BY <1>4, <1>5
  <2> QED BY <2>1, ConcatProperties
<1>7. /\ y \in Seq(S) /\ Len(y) = Len(b) + Len(t)
      /\ \A i \in 1..Len(b) : y[i] = b[i]
      /\ \A i \in Len(b) + 1..Len(b) + Len(t) : y[i] = t[i - Len(b)]
  <2>1. t \in Seq(S) BY <1>4
  <2> QED BY <2>1, ConcatProperties
<1> HIDE DEF x, y
<1>8. Len(x) = Len(y) BY <1>1, <1>4, <1>5, <1>6, <1>7
<1>9. ASSUME NEW i \in 1..Len(x) PROVE x[i] = y[i]
  <2>1. CASE i \in 1..Len(b)
    <3>1. i \in 1..Len(a) BY <1>1, <1>5, <2>1
    <3> QED BY <1>5, <1>6, <1>7, <2>1, <3>1
  <2>2. CASE i = Len(b) + 1
    <3>1. i \in 1..Len(a) /\ i = Len(a) BY <1>1, <1>5, <2>2
    <3>2. x[i] = s[k] BY <1>5, <1>6, <2>2, <3>1
    <3>3. i \in Len(b) + 1..Len(b) + Len(t) /\ i - Len(b) = 1 /\ 1 \in 1..Len(s) - m
      BY <1>1, <1>4, <2>2
    <3>4. y[i] = t[1] /\ t[1] = s[m + 1] BY <1>4, <1>7, <3>3
    <3> QED BY <3>2, <3>4
  <2>3. CASE i > Len(b) + 1
    <3>1. /\ i \in Len(a) + 1..Len(a) + Len(u) /\ i \in Len(b) + 1..Len(b) + Len(t)
          /\ i - Len(a) \in 1..Len(s) - k /\ i - Len(b) \in 1..Len(s) - m
          /\ k + (i - Len(a)) = m + (i - Len(b))
      <4>1. /\ Len(a) = Len(b) + 1 /\ Len(u) = Len(s) - k /\ Len(t) = Len(s) - m
            /\ Len(x) = Len(a) + Len(u)
        BY <1>4, <1>5, <1>6
      <4>2. i \in Nat /\ i =< Len(x) /\ i > Len(b) + 1
        BY <1>1, <2>3, <4>1
      <4> QED BY <1>1, <4>1, <4>2
    <3>2. x[i] = u[i - Len(a)] /\ y[i] = t[i - Len(b)]
      BY <1>6, <1>7, <3>1
    <3>3. u[i - Len(a)] = s[k + (i - Len(a))] BY <1>4, <3>1
    <3>4. t[i - Len(b)] = s[m + (i - Len(b))] BY <1>4, <3>1
    <3> QED BY <3>1, <3>2, <3>3, <3>4
  <2> QED BY <1>1, <1>6, <2>1, <2>2, <2>3
<1>10. x = y BY <1>6, <1>7, <1>8, <1>9, SeqEqual
<1> QED BY <1>10 DEF x, y, t, u, a

\* The two halves of a concatenation.
LEMMA SplitAgain ==
    ASSUME NEW S, NEW own \in Seq(S), NEW rest \in Seq(S)
    PROVE  /\ Len(own) \in 0..Len(own \o rest)
           /\ SubSeq(own \o rest, 1, Len(own)) = own
           /\ SubSeq(own \o rest, Len(own) + 1, Len(own \o rest)) = rest
<1> DEFINE w == own \o rest
<1>1. /\ w \in Seq(S) /\ Len(w) = Len(own) + Len(rest)
      /\ \A i \in 1..Len(own) : w[i] = own[i]
      /\ \A i \in Len(own) + 1..Len(own) + Len(rest) : w[i] = rest[i - Len(own)]
      /\ Len(own) \in Nat /\ Len(rest) \in Nat
  BY ConcatProperties, LenProperties
<1> HIDE DEF w
<1>2. Len(own) \in 0..Len(w) BY <1>1
<1> DEFINE a == SubSeq(w, 1, Len(own))
           b == SubSeq(w, Len(own) + 1, Len(w))
<1>3. a \in Seq(S) /\ Len(a) = Len(own) /\ \A i \in 1..Len(own) : a[i] = w[i]
  BY <1>1, <1>2
<1>4. /\ b \in Seq(S) /\ Len(b) = Len(w) - Len(own)
      /\ \A i \in 1..Len(w) - Len(own) : b[i] = w[Len(own) + i]
  BY <1>1, <1>2, LaterPart
<1> HIDE DEF a, b
<1>5. a = own BY <1>1, <1>3, SeqEqual
<1>6. Len(b) = Len(rest) BY <1>1, <1>4
<1>7. ASSUME NEW i \in 1..Len(b) PROVE b[i] = rest[i]
  <2>1. /\ Len(own) + i \in Len(own) + 1..Len(own) + Len(rest)
        /\ Len(own) + i - Len(own) = i /\ i \in 1..Len(w) - Len(own)
    BY <1>1, <1>6
  <2> QED BY <1>1, <1>4, <2>1
<1>8. b = rest BY <1>4, <1>6, <1>7, SeqEqual
<1> QED BY <1>2, <1>5, <1>8 DEF a, b, w
\* A sequence cut in two.
LEMMA Halves ==
    ASSUME NEW S, NEW s \in Seq(S), NEW n \in 0..Len(s)
    PROVE  /\ SubSeq(s, 1, n) \in Seq(S)
           /\ SubSeq(s, n + 1, Len(s)) \in Seq(S)
           /\ s = SubSeq(s, 1, n) \o SubSeq(s, n + 1, Len(s))
<1> DEFINE a == SubSeq(s, 1, n)
           b == SubSeq(s, n + 1, Len(s))
<1>1. a \in Seq(S) /\ Len(a) = n /\ \A i \in 1..n : a[i] = s[i] OBVIOUS
<1>2. b \in Seq(S) /\ Len(b) = Len(s) - n /\ \A i \in 1..Len(s) - n : b[i] = s[n + i]
  BY LaterPart
<1> HIDE DEF a, b
<1> DEFINE w == a \o b
<1>3. /\ w \in Seq(S) /\ Len(w) = Len(a) + Len(b)
      /\ \A i \in 1..Len(a) : w[i] = a[i]
      /\ \A i \in Len(a) + 1..Len(a) + Len(b) : w[i] = b[i - Len(a)]
  <2>1. a \in Seq(S) /\ b \in Seq(S) BY <1>1, <1>2
  <2> QED BY <2>1, ConcatProperties
<1> HIDE DEF w
<1>4. Len(w) = Len(s) /\ Len(s) \in Nat BY <1>1, <1>2, <1>3
<1>5. ASSUME NEW i \in 1..Len(s) PROVE w[i] = s[i]
  <2>1. CASE i \in 1..n BY <1>1, <1>3, <2>1
  <2>2. CASE i \notin 1..n
    <3>1. /\ i \in Len(a) + 1..Len(a) + Len(b) /\ i - Len(a) \in 1..Len(s) - n
          /\ n + (i - Len(a)) = i
      BY <1>1, <1>2, <2>2
    <3> QED BY <1>2, <1>3, <3>1
  <2> QED BY <2>1, <2>2
<1>6. w = s BY <1>3, <1>4, <1>5, SeqEqual
<1> QED BY <1>1, <1>2, <1>6 DEF w, a, b

------------------------------------------------------------------------------
\* The sequence t is s, of length n, and one element more.
Prolongs(t, s, n) ==
    /\ s = [k \in 1..n |-> s[k]]
    /\ t = [k \in 1..n + 1 |-> t[k]]
    /\ \A k \in 1..n : t[k] = s[k]

\* A sequence given by its elements that prolongs another by one is Append's.
LEMMA ProlongedIs ==
    ASSUME NEW n \in Nat, NEW s, NEW t, Prolongs(t, s, n)
    PROVE  t = Append(s, t[n + 1])
<1> USE DEF Prolongs
<1> DEFINE T == {t[k] : k \in 1..n + 1}
<1>1. s \in Seq(T) /\ Len(s) = n
  <2>1. \A k \in 1..n : s[k] \in T OBVIOUS
  <2> HIDE DEF T
  <2> QED BY <2>1, SeqOfFunction
<1>2. t \in Seq(T) /\ Len(t) = n + 1
  <2>1. \A k \in 1..n + 1 : t[k] \in T OBVIOUS
  <2>2. n + 1 \in Nat OBVIOUS
  <2> HIDE DEF T
  <2> QED BY <2>1, <2>2, SeqOfFunction
<1>3. t[n + 1] \in T OBVIOUS
<1> HIDE DEF T
<1>4. /\ Append(s, t[n + 1]) \in Seq(T)
      /\ Len(Append(s, t[n + 1])) = n + 1
      /\ \A i \in 1..n : Append(s, t[n + 1])[i] = s[i]
      /\ Append(s, t[n + 1])[n + 1] = t[n + 1]
  BY <1>1, <1>3, AppendFacts
<1>5. \A i \in 1..n + 1 : t[i] = Append(s, t[n + 1])[i]
  <2> DEFINE a == Append(s, t[n + 1])
  <2>1. (\A i \in 1..n : a[i] = t[i]) /\ a[n + 1] = t[n + 1] BY <1>4
  <2> HIDE DEF a
  <2>2. \A i \in 1..n + 1 : i \in 1..n \/ i = n + 1 OBVIOUS
  <2>3. \A i \in 1..n + 1 : t[i] = a[i] BY <2>1, <2>2
  <2> QED BY <2>3 DEF a
<1> QED BY <1>2, <1>4, <1>5, SeqEqual

\* f holds a value for each number up to n, each made of the one before it.
Iterates(f, n, v, Step) ==
    f = [k \in 0..n |-> IF k = 0 THEN v ELSE Step[k][f[k - 1]]]

\* A value for each number up to n, each made of the one before it: Step says how.
LEMMA Iteration ==
    ASSUME NEW V, NEW v \in V, NEW n \in Nat, NEW Step \in [1..n -> [V -> V]]
    PROVE  \E f \in [0..n -> V] : Iterates(f, n, v, Step)
<1> DEFINE T == {m \in Nat : m <= n => \E f \in [0..m -> V] :
                    \A k \in 0..m : f[k] = IF k = 0 THEN v ELSE Step[k][f[k - 1]]}
<1>1. 0 \in T
  <2> DEFINE f == [k \in 0..0 |-> v]
  <2>1. f \in [0..0 -> V] /\ \A k \in 0..0 : f[k] = IF k = 0 THEN v ELSE Step[k][f[k - 1]]
    OBVIOUS
  <2> QED BY <2>1
<1>2. ASSUME NEW m \in Nat, m \in T PROVE m + 1 \in T
  <2> SUFFICES ASSUME m + 1 <= n
               PROVE  \E f \in [0..m + 1 -> V] :
                        \A k \in 0..m + 1 : f[k] = IF k = 0 THEN v ELSE Step[k][f[k - 1]]
    OBVIOUS
  <2>1. PICK g \in [0..m -> V] : \A k \in 0..m : g[k] = IF k = 0 THEN v ELSE Step[k][g[k - 1]]
    BY <1>2
  <2> DEFINE f == [k \in 0..m + 1 |-> IF k = m + 1 THEN Step[k][g[m]] ELSE g[k]]
  <2>2. Step[m + 1] \in [V -> V] /\ g[m] \in V BY <2>1
  <2>3. f \in [0..m + 1 -> V] BY <2>1, <2>2
  <2>4. ASSUME NEW k \in 0..m + 1 PROVE f[k] = IF k = 0 THEN v ELSE Step[k][f[k - 1]]
    <3>1. CASE k = m + 1 BY <3>1
    <3>2. CASE k # m + 1 BY <2>1, <3>2
    <3> QED BY <3>1, <3>2
  <2> QED BY <2>3, <2>4
<1>3. n \in T
  <2> HIDE DEF T
  <2> QED BY <1>1, <1>2, SetInduction
<1>4. PICK f \in [0..n -> V] : \A k \in 0..n : f[k] = IF k = 0 THEN v ELSE Step[k][f[k - 1]]
  BY <1>3
<1> QED BY <1>4 DEF Iterates

\* What Step makes for x depends only on the values of elements of lower rank.
Founded(Step, rank, D, V) ==
    \A g, h \in [D -> V] : \A x \in D :
      (\A y \in D : rank[y] < rank[x] => g[y] = h[y]) => Step[g][x] = Step[h][x]

FixedPoint(Step, f) == Step[f] = f

\* A value for each element of D, each made of those of lower rank.
LEMMA Recursion ==
    ASSUME NEW D, NEW V, NEW v \in V, NEW N \in Nat, NEW rank \in [D -> 0..N],
           NEW Step \in [[D -> V] -> [D -> V]],
           Founded(Step, rank, D, V)
    PROVE  \E f \in [D -> V] : FixedPoint(Step, f)
<1> DEFINE T == {n \in Nat : \E g \in [D -> V] : \A x \in D : rank[x] < n => Step[g][x] = g[x]}
<1>1. 0 \in T
  <2>1. [x \in D |-> v] \in [D -> V] OBVIOUS
  <2>2. \A x \in D : ~(rank[x] < 0) OBVIOUS
  <2> QED BY <2>1, <2>2
<1>2. ASSUME NEW n \in Nat, n \in T PROVE n + 1 \in T
  <2>1. PICK g \in [D -> V] : \A x \in D : rank[x] < n => Step[g][x] = g[x]
    BY <1>2
  <2>2. Step[g] \in [D -> V] BY <2>1
  <2>3. ASSUME NEW x \in D, rank[x] < n + 1 PROVE Step[Step[g]][x] = Step[g][x]
    <3>1. \A y \in D : rank[y] < rank[x] => Step[g][y] = g[y]
      <4>1. \A y \in D : rank[y] \in Nat OBVIOUS
      <4> QED BY <2>1, <2>3, <4>1
    <3> QED BY <2>1, <2>2, <3>1 DEF Founded
  <2> QED BY <2>2, <2>3
<1>3. N + 1 \in T
  <2> HIDE DEF T
  <2> QED BY <1>1, <1>2, SetInduction
<1>4. PICK g \in [D -> V] : \A x \in D : rank[x] < N + 1 => Step[g][x] = g[x]
  BY <1>3
<1>5. Step[g] = g
  <2>1. Step[g] \in [D -> V] /\ \A x \in D : Step[g][x] = g[x] BY <1>4
  <2> QED BY <1>4, <2>1
<1> QED BY <1>4, <1>5 DEF FixedPoint

------------------------------------------------------------------------------
(***************************************************************************)
(* What is chosen of a sequence: Those, by a running selection; In, the    *)
(* elements of a set, and HowMany of them there are; Listed, the numbers   *)
(* of a set in their order.                                                *)
(***************************************************************************)
\* The running selection of Those.
Choosing(f, s, keep) ==
    f = [k \in 0..Len(s) |->
           IF k = 0 THEN <<>> ELSE IF k \in keep THEN Append(f[k - 1], s[k]) ELSE f[k - 1]]

\* Two sequences and two sets of positions are the same up to position n.
Alike(s, keep, t, other, n) ==
    \A k \in 1..n : s[k] = t[k] /\ (k \in keep <=> k \in other)

\* Two selections that agree so far are one.
LEMMA ChoosingAgrees ==
    ASSUME NEW f, NEW g, NEW s, NEW t, NEW keep, NEW other, NEW n \in Nat,
           Choosing(f, s, keep), Choosing(g, t, other),
           Len(s) \in Nat, Len(t) \in Nat, n <= Len(s), n <= Len(t),
           Alike(s, keep, t, other, n)
    PROVE  \A k \in 0..n : f[k] = g[k]
<1> DEFINE T == {k \in Nat : k <= n => f[k] = g[k]}
<1>1. 0 \in T BY DEF Choosing
<1>2. ASSUME NEW k \in Nat, k \in T PROVE k + 1 \in T
  <2> SUFFICES ASSUME k + 1 <= n PROVE f[k + 1] = g[k + 1] OBVIOUS
  <2>1. k + 1 \in 0..Len(s) /\ k + 1 \in 0..Len(t) /\ k + 1 \in 1..n /\ k + 1 # 0 /\ (k + 1) - 1 = k
    OBVIOUS
  <2>2. f[k] = g[k] /\ s[k + 1] = t[k + 1] /\ (k + 1 \in keep <=> k + 1 \in other)
    BY <1>2, <2>1 DEF Alike
  <2>3. f[k + 1] = IF k + 1 \in keep THEN Append(f[k], s[k + 1]) ELSE f[k]
    BY <2>1 DEF Choosing
  <2>4. g[k + 1] = IF k + 1 \in other THEN Append(g[k], t[k + 1]) ELSE g[k]
    BY <2>1 DEF Choosing
  <2> QED BY <2>2, <2>3, <2>4
<1>3. Nat \subseteq T
  <2> HIDE DEF T
  <2> QED BY <1>1, <1>2, SetInduction
<1> QED BY <1>3

\* Those is what its running selection ends with.
LEMMA ThoseIs ==
    ASSUME NEW S, NEW s \in Seq(S), NEW keep
    PROVE  \E f \in [0..Len(s) -> Seq(S)] : Choosing(f, s, keep) /\ Those(s, keep) = f[Len(s)]
<1> DEFINE V == Seq(S)
           n == Len(s)
           Step == [k \in 1..n |-> [q \in V |-> IF k \in keep THEN Append(q, s[k]) ELSE q]]
<1>1. n \in Nat /\ <<>> \in V BY EmptySeq
<1>2. Step \in [1..n -> [V -> V]]
  <2>1. ASSUME NEW k \in 1..n, NEW q \in V
        PROVE  (IF k \in keep THEN Append(q, s[k]) ELSE q) \in V
    BY AppendProperties, ElementOfSeq
  <2> QED BY <2>1
<1>3. \E f \in [0..n -> V] : f = [k \in 0..n |-> IF k = 0 THEN <<>> ELSE Step[k][f[k - 1]]]
  <2> DEFINE v == <<>>
  <2>1. v \in V BY <1>1
  <2>2. \E f \in [0..n -> V] : Iterates(f, n, v, Step)
    <3>1. n \in Nat BY <1>1
    <3> HIDE DEF V, Step, n, v
    <3> QED BY ONLY <1>2, <2>1, <3>1, Iteration
  <2> QED BY <2>2 DEF Iterates
<1>4. PICK f \in [0..n -> V] : f = [k \in 0..n |-> IF k = 0 THEN <<>> ELSE Step[k][f[k - 1]]]
  BY <1>3
<1>5. f = [k \in 0..n |-> IF k = 0 THEN <<>>
                          ELSE IF k \in keep THEN Append(f[k - 1], s[k]) ELSE f[k - 1]]
  <2>1. ASSUME NEW k \in 0..n, k # 0
        PROVE  Step[k][f[k - 1]] = IF k \in keep THEN Append(f[k - 1], s[k]) ELSE f[k - 1]
    <3>1. k \in 1..n /\ k - 1 \in 0..n BY <2>1, <1>1
    <3>2. f[k - 1] \in V BY <3>1, <1>4
    <3> QED BY <3>1, <3>2
  <2> HIDE DEF Step
  <2> QED BY <1>4, <2>1
<1> DEFINE C == CHOOSE g : g = [k \in 0..n |-> IF k = 0 THEN <<>>
                          ELSE IF k \in keep THEN Append(g[k - 1], s[k]) ELSE g[k - 1]]
<1>6. C = [k \in 0..n |-> IF k = 0 THEN <<>>
                          ELSE IF k \in keep THEN Append(C[k - 1], s[k]) ELSE C[k - 1]]
  BY <1>5
<1>7. Those(s, keep) = C[n] BY DEF Those
<1>8. \A k \in 0..n : C[k] = f[k]
  <2>1. Choosing(C, s, keep) /\ Choosing(f, s, keep)
    BY <1>5, <1>6 DEF Choosing
  <2>2. Alike(s, keep, s, keep, n) /\ n <= n BY <1>1 DEF Alike
  <2> HIDE DEF C
  <2> QED BY <1>1, <2>1, <2>2, ChoosingAgrees
<1>9. Those(s, keep) = f[n]
  <2>1. n \in 0..n BY <1>1
  <2> HIDE DEF C, n
  <2> QED BY <2>1, <1>7, <1>8
<1> QED BY <1>4, <1>5, <1>9 DEF Choosing

\* A selection has elements of the same set.
LEMMA ThoseType ==
    ASSUME NEW S, NEW s \in Seq(S), NEW keep
    PROVE  Those(s, keep) \in Seq(S)
<1>1. PICK f \in [0..Len(s) -> Seq(S)] : Choosing(f, s, keep) /\ Those(s, keep) = f[Len(s)]
  BY ThoseIs
<1>2. Len(s) \in 0..Len(s) BY LenProperties
<1> QED BY <1>1, <1>2

\* Nothing is chosen of nothing.
LEMMA ThoseEmpty == ASSUME NEW keep PROVE Those(<<>>, keep) = <<>>
<1> DEFINE s == <<>>
<1>1. s \in Seq({}) /\ Len(s) = 0 BY EmptySeq
<1>2. PICK f \in [0..Len(s) -> Seq({})] : Choosing(f, s, keep) /\ Those(s, keep) = f[Len(s)]
  <2> HIDE DEF s
  <2> QED BY <1>1, ThoseIs
<1> QED BY <1>1, <1>2 DEF Choosing

\* One element more is chosen or not, after the others.
LEMMA ThoseAppend ==
    ASSUME NEW S, NEW s \in Seq(S), NEW x \in S, NEW keep
    PROVE  Those(Append(s, x), keep)
             = IF Len(s) + 1 \in keep THEN Append(Those(s, keep), x) ELSE Those(s, keep)
<1> DEFINE t == Append(s, x)
           n == Len(s)
<1>1. n \in Nat /\ t \in Seq(S) /\ Len(t) = n + 1 /\ t[n + 1] = x /\ \A k \in 1..n : t[k] = s[k]
  BY AppendFacts, LenProperties
<1> HIDE DEF t
<1>2. PICK f \in [0..Len(s) -> Seq(S)] : Choosing(f, s, keep) /\ Those(s, keep) = f[Len(s)]
  BY ThoseIs
<1>3. PICK g \in [0..Len(t) -> Seq(S)] : Choosing(g, t, keep) /\ Those(t, keep) = g[Len(t)]
  BY <1>1, ThoseIs
<1>4. \A k \in 0..n : g[k] = f[k]
  <2>1. n <= Len(t) /\ n <= Len(s) /\ Len(t) \in Nat /\ Len(s) \in Nat
    BY <1>1
  <2>2. Alike(t, keep, s, keep, n) BY <1>1 DEF Alike
  <2>3. Choosing(g, t, keep) /\ Choosing(f, s, keep) /\ n \in Nat
    BY <1>1, <1>2, <1>3
  <2> HIDE DEF n
  <2> QED BY ONLY <2>1, <2>2, <2>3, ChoosingAgrees
<1>5. g[n + 1] = IF n + 1 \in keep THEN Append(g[n], x) ELSE g[n]
  <2>1. n + 1 \in 0..Len(t) /\ n + 1 # 0 /\ (n + 1) - 1 = n BY <1>1
  <2>2. g[n + 1] = IF n + 1 \in keep THEN Append(g[(n + 1) - 1], t[n + 1]) ELSE g[(n + 1) - 1]
    BY <2>1, <1>3 DEF Choosing
  <2> QED BY <1>1, <2>1, <2>2
<1>6. g[n] = Those(s, keep) /\ g[n + 1] = Those(t, keep)
  BY <1>1, <1>2, <1>3, <1>4
<1> QED BY <1>5, <1>6 DEF t

\* Only the positions of the sequence count.
LEMMA ThoseAgree ==
    ASSUME NEW S, NEW s \in Seq(S), NEW keep, NEW other,
           \A k \in DOMAIN s : k \in keep <=> k \in other
    PROVE  Those(s, keep) = Those(s, other)
<1>1. PICK f \in [0..Len(s) -> Seq(S)] : Choosing(f, s, keep) /\ Those(s, keep) = f[Len(s)]
  BY ThoseIs
<1>2. PICK g \in [0..Len(s) -> Seq(S)] : Choosing(g, s, other) /\ Those(s, other) = g[Len(s)]
  BY ThoseIs
<1>3. Len(s) \in Nat /\ Len(s) <= Len(s) /\ DOMAIN s = 1..Len(s)
  BY LenProperties
<1>4. \A k \in 0..Len(s) : f[k] = g[k]
  <2>1. Alike(s, keep, s, other, Len(s)) BY <1>3 DEF Alike
  <2> QED BY <1>1, <1>2, <1>3, <2>1, ChoosingAgrees
<1> QED BY <1>1, <1>2, <1>3, <1>4

\* The beginnings of a file, each one line longer than the one before.
LEMMA Beginnings ==
    ASSUME NEW S, NEW s \in Seq(S)
    PROVE  /\ SubSeq(s, 1, 0) = <<>>
           /\ SubSeq(s, 1, Len(s)) = s
           /\ \A i \in 1..Len(s) : /\ SubSeq(s, 1, i - 1) \in Seq(S)
                                   /\ Len(SubSeq(s, 1, i - 1)) = i - 1
                                   /\ SubSeq(s, 1, i) = Append(SubSeq(s, 1, i - 1), s[i])
<1>1. Len(s) \in Nat /\ \A i \in 1..Len(s) : s[i] \in S
  BY LenProperties, ElementOfSeq
<1>2. SubSeq(s, 1, 0) = <<>> BY EmptySeq
<1>3. \A n \in 0..Len(s) : /\ SubSeq(s, 1, n) \in Seq(S)
                           /\ Len(SubSeq(s, 1, n)) = n
                           /\ \A k \in 1..n : SubSeq(s, 1, n)[k] = s[k]
  BY <1>1
<1>4. SubSeq(s, 1, Len(s)) = s
  <2> DEFINE t == SubSeq(s, 1, Len(s))
  <2>1. t \in Seq(S) /\ Len(t) = Len(s) /\ \A k \in 1..Len(s) : t[k] = s[k]
    BY <1>1, <1>3
  <2> HIDE DEF t
  <2>2. t = s BY <2>1, SeqEqual
  <2> QED BY <2>2 DEF t
<1>5. ASSUME NEW i \in 1..Len(s)
      PROVE  /\ SubSeq(s, 1, i - 1) \in Seq(S)
             /\ Len(SubSeq(s, 1, i - 1)) = i - 1
             /\ SubSeq(s, 1, i) = Append(SubSeq(s, 1, i - 1), s[i])
  <2> DEFINE p == SubSeq(s, 1, i - 1)
             q == SubSeq(s, 1, i)
  <2>1. i - 1 \in 0..Len(s) /\ i \in 0..Len(s) /\ i - 1 + 1 = i BY <1>1
  <2>2. p \in Seq(S) /\ Len(p) = i - 1 /\ \A k \in 1..i - 1 : p[k] = s[k]
    BY <1>3, <2>1
  <2>3. q \in Seq(S) /\ Len(q) = i /\ \A k \in 1..i : q[k] = s[k]
    BY <1>3, <2>1
  <2> HIDE DEF p, q
  <2> DEFINE r == Append(p, s[i])
  <2>4. r \in Seq(S) /\ Len(r) = i /\ (\A k \in 1..i - 1 : r[k] = p[k]) /\ r[i] = s[i]
    BY <1>1, <2>1, <2>2, AppendFacts
  <2> HIDE DEF r
  <2>5. \A k \in 1..i : k \in 1..i - 1 \/ k = i BY <2>1
  <2>6. \A k \in 1..i : q[k] = r[k] BY <2>2, <2>3, <2>4, <2>5
  <2>7. q = r BY <2>3, <2>4, <2>6, SeqEqual
  <2> QED BY <2>2, <2>7 DEF p, q, r
<1> QED BY <1>2, <1>4, <1>5

\* The last of these facts, for one place.
LEMMA BeginningGrows ==
    ASSUME NEW S, NEW s \in Seq(S), NEW i \in 1..Len(s)
    PROVE  SubSeq(s, 1, i) = Append(SubSeq(s, 1, i - 1), s[i])
BY Beginnings

\* What is chosen of a beginning, by its last line.
LEMMA ThoseBeginning ==
    ASSUME NEW S, NEW s \in Seq(S), NEW i \in 1..Len(s), NEW keep
    PROVE  Those(SubSeq(s, 1, i), keep)
             = IF i \in keep THEN Append(Those(SubSeq(s, 1, i - 1), keep), s[i])
               ELSE Those(SubSeq(s, 1, i - 1), keep)
<1> DEFINE p == SubSeq(s, 1, i - 1)
<1>1. p \in Seq(S) /\ Len(p) + 1 = i /\ SubSeq(s, 1, i) = Append(p, s[i]) /\ s[i] \in S
  BY Beginnings, ElementOfSeq
<1> DEFINE x == s[i]
<1>2. x \in S BY <1>1
<1> HIDE DEF p, x
<1>3. Those(Append(p, x), keep)
        = IF Len(p) + 1 \in keep THEN Append(Those(p, keep), x) ELSE Those(p, keep)
  BY <1>1, <1>2, ThoseAppend
<1> QED BY <1>1, <1>3 DEF p, x

\* What is chosen of a beginning is a sequence of the same lines.
LEMMA ThoseBeginningType ==
    ASSUME NEW S, NEW s \in Seq(S), NEW i \in 0..Len(s), NEW keep
    PROVE  Those(SubSeq(s, 1, i), keep) \in Seq(S)
<1>1. SubSeq(s, 1, i) \in Seq(S) BY LenProperties
<1> QED BY <1>1, ThoseType

\* Choosing no position gives nothing.
LEMMA ThoseNone ==
    ASSUME NEW S, NEW s \in Seq(S)
    PROVE  Those(s, {}) = <<>>
<1> DEFINE n == Len(s)
<1>1. PICK f \in [0..Len(s) -> Seq(S)] : Choosing(f, s, {}) /\ Those(s, {}) = f[Len(s)]
  BY ThoseIs
<1> DEFINE U == {k \in Nat : k <= n => f[k] = <<>>}
<1>2. n \in Nat BY LenProperties
<1>3. 0 \in U BY <1>1, <1>2 DEF Choosing
<1>4. ASSUME NEW k \in Nat, k \in U PROVE k + 1 \in U
  <2> SUFFICES ASSUME k + 1 <= n PROVE f[k + 1] = <<>> OBVIOUS
  <2>1. k + 1 \in 0..Len(s) /\ k + 1 # 0 /\ (k + 1) - 1 = k /\ k <= n
    BY <1>2
  <2>2. f[k + 1] = f[(k + 1) - 1] BY <1>1, <2>1 DEF Choosing
  <2> QED BY <1>4, <2>1, <2>2
<1>5. Nat \subseteq U
  <2> HIDE DEF U
  <2> QED BY <1>3, <1>4, SetInduction
<1> QED BY <1>1, <1>2, <1>5

\* Sequences that are equal with one element more were equal.
LEMMA AppendSame ==
    ASSUME NEW S, NEW s \in Seq(S), NEW t \in Seq(S), NEW x \in S, NEW y \in S,
           Append(s, x) = Append(t, y)
    PROVE  s = t
<1> DEFINE p == Append(s, x)
           q == Append(t, y)
<1>1. Len(p) = Len(s) + 1 /\ \A k \in 1..Len(s) : p[k] = s[k]
  BY AppendFacts
<1>2. Len(q) = Len(t) + 1 /\ \A k \in 1..Len(t) : q[k] = t[k]
  BY AppendFacts
<1>3. p = q OBVIOUS
<1>4. Len(s) \in Nat /\ Len(t) \in Nat BY LenProperties
<1> HIDE DEF p, q
<1>5. Len(s) = Len(t) /\ \A k \in 1..Len(s) : s[k] = t[k]
  BY <1>1, <1>2, <1>3, <1>4
<1> QED BY <1>5, SeqEqual

\* The elements of s that are in A, in their order.
In(s, A) == Those(s, {k \in DOMAIN s : s[k] \in A})

\* The elements in a set are a sequence of them.
LEMMA InType ==
    ASSUME NEW S, NEW s \in Seq(S), NEW A
    PROVE  In(s, A) \in Seq(S)
BY ThoseType DEF In

\* No element in the set: none is taken.
LEMMA InNone ==
    ASSUME NEW S, NEW s \in Seq(S), NEW A, \A k \in DOMAIN s : s[k] \notin A
    PROVE  In(s, A) = <<>>
<1>1. {k \in DOMAIN s : s[k] \in A} = {} OBVIOUS
<1> QED BY <1>1, ThoseNone DEF In

\* One element more is taken when it is in the set.
LEMMA InAppend ==
    ASSUME NEW S, NEW s \in Seq(S), NEW x \in S, NEW A
    PROVE  In(Append(s, x), A) = IF x \in A THEN Append(In(s, A), x) ELSE In(s, A)
<1> DEFINE t == Append(s, x)
           n == Len(s)
           old == {k \in DOMAIN s : s[k] \in A}
           new == {k \in DOMAIN t : t[k] \in A}
<1>1. n \in Nat /\ DOMAIN s = 1..n /\ DOMAIN t = 1..n + 1 /\ t[n + 1] = x /\ \A k \in 1..n : t[k] = s[k]
  BY AppendFacts, LenProperties
<1>2. (n + 1 \in new <=> x \in A) /\ \A k \in DOMAIN s : k \in new <=> k \in old
  <2> HIDE DEF t, n
  <2> QED BY <1>1
<1>3. Those(t, new) = IF n + 1 \in new THEN Append(Those(s, new), x) ELSE Those(s, new)
  <2> HIDE DEF new
  <2> QED BY ThoseAppend
<1>4. Those(s, new) = Those(s, old)
  <2> HIDE DEF new, old
  <2> QED BY <1>2, ThoseAgree
<1>5. In(t, A) = Those(t, new) /\ In(s, A) = Those(s, old) BY DEF In
<1> HIDE DEF t, n, old, new
<1> QED BY <1>2, <1>3, <1>4, <1>5 DEF t

\* A sequence with one element more at the end of another.
LEMMA ConcatAppend ==
    ASSUME NEW S, NEW s \in Seq(S), NEW t \in Seq(S), NEW x \in S
    PROVE  s \o Append(t, x) = Append(s \o t, x)
<1> DEFINE w == Append(t, x)
           c == s \o t
           u == s \o w
           v == Append(c, x)
           m == Len(s)
           n == Len(t)
<1>1. m \in Nat /\ n \in Nat BY LenProperties
<1>2. w \in Seq(S) /\ Len(w) = n + 1 /\ w[n + 1] = x /\ \A k \in 1..n : w[k] = t[k]
  BY AppendFacts
<1>3. c \in Seq(S) /\ Len(c) = m + n /\ \A k \in 1..m + n : c[k] = IF k <= m THEN s[k] ELSE t[k - m]
  BY ConcatProperties
<1> HIDE DEF w, c, m, n
<1>4. u \in Seq(S) /\ Len(u) = m + (n + 1)
      /\ \A k \in 1..m + (n + 1) : u[k] = IF k <= m THEN s[k] ELSE w[k - m]
  <2>1. u \in Seq(S) /\ Len(u) = Len(s) + Len(w)
        /\ \A k \in 1..Len(s) + Len(w) : u[k] = IF k <= Len(s) THEN s[k] ELSE w[k - Len(s)]
    BY <1>2, ConcatProperties
  <2> HIDE DEF u
  <2> QED BY <1>2, <2>1 DEF m
<1>5. v \in Seq(S) /\ Len(v) = (m + n) + 1 /\ v[(m + n) + 1] = x /\ \A k \in 1..m + n : v[k] = c[k]
  BY <1>3, AppendFacts
<1> HIDE DEF u, v
<1>6. ASSUME NEW k \in 1..Len(u) PROVE u[k] = v[k]
  <2>0. k \in 1..m + (n + 1) BY <1>4
  <2>1. CASE k = (m + n) + 1
    <3>1. k - m = n + 1 /\ ~(k <= m) BY <1>1, <2>1
    <3> QED BY <1>2, <1>4, <1>5, <2>0, <2>1, <3>1
  <2>2. CASE k <= m
    <3>1. k \in 1..m + n BY <1>1, <2>0, <2>2
    <3> QED BY <1>3, <1>4, <1>5, <2>0, <2>2, <3>1
  <2>3. CASE ~(k <= m) /\ k # (m + n) + 1
    <3>1. k \in 1..m + n /\ k - m \in 1..n BY <1>1, <2>0, <2>3
    <3> QED BY <1>2, <1>3, <1>4, <1>5, <2>0, <2>3, <3>1
  <2> QED BY <2>1, <2>2, <2>3
<1>7. u = v
  <2>1. Len(u) = Len(v) BY <1>1, <1>4, <1>5
  <2> QED BY <1>4, <1>5, <1>6, <2>1, SeqEqual
<1> QED BY <1>7 DEF u, v, w, c

\* What is taken from two sequences in a row.
LEMMA InConcat ==
    ASSUME NEW S, NEW s \in Seq(S), NEW t \in Seq(S), NEW A
    PROVE  In(s \o t, A) = In(s, A) \o In(t, A)
<1> DEFINE T == {n \in Nat : n <= Len(t) => In(s \o SubSeq(t, 1, n), A) = In(s, A) \o In(SubSeq(t, 1, n), A)}
<1>0. Len(t) \in Nat /\ SubSeq(t, 1, 0) = <<>> /\ SubSeq(t, 1, Len(t)) = t
  BY Beginnings, LenProperties
<1>1. 0 \in T
  <2>1. <<>> \in Seq(S) /\ s \o <<>> = s BY ConcatEmptySeq, EmptySeq
  <2>2. In(<<>>, A) = <<>>
    <3> DEFINE e == <<>>
    <3>1. e \in Seq(S) /\ \A k \in DOMAIN e : e[k] \notin A BY <2>1
    <3> HIDE DEF e
    <3>2. In(e, A) = <<>> BY <3>1, InNone
    <3> QED BY <3>2 DEF e
  <2>3. In(s, A) \o <<>> = In(s, A) BY InType, ConcatEmptySeq
  <2> QED BY <1>0, <2>1, <2>2, <2>3
<1>2. ASSUME NEW n \in Nat, n \in T PROVE n + 1 \in T
  <2> SUFFICES ASSUME n + 1 <= Len(t)
               PROVE  In(s \o SubSeq(t, 1, n + 1), A) = In(s, A) \o In(SubSeq(t, 1, n + 1), A)
    OBVIOUS
  <2> DEFINE p == SubSeq(t, 1, n)
             x == t[n + 1]
  <2>1. n + 1 \in 1..Len(t) /\ (n + 1) - 1 = n BY <1>0
  <2>2. p \in Seq(S) /\ SubSeq(t, 1, n + 1) = Append(p, x)
    BY <2>1, Beginnings
  <2>3. x \in S BY <2>1, ElementOfSeq
  <2>4. In(s \o p, A) = In(s, A) \o In(p, A) BY <1>0, <1>2
  <2> HIDE DEF p, x
  <2>5. s \o Append(p, x) = Append(s \o p, x) /\ s \o p \in Seq(S)
    BY <2>2, <2>3, ConcatAppend, ConcatProperties
  <2>6. In(Append(s \o p, x), A) = IF x \in A THEN Append(In(s \o p, A), x) ELSE In(s \o p, A)
    BY <2>3, <2>5, InAppend
  <2>7. In(Append(p, x), A) = IF x \in A THEN Append(In(p, A), x) ELSE In(p, A)
    BY <2>2, <2>3, InAppend
  <2>8. In(s, A) \o Append(In(p, A), x) = Append(In(s, A) \o In(p, A), x)
    <3> DEFINE u == In(s, A)
               v == In(p, A)
    <3>1. u \in Seq(S) /\ v \in Seq(S) BY <2>2, InType
    <3> HIDE DEF u, v
    <3>2. u \o Append(v, x) = Append(u \o v, x)
      BY ONLY <2>3, <3>1, ConcatAppend
    <3> QED BY <3>2 DEF u, v
  <2> QED BY <2>2, <2>4, <2>5, <2>6, <2>7, <2>8
<1>3. Nat \subseteq T
  <2> HIDE DEF T
  <2> QED BY <1>1, <1>2, SetInduction
<1>4. In(s \o SubSeq(t, 1, Len(t)), A) = In(s, A) \o In(SubSeq(t, 1, Len(t)), A)
  BY <1>0, <1>3
<1> QED BY <1>0, <1>4

\* What is taken from a beginning of a sequence, by its last element.
LEMMA InBeginning ==
    ASSUME NEW S, NEW s \in Seq(S), NEW A, NEW k \in 1..Len(s)
    PROVE  In(SubSeq(s, 1, k), A) = IF s[k] \in A THEN Append(In(SubSeq(s, 1, k - 1), A), s[k])
                                    ELSE In(SubSeq(s, 1, k - 1), A)
<1> DEFINE p == SubSeq(s, 1, k - 1)
           x == s[k]
<1>1. p \in Seq(S) /\ SubSeq(s, 1, k) = Append(p, x) BY Beginnings
<1>2. x \in S BY ElementOfSeq
<1> HIDE DEF p, x
<1>3. In(Append(p, x), A) = IF x \in A THEN Append(In(p, A), x) ELSE In(p, A)
  BY <1>1, <1>2, InAppend
<1> QED BY <1>1, <1>3 DEF p, x

\* Nothing is taken from the empty beginning.
LEMMA InNothing ==
    ASSUME NEW S, NEW s \in Seq(S), NEW A
    PROVE  In(SubSeq(s, 1, 0), A) = <<>> /\ In(<<>>, A) = <<>>
<1> DEFINE e == <<>>
<1>1. SubSeq(s, 1, 0) = e BY Beginnings
<1>2. e \in Seq(S) /\ \A k \in DOMAIN e : e[k] \notin A BY EmptySeq
<1> HIDE DEF e
<1>3. In(e, A) = <<>> BY <1>2, InNone
<1> QED BY <1>1, <1>3 DEF e

\* How many elements of s are in A.
HowMany(s, A) == Len(In(s, A))

\* Counting two sequences in a row.
LEMMA CountConcat ==
    ASSUME NEW S, NEW s \in Seq(S), NEW t \in Seq(S), NEW A
    PROVE  /\ HowMany(s, A) \in Nat
           /\ HowMany(s \o t, A) = HowMany(s, A) + HowMany(t, A)
<1>1. In(s, A) \in Seq(S) /\ In(t, A) \in Seq(S) /\ In(s \o t, A) = In(s, A) \o In(t, A)
  <2>1. In(s, A) \in Seq(S) /\ In(t, A) \in Seq(S) BY InType
  <2>2. In(s \o t, A) = In(s, A) \o In(t, A) BY InConcat
  <2> QED BY <2>1, <2>2
<1> QED BY <1>1, ConcatProperties, LenProperties DEF HowMany

\* Counting one element more.
LEMMA CountAppend ==
    ASSUME NEW S, NEW s \in Seq(S), NEW x \in S, NEW A
    PROVE  HowMany(Append(s, x), A) = HowMany(s, A) + (IF x \in A THEN 1 ELSE 0)
<1>1. In(s, A) \in Seq(S) /\ In(Append(s, x), A) = IF x \in A THEN Append(In(s, A), x) ELSE In(s, A)
  BY InType, InAppend
<1>2. Len(Append(In(s, A), x)) = Len(In(s, A)) + 1 /\ Len(In(s, A)) \in Nat
  BY <1>1, AppendFacts, LenProperties
<1> QED BY <1>1, <1>2 DEF HowMany

\* Counting without the first element.
LEMMA CountTail ==
    ASSUME NEW S, NEW s \in Seq(S), s # <<>>, NEW A
    PROVE  HowMany(s, A) = HowMany(Tail(s), A) + (IF s[1] \in A THEN 1 ELSE 0)
<1> DEFINE e == <<>>
           a == Append(e, s[1])
           b == Tail(s)
<1>1. Len(s) \in Nat /\ Len(s) # 0 /\ 1 \in 1..Len(s)
  BY EmptySeq, LenProperties
<1>2. s[1] \in S /\ e \in Seq(S) BY <1>1, ElementOfSeq, EmptySeq
<1>3. a \in Seq(S) /\ b \in Seq(S) /\ s = a \o b
  <2>1. 1 \in 0..Len(s) /\ 1 - 1 = 0 BY <1>1
  <2>2. s = SubSeq(s, 1, 1) \o SubSeq(s, 1 + 1, Len(s)) BY <2>1, Halves
  <2>3. SubSeq(s, 1, 1) = a
    <3>1. SubSeq(s, 1, 1) = Append(SubSeq(s, 1, 1 - 1), s[1]) /\ SubSeq(s, 1, 0) = <<>>
      BY <1>1, Beginnings
    <3> QED BY <2>1, <3>1
  <2>4. SubSeq(s, 1 + 1, Len(s)) = b
    <3>1. 1 + 1 = 2 OBVIOUS
    <3> QED BY <3>1 DEF Tail
  <2>5. a \in Seq(S) BY <1>2, AppendFacts
  <2>6. SubSeq(s, 1 + 1, Len(s)) \in Seq(S) BY <2>1, Halves
  <2> HIDE DEF a, b
  <2> QED BY <2>2, <2>3, <2>4, <2>5, <2>6
<1> HIDE DEF b
<1>4. HowMany(a \o b, A) = HowMany(a, A) + HowMany(b, A) /\ HowMany(b, A) \in Nat
  <2> HIDE DEF a
  <2> QED BY <1>3, CountConcat
<1>5. HowMany(e, A) = 0
  <2>1. \A k \in DOMAIN e : e[k] \notin A OBVIOUS
  <2> HIDE DEF e
  <2>2. In(e, A) = <<>> BY <1>2, <2>1, InNone
  <2> QED BY <2>2 DEF HowMany
<1>6. HowMany(a, A) = IF s[1] \in A THEN 1 ELSE 0
  <2>1. HowMany(a, A) = HowMany(e, A) + (IF s[1] \in A THEN 1 ELSE 0)
    <3> HIDE DEF e
    <3> QED BY <1>2, CountAppend
  <2> QED BY <1>5, <2>1
<1> HIDE DEF a
<1>7. HowMany(s, A) = HowMany(a \o b, A) BY ONLY <1>3
<1> DEFINE d == IF s[1] \in A THEN 1 ELSE 0
<1>8. d \in Nat OBVIOUS
<1> HIDE DEF d
<1>9. HowMany(s, A) = HowMany(b, A) + d BY <1>4, <1>6, <1>7, <1>8 DEF d
<1> QED BY <1>9 DEF b, d

\* All of a sequence's elements.
LEMMA InAll ==
    ASSUME NEW S, NEW s \in Seq(S)
    PROVE  In(s, S) = s
<1> DEFINE p(k) == SubSeq(s, 1, k)
           T == {k \in Nat : k <= Len(s) => In(p(k), S) = p(k)}
<1>0. Len(s) \in Nat BY LenProperties
<1>1. 0 \in T
  <2>1. In(p(0), S) = <<>> /\ p(0) = <<>> BY InNothing, Beginnings
  <2> QED BY <2>1
<1>2. ASSUME NEW k \in Nat, k \in T PROVE k + 1 \in T
  <2> SUFFICES ASSUME k + 1 <= Len(s) PROVE In(p(k + 1), S) = p(k + 1)
    OBVIOUS
  <2> DEFINE j == k + 1
  <2>1. j \in 1..Len(s) /\ j - 1 = k BY <1>0
  <2> HIDE DEF j
  <2>2. In(SubSeq(s, 1, j), S) = IF s[j] \in S THEN Append(In(SubSeq(s, 1, j - 1), S), s[j])
                                 ELSE In(SubSeq(s, 1, j - 1), S)
    BY ONLY <2>1, s \in Seq(S), InBeginning
  <2>3. s[j] \in S BY <2>1, ElementOfSeq
  <2>4. SubSeq(s, 1, j) = Append(SubSeq(s, 1, j - 1), s[j])
    BY <2>1, Beginnings
  <2>5. In(p(k), S) = p(k) BY <1>0, <1>2
  <2>6. In(p(j), S) = p(j) BY <2>1, <2>2, <2>3, <2>4, <2>5
  <2> QED BY <2>6 DEF j
<1>3. Nat \subseteq T
  <2> HIDE DEF T
  <2> QED BY <1>1, <1>2, SetInduction
<1>4. In(p(Len(s)), S) = p(Len(s)) /\ p(Len(s)) = s
  BY <1>0, <1>3, Beginnings
<1> HIDE DEF p
<1> QED BY <1>4

\* An element that is there is counted.
LEMMA InSome ==
    ASSUME NEW S, NEW s \in Seq(S), NEW A, NEW k \in 1..Len(s), s[k] \in A
    PROVE  HowMany(s, A) > 0 /\ In(s, A) # <<>>
<1> DEFINE a == SubSeq(s, 1, k)
           b == SubSeq(s, k + 1, Len(s))
           p == SubSeq(s, 1, k - 1)
           x == s[k]
<1>1. k \in 0..Len(s) /\ Len(s) \in Nat BY LenProperties
<1>2. a \in Seq(S) /\ b \in Seq(S) /\ s = a \o b BY <1>1, Halves
<1>3. p \in Seq(S) /\ a = Append(p, x) /\ x \in S
  BY Beginnings, ElementOfSeq
<1> HIDE DEF a, b, p, x
<1>4. HowMany(a, A) = HowMany(p, A) + 1
  <2>1. HowMany(Append(p, x), A) = HowMany(p, A) + (IF x \in A THEN 1 ELSE 0)
    BY <1>3, CountAppend
  <2> QED BY <1>3, <2>1 DEF x
<1>5. HowMany(p, A) \in Nat /\ HowMany(b, A) \in Nat /\ HowMany(a \o b, A) = HowMany(a, A) + HowMany(b, A)
  BY <1>2, <1>3, CountConcat
<1>6. HowMany(s, A) = HowMany(a \o b, A) BY ONLY <1>2
<1>7. HowMany(s, A) > 0 BY <1>4, <1>5, <1>6
<1>8. In(s, A) # <<>>
  <2>1. HowMany(s, A) # 0 BY <1>5, <1>4, <1>6
  <2> DEFINE w == In(s, A)
  <2>2. Len(w) # 0 BY <2>1 DEF HowMany
  <2> HIDE DEF w
  <2>3. w # <<>> BY <2>2
  <2> QED BY <2>3 DEF w
<1> QED BY <1>7, <1>8

\* What is left of a sequence without its first element.
LEMMA TailIs ==
    ASSUME NEW S, NEW s \in Seq(S), s # <<>>
    PROVE  /\ Len(s) \in Nat /\ Len(s) >= 1
           /\ Tail(s) \in Seq(S) /\ Len(Tail(s)) = Len(s) - 1
           /\ \A j \in 1..Len(Tail(s)) : Tail(s)[j] = s[j + 1]
<1>1. Len(s) \in Nat /\ Len(s) # 0 BY EmptySeq, LenProperties
<1> QED BY <1>1, HeadTailProperties

\* All of a sequence is what every position chooses.
LEMMA ThoseAll ==
    ASSUME NEW S, NEW s \in Seq(S), NEW keep, DOMAIN s \subseteq keep
    PROVE  Those(s, keep) = s
<1>1. In(s, S) = s BY InAll
<1>2. In(s, S) = Those(s, {k \in DOMAIN s : s[k] \in S}) BY DEF In
<1>3. \A k \in DOMAIN s : k \in {j \in DOMAIN s : s[j] \in S} <=> k \in keep
  BY LenProperties, ElementOfSeq
<1> DEFINE other == {j \in DOMAIN s : s[j] \in S}
<1>4. Those(s, other) = Those(s, keep)
  <2> HIDE DEF other
  <2> QED BY <1>3, ThoseAgree DEF other
<1> QED BY <1>1, <1>2, <1>4

\* What is flattened of a sequence and one more.
LEMMA FlattenAppend ==
    ASSUME NEW S, NEW s \in Seq(Seq(S)), NEW x \in Seq(S)
    PROVE  /\ Append(s, x) \in Seq(Seq(S))
           /\ FlattenSeq(Append(s, x)) = FlattenSeq(s) \o x
<1> DEFINE t == Append(s, x)
           n == Len(s)
           Q == Seq(S)
<1>1. /\ t \in Seq(Q) /\ Len(t) = n + 1 /\ n \in Nat
      /\ \A i \in 1..n : t[i] = s[i]
      /\ t[n + 1] = x
  <2>1. s \in Seq(Q) /\ x \in Q OBVIOUS
  <2> HIDE DEF Q
  <2> QED BY ONLY <2>1, AppendFacts, LenProperties DEF t, n
<1> HIDE DEF t
<1>2. t # <<>> BY <1>1, EmptySeq
<1>3. PICK g : Running(t, g) /\ FlattenSeq(t) = g[Len(t)]
  BY <1>1, <1>2, FlattenIs
<1>4. \A i \in 1..n + 1 : g[i] = IF i = 1 THEN t[i] ELSE g[i - 1] \o t[i]
  BY <1>1, <1>3 DEF Running
<1>5. FlattenSeq(t) = g[n + 1] BY <1>1, <1>3
<1>6. CASE n = 0
  <2>1. s = <<>> BY <1>6, EmptySeq
  <2>2. g[1] = x BY <1>1, <1>4, <1>6
  <2>3. FlattenSeq(s) \o x = x BY <2>1, FlattenEmpty, ConcatEmptySeq
  <2> QED BY <1>1, <1>5, <1>6, <2>2, <2>3 DEF t
<1>7. CASE n # 0
  <2>1. s # <<>> BY <1>7, EmptySeq
  <2>2. PICK f : Running(s, f) /\ FlattenSeq(s) = f[n]
    BY <2>1, FlattenIs
  <2>3. \A i \in 1..n : f[i] = IF i = 1 THEN s[i] ELSE f[i - 1] \o s[i]
    BY <2>2 DEF Running
  <2> DEFINE T == {m \in Nat : m + 1 <= n => f[m + 1] = g[m + 1]}
  <2>4. 0 \in T BY <1>1, <1>4, <1>7, <2>3
  <2>5. ASSUME NEW m \in Nat, m \in T PROVE m + 1 \in T
    <3> SUFFICES ASSUME m + 1 + 1 <= n PROVE f[m + 1 + 1] = g[m + 1 + 1]
      OBVIOUS
    <3> DEFINE k == m + 1 + 1
    <3>1. k \in 1..n /\ k \in 1..n + 1 /\ k # 1 /\ k - 1 = m + 1 BY <1>1
    <3>2. f[m + 1] = g[m + 1] BY <1>1, <2>5
    <3> HIDE DEF k
    <3>3. f[k] = f[k - 1] \o s[k] /\ g[k] = g[k - 1] \o t[k] /\ t[k] = s[k]
      BY <1>1, <1>4, <2>3, <3>1
    <3>4. f[k] = g[k] BY <3>1, <3>2, <3>3
    <3> QED BY <3>4 DEF k
  <2>6. Nat \subseteq T
    <3> HIDE DEF T
    <3> QED BY <2>4, <2>5, SetInduction
  <2>7. f[n] = g[n]
    <3>1. n - 1 \in Nat BY <1>1, <1>7
    <3>2. n - 1 \in T BY <2>6, <3>1
    <3> QED BY <1>1, <3>2
  <2>8. g[n + 1] = g[n] \o x
    <3> DEFINE k == n + 1
    <3>1. k \in 1..n + 1 /\ k # 1 /\ k - 1 = n BY <1>1, <1>7
    <3> HIDE DEF k
    <3>2. g[k] = g[k - 1] \o t[k] BY <1>4, <3>1
    <3> QED BY <1>1, <3>1, <3>2 DEF k
  <2> QED BY <1>5, <2>2, <2>7, <2>8 DEF t
<1> QED BY <1>1, <1>6, <1>7 DEF t

\* A beginning and what follows it are the longer beginning.
LEMMA BeginningJoins ==
    ASSUME NEW S, NEW s \in Seq(S), NEW a \in 0..Len(s), NEW b \in a..Len(s)
    PROVE  /\ SubSeq(s, a + 1, b) \in Seq(S)
           /\ Len(SubSeq(s, a + 1, b)) = b - a
           /\ SubSeq(s, 1, a) \o SubSeq(s, a + 1, b) = SubSeq(s, 1, b)
<1>1. Len(s) \in Nat /\ a \in Nat /\ b \in Nat /\ a <= b /\ b <= Len(s) /\ \A i \in 1..Len(s) : s[i] \in S
  BY LenProperties, ElementOfSeq
<1> DEFINE p == SubSeq(s, 1, a)
           q == SubSeq(s, a + 1, b)
           r == SubSeq(s, 1, b)
<1>2. p \in Seq(S) /\ Len(p) = a /\ \A i \in 1..a : p[i] = s[i] BY <1>1
<1>3. q \in Seq(S) /\ Len(q) = b - a /\ \A i \in 1..b - a : q[i] = s[a + i]
  BY <1>1
<1>4. r \in Seq(S) /\ Len(r) = b /\ \A i \in 1..b : r[i] = s[i] BY <1>1
<1> HIDE DEF p, q, r
<1>5. p \o q \in Seq(S) /\ Len(p \o q) = b
      /\ \A i \in 1..b : (p \o q)[i] = IF i <= a THEN p[i] ELSE q[i - a]
  <2>1. /\ p \o q \in Seq(S)
        /\ Len(p \o q) = Len(p) + Len(q)
        /\ \A i \in 1..Len(p) + Len(q) : (p \o q)[i] = IF i <= Len(p) THEN p[i] ELSE q[i - Len(p)]
    BY ONLY <1>2, <1>3, ConcatProperties
  <2>2. Len(p) + Len(q) = b BY <1>1, <1>2, <1>3
  <2> QED BY <1>2, <2>1, <2>2
<1>6. \A i \in 1..b : (p \o q)[i] = r[i]
  <2> TAKE i \in 1..b
  <2>1. CASE i <= a BY <1>1, <1>2, <1>4, <1>5, <2>1
  <2>2. CASE ~(i <= a)
    <3>1. i - a \in 1..b - a /\ a + (i - a) = i BY <1>1, <2>2
    <3> QED BY <1>3, <1>4, <1>5, <2>2, <3>1
  <2> QED BY <2>1, <2>2
<1>7. p \o q = r BY <1>4, <1>5, <1>6, SeqEqual
<1> QED BY <1>3, <1>7 DEF p, q, r

\* What two sequences hold together.
LEMMA ToSetConcat ==
    ASSUME NEW S, NEW s \in Seq(S), NEW t \in Seq(S), NEW x
    PROVE  /\ x \in ToSet(s) => x \in ToSet(s \o t)
           /\ x \in ToSet(t) => x \in ToSet(s \o t)
<1> DEFINE u == s \o t
           m == Len(s)
           n == Len(t)
<1>1. /\ m \in Nat /\ n \in Nat /\ DOMAIN s = 1..m /\ DOMAIN t = 1..n
      /\ u \in Seq(S) /\ Len(u) = m + n /\ DOMAIN u = 1..m + n
      /\ \A i \in 1..m + n : u[i] = IF i <= m THEN s[i] ELSE t[i - m]
  BY ConcatProperties, LenProperties
<1> HIDE DEF u
<1>2. ASSUME NEW i \in 1..m PROVE s[i] \in ToSet(u)
  <2>1. i \in 1..m + n /\ i <= m BY <1>1
  <2>2. u[i] = s[i] BY <1>1, <2>1
  <2> QED BY <1>1, <2>1, <2>2 DEF ToSet
<1>3. ASSUME NEW i \in 1..n PROVE t[i] \in ToSet(u)
  <2> DEFINE j == i + m
  <2>1. j \in 1..m + n /\ ~(j <= m) /\ j - m = i BY <1>1
  <2> HIDE DEF j
  <2>2. u[j] = t[j - m] BY <1>1, <2>1
  <2> QED BY <1>1, <2>1, <2>2 DEF ToSet
<1>4. x \in ToSet(s) => x \in ToSet(u) BY <1>1, <1>2 DEF ToSet
<1>5. x \in ToSet(t) => x \in ToSet(u) BY <1>1, <1>3 DEF ToSet
<1> QED BY <1>4, <1>5 DEF u

\* Of two elements that are kept the later one is not the first.
LEMMA ThoseLater ==
    ASSUME NEW S, NEW s \in Seq(S), NEW keep, NEW i \in 1..Len(s), NEW j \in i + 1..Len(s),
           i \in keep, j \in keep
    PROVE  \E k \in DOMAIN Those(s, keep) : k > 1 /\ Those(s, keep)[k] = s[j]
<1> DEFINE n == Len(s)
           B(m) == Those(SubSeq(s, 1, m), keep)
           T == {m \in Nat : (i <= m /\ m <= n) => Len(B(m)) >= 1}
           U == {m \in Nat : (j <= m /\ m <= n) => \E k \in 2..Len(B(m)) : B(m)[k] = s[j]}
<1>1. n \in Nat /\ i \in Nat /\ j \in Nat /\ 1 <= i /\ i < j /\ j <= n
  BY LenProperties
<1>2. ASSUME NEW m \in 0..n PROVE B(m) \in Seq(S) /\ Len(B(m)) \in Nat
  BY <1>2, ThoseBeginningType, LenProperties
<1>3. ASSUME NEW m \in Nat, m + 1 <= n
      PROVE  B(m + 1) = IF m + 1 \in keep THEN Append(B(m), s[m + 1]) ELSE B(m)
  <2> DEFINE l == m + 1
  <2>1. l \in 1..n /\ l - 1 = m BY <1>1, <1>3
  <2> HIDE DEF l
  <2>2. Those(SubSeq(s, 1, l), keep)
          = IF l \in keep THEN Append(Those(SubSeq(s, 1, l - 1), keep), s[l]) ELSE Those(SubSeq(s, 1, l - 1), keep)
    BY <2>1, ThoseBeginning
  <2> QED BY <2>1, <2>2 DEF l
<1>4. ASSUME NEW m \in Nat, m + 1 <= n
      PROVE  /\ m + 1 \in keep => /\ Len(B(m + 1)) = Len(B(m)) + 1
                                  /\ B(m + 1)[Len(B(m)) + 1] = s[m + 1]
             /\ \A k \in 1..Len(B(m)) : B(m + 1)[k] = B(m)[k]
             /\ Len(B(m + 1)) >= Len(B(m))
             /\ Len(B(m)) \in Nat
  <2> DEFINE b == B(m)
             c == B(m + 1)
             x == s[m + 1]
  <2>1. b \in Seq(S) /\ Len(b) \in Nat /\ x \in S
    <3>1. m \in 0..n /\ m + 1 \in 1..n BY <1>1, <1>4
    <3> QED BY <1>2, <3>1, ElementOfSeq
  <2>2. c = IF m + 1 \in keep THEN Append(b, x) ELSE b BY <1>3, <1>4
  <2> HIDE DEF b, c, x
  <2>3. /\ Len(Append(b, x)) = Len(b) + 1 /\ Append(b, x)[Len(b) + 1] = x
        /\ \A k \in 1..Len(b) : Append(b, x)[k] = b[k]
    BY <2>1, AppendProperties
  <2>4. m + 1 \in keep => Len(c) = Len(b) + 1 /\ c[Len(b) + 1] = x
    BY <2>2, <2>3
  <2>5. \A k \in 1..Len(b) : c[k] = b[k] BY <2>2, <2>3
  <2>6. Len(c) >= Len(b) BY <2>1, <2>2, <2>3
  <2> QED BY <2>1, <2>4, <2>5, <2>6 DEF b, c, x
<1>5. Nat \subseteq T
  <2>1. 0 \in T BY <1>1
  <2>2. ASSUME NEW m \in Nat, m \in T PROVE m + 1 \in T
    <3> SUFFICES ASSUME i <= m + 1, m + 1 <= n PROVE Len(B(m + 1)) >= 1
      OBVIOUS
    <3> DEFINE b == Len(B(m))
               c == Len(B(m + 1))
    <3>1. b \in Nat /\ c >= b /\ (m + 1 \in keep => c = b + 1) BY <1>4
    <3>2. i <= m => b >= 1 BY <1>1, <2>2
    <3>3. i = m + 1 \/ i <= m BY <1>1
    <3> HIDE DEF b, c
    <3>4. CASE i = m + 1
      <4>1. c = b + 1 BY <3>1, <3>4
      <4> QED BY <3>1, <4>1 DEF c
    <3>5. CASE i <= m
      <4>1. b >= 1 /\ c >= b /\ c \in Nat
        <5>1. c \in Nat
          <6>1. m + 1 \in 0..n BY <1>1
          <6> QED BY <1>2, <6>1 DEF c
        <5> QED BY <3>1, <3>2, <3>5, <5>1
      <4>2. c >= 1 BY <3>1, <4>1
      <4> QED BY <4>2 DEF c
    <3> QED BY <3>3, <3>4, <3>5
  <2> HIDE DEF T
  <2> QED BY <2>1, <2>2, SetInduction
<1>6. n \in U
  <2>1. 0 \in U BY <1>1
  <2>2. ASSUME NEW m \in Nat, m \in U PROVE m + 1 \in U
    <3> SUFFICES ASSUME j <= m + 1, m + 1 <= n PROVE \E k \in 2..Len(B(m + 1)) : B(m + 1)[k] = s[j]
      OBVIOUS
    <3> DEFINE b == Len(B(m))
               c == Len(B(m + 1))
    <3>1. /\ b \in Nat /\ c >= b /\ (m + 1 \in keep => c = b + 1 /\ B(m + 1)[b + 1] = s[m + 1])
          /\ \A k \in 1..b : B(m + 1)[k] = B(m)[k]
      BY <1>4
    <3>2. c \in Nat
      <4>1. m + 1 \in 0..n BY <1>1
      <4> QED BY <1>2, <4>1
    <3>3. i <= m => b >= 1
      <4>1. SUFFICES ASSUME i <= m PROVE b >= 1 OBVIOUS
      <4>2. m \in T
        <5> HIDE DEF T
        <5> QED BY <1>5
      <4> QED BY <1>1, <4>1, <4>2
    <3>4. CASE j = m + 1
      <4>1. b >= 1 /\ c = b + 1 /\ B(m + 1)[b + 1] = s[j]
        BY <1>1, <3>1, <3>3, <3>4
      <4> HIDE DEF b
      <4>2. b + 1 \in 2..c BY <3>1, <4>1
      <4> QED BY <4>1, <4>2
    <3>5. CASE j <= m
      <4>1. PICK k \in 2..b : B(m)[k] = s[j] BY <1>1, <2>2, <3>5
      <4> HIDE DEF b, c
      <4>2. k \in 2..c /\ k \in 1..b BY <3>1, <3>2, <4>1
      <4>3. B(m + 1)[k] = s[j] BY <3>1, <4>1, <4>2 DEF b
      <4> QED BY <4>2, <4>3 DEF c
    <3> QED BY <1>1, <3>4, <3>5
  <2> HIDE DEF U
  <2> QED BY <1>1, <2>1, <2>2, SetInduction
<1>7. PICK k \in 2..Len(B(n)) : B(n)[k] = s[j] BY <1>1, <1>6
<1>8. B(n) = Those(s, keep) BY Beginnings
<1>9. DOMAIN Those(s, keep) = 1..Len(Those(s, keep)) /\ Len(Those(s, keep)) \in Nat
  BY ThoseType, LenProperties
<1> HIDE DEF B
<1>10. k \in 1..Len(Those(s, keep)) /\ k > 1 BY <1>7, <1>8, <1>9
<1> QED BY <1>7, <1>8, <1>9, <1>10

\* What is taken at positions all before others comes before what is taken at those.
LEMMA ThoseConcat ==
    ASSUME NEW S, NEW s \in Seq(S), NEW A, NEW B, \A a \in A, b \in B : a < b,
           A \subseteq Int, B \subseteq Int
    PROVE  Those(s, A \cup B) = Those(s, A) \o Those(s, B)
<1> DEFINE n == Len(s)
           C == A \cup B
           F(m, D) == Those(SubSeq(s, 1, m), D)
           Joins(m) == F(m, C) = F(m, A) \o F(m, B)
           T == {m \in Nat : m <= n => Joins(m)}
<1>1. n \in Nat /\ SubSeq(s, 1, n) = s /\ SubSeq(s, 1, 0) = <<>>
  BY LenProperties, Beginnings
<1>2. 0 \in T
  <2>1. <<>> \o <<>> = <<>>
    <3>1. <<>> \in Seq({}) BY EmptySeq
    <3> QED BY <3>1, ConcatEmptySeq
  <2> QED BY <1>1, <2>1, ThoseEmpty
<1>3. ASSUME NEW m \in Nat, m \in T PROVE m + 1 \in T
  <2> SUFFICES ASSUME m + 1 <= n PROVE Joins(m + 1)
    <3> HIDE DEF Joins
    <3> QED OBVIOUS
  <2> DEFINE l == m + 1
             x == s[l]
  <2>1. l \in 1..n /\ l - 1 = m /\ m \in 0..n /\ m <= n BY <1>1
  <2>2. F(m, C) = F(m, A) \o F(m, B) BY <1>3, <2>1
  <2>3. ASSUME NEW D PROVE F(l, D) = IF l \in D THEN Append(F(m, D), x) ELSE F(m, D)
    <3> HIDE DEF l, n
    <3>1. l \in 1..Len(s) /\ l - 1 = m BY <2>1 DEF n
    <3>2. Those(SubSeq(s, 1, l), D)
            = IF l \in D THEN Append(Those(SubSeq(s, 1, l - 1), D), s[l]) ELSE Those(SubSeq(s, 1, l - 1), D)
      BY <3>1, ThoseBeginning
    <3> QED BY <3>1, <3>2
  <2>4. ASSUME NEW D PROVE F(m, D) \in Seq(S)
    BY <2>1, ThoseBeginningType
  <2>5. x \in S BY <2>1, ElementOfSeq
  <2> DEFINE a == F(m, A)
             b == F(m, B)
  <2>6. a \in Seq(S) /\ b \in Seq(S) BY <2>4
  <2>7. CASE l \in B
    <3>1. l \notin A BY <2>7
    <3>2. F(l, C) = Append(a \o b, x) /\ F(l, A) = a /\ F(l, B) = Append(b, x)
      <4> HIDE DEF F, l, x
      <4> QED BY <2>2, <2>3, <2>7, <3>1
    <3> HIDE DEF a, b, F, x
    <3>3. a \o Append(b, x) = Append(a \o b, x)
      <4>1. a \in Seq(S) /\ b \in Seq(S) /\ x \in S BY <2>5, <2>6
      <4> QED BY ONLY <4>1, ConcatAppend
    <3> QED BY <3>2, <3>3
  <2>8. CASE l \notin B /\ l \in A
    <3>1. b = <<>>
      <4> DEFINE u == SubSeq(s, 1, m)
      <4>1. u \in Seq(S) /\ DOMAIN u = 1..m
        <5>1. u \in Seq(S) /\ Len(u) = m BY <1>1, <2>1, SubSeqProperties
        <5> QED BY <5>1, LenProperties
      <4>2. ASSUME NEW k \in DOMAIN u PROVE k \in B <=> k \in {}
        <5>1. k < l /\ k \in Int BY <4>1, <4>2
        <5>2. k \in B => l < k BY <2>8
        <5>3. l \in Int BY <2>1
        <5> HIDE DEF l
        <5> QED BY <5>1, <5>2, <5>3
      <4> HIDE DEF u
      <4>3. Those(u, B) = Those(u, {}) BY <4>1, <4>2, ThoseAgree
      <4>4. Those(u, {}) = <<>> BY <4>1, ThoseNone
      <4> QED BY <4>3, <4>4 DEF u
    <3>2. F(l, C) = Append(a \o b, x) /\ F(l, A) = Append(a, x) /\ F(l, B) = b
      <4> HIDE DEF F, l, x
      <4> QED BY <2>2, <2>3, <2>8
    <3> HIDE DEF a, b, F, x
    <3>3. a \o <<>> = a /\ Append(a, x) \in Seq(S) /\ Append(a, x) \o <<>> = Append(a, x)
      <4>1. Append(a, x) \in Seq(S) BY <2>5, <2>6, AppendProperties
      <4> QED BY <2>6, <4>1, ConcatEmptySeq
    <3> QED BY <3>1, <3>2, <3>3
  <2>9. CASE l \notin B /\ l \notin A
    <3> HIDE DEF F, l, x
    <3> QED BY <2>2, <2>3, <2>9 DEF l
  <2> QED BY <2>7, <2>8, <2>9
<1>4. n \in T
  <2> HIDE DEF T
  <2> QED BY <1>1, <1>2, <1>3, SetInduction
<1>5. Joins(n)
  <2>1. n \in Nat /\ n <= n BY <1>1
  <2> HIDE DEF Joins
  <2> QED BY <1>4, <2>1
<1> QED BY <1>1, <1>5

\* The positions of a record are listed as they are.
LEMMA ListedIs ==
    ASSUME NEW n \in Nat
    PROVE  LET s == [i \in 1..n |-> i]
           IN  s \in Seq(1..n) /\ Len(s) = n /\ DOMAIN s = 1..n /\ \A i \in 1..n : s[i] = i
<1> DEFINE s == [i \in 1..n |-> i]
           S == 1..n
<1>1. s = [i \in 1..n |-> s[i]] /\ \A i \in 1..n : s[i] \in S OBVIOUS
<1>2. DOMAIN s = 1..n /\ \A i \in 1..n : s[i] = i OBVIOUS
<1> HIDE DEF s, S
<1>3. s \in Seq(S) /\ Len(s) = n BY ONLY n \in Nat, <1>1, SeqOfFunction
<1> QED BY <1>2, <1>3 DEF s, S

\* What is listed are positions.
LEMMA ListedType ==
    ASSUME NEW n \in Nat, NEW A
    PROVE  Listed(n, A) \in Seq(1..n)
<1> DEFINE S == 1..n
<1>1. [i \in 1..n |-> i] \in Seq(S) BY ListedIs
<1> HIDE DEF S
<1>2. Listed(n, A) \in Seq(S) BY <1>1, ThoseType DEF Listed
<1> QED BY <1>2 DEF S

\* Only the positions of the record count.
LEMMA ListedAgree ==
    ASSUME NEW n \in Nat, NEW A, NEW B, \A i \in 1..n : i \in A <=> i \in B
    PROVE  Listed(n, A) = Listed(n, B)
<1> DEFINE S == 1..n
           s == [i \in 1..n |-> i]
<1>1. s \in Seq(S) /\ \A k \in DOMAIN s : k \in A <=> k \in B
  BY ListedIs
<1> HIDE DEF S, s
<1>2. Those(s, A) = Those(s, B) BY <1>1, ThoseAgree
<1> QED BY <1>2 DEF Listed, s

\* Positions that come before others are listed before them.
LEMMA ListedConcat ==
    ASSUME NEW n \in Nat, NEW A \in SUBSET Int, NEW B \in SUBSET Int, \A a \in A, b \in B : a < b
    PROVE  Listed(n, A \cup B) = Listed(n, A) \o Listed(n, B)
<1> DEFINE S == 1..n
           s == [i \in 1..n |-> i]
<1>1. s \in Seq(S) BY ListedIs
<1> HIDE DEF S, s
<1>2. Those(s, A \cup B) = Those(s, A) \o Those(s, B)
  BY <1>1, ThoseConcat
<1> QED BY <1>2 DEF Listed, s

\* No position is a delimiter.
LEMMA ListedShown ==
    ASSUME NEW n \in Nat, NEW A
    PROVE  LET s == Listed(n, A) IN Those(s, {k \in DOMAIN s : s[k] # 0}) = s
<1> DEFINE s == Listed(n, A)
           S == 1..n
           keep == {k \in DOMAIN s : s[k] # 0}
<1>1. s \in Seq(S) /\ 0 \notin S BY ListedType
<1> HIDE DEF s, S
<1>2. DOMAIN s \subseteq keep BY <1>1, ElementOfSeq, LenProperties
<1> HIDE DEF keep
<1>3. Those(s, keep) = s BY <1>1, <1>2, ThoseAll
<1> QED BY <1>3 DEF s, keep

\* As many elements are chosen as there are positions to choose them at.
LEMMA ThoseLength ==
    ASSUME NEW S, NEW s \in Seq(S), NEW keep, keep \subseteq 1..Len(s)
    PROVE  /\ Those(s, keep) \in Seq(S)
           /\ Len(Those(s, keep)) = Cardinality(keep)
           /\ IsFiniteSet(keep) /\ Cardinality(keep) \in Nat
<1> DEFINE K(n) == keep \cap 1..n
           T == {n \in Nat : n <= Len(s) => /\ IsFiniteSet(K(n)) /\ Cardinality(K(n)) \in Nat
                                            /\ Len(Those(SubSeq(s, 1, n), keep)) = Cardinality(K(n))}
<1>1. 0 \in T
  <2>1. K(0) = {} OBVIOUS
  <2>2. SubSeq(s, 1, 0) = <<>> BY Beginnings
  <2>3. Those(<<>>, keep) = <<>> BY ThoseEmpty
  <2>4. Len(Those(SubSeq(s, 1, 0), keep)) = 0
    <3> DEFINE b == SubSeq(s, 1, 0)
               e == <<>>
    <3>1. b = e /\ Those(e, keep) = e /\ Len(e) = 0 BY <2>2, <2>3
    <3> HIDE DEF b, e
    <3>2. Len(Those(b, keep)) = 0 BY <3>1
    <3> QED BY <3>2 DEF b
  <2>5. IsFiniteSet({}) /\ Cardinality({}) = 0 BY FS_EmptySet
  <2>6. IsFiniteSet(K(0)) /\ Cardinality(K(0)) = 0
    <3> HIDE DEF K
    <3> QED BY <2>1, <2>5
  <2> HIDE DEF K
  <2> QED BY <2>4, <2>6
<1>2. ASSUME NEW n \in Nat, n \in T PROVE n + 1 \in T
  <2> SUFFICES ASSUME n + 1 <= Len(s)
               PROVE  /\ IsFiniteSet(K(n + 1)) /\ Cardinality(K(n + 1)) \in Nat
                      /\ Len(Those(SubSeq(s, 1, n + 1), keep)) = Cardinality(K(n + 1))
    OBVIOUS
  <2>1. IsFiniteSet(K(n)) /\ Cardinality(K(n)) \in Nat /\ Len(Those(SubSeq(s, 1, n), keep)) = Cardinality(K(n))
    BY <1>2
  <2>2. n + 1 \in 1..Len(s) /\ (n + 1) - 1 = n /\ n \in 0..Len(s)
    OBVIOUS
  <2>3. Those(SubSeq(s, 1, n + 1), keep) = IF n + 1 \in keep THEN Append(Those(SubSeq(s, 1, n), keep), s[n + 1])
                                           ELSE Those(SubSeq(s, 1, n), keep)
    BY <2>2, ThoseBeginning
  <2>4. Those(SubSeq(s, 1, n), keep) \in Seq(S)
    BY <2>2, ThoseBeginningType
  <2>5. CASE n + 1 \in keep
    <3>1. K(n + 1) = K(n) \cup {n + 1} /\ n + 1 \notin K(n) BY <2>5
    <3>2. IsFiniteSet(K(n + 1)) /\ Cardinality(K(n + 1)) = Cardinality(K(n)) + 1
      <4> HIDE DEF K
      <4> QED BY <3>1, <2>1, FS_AddElement
    <3>3. Len(Append(Those(SubSeq(s, 1, n), keep), s[n + 1])) = Len(Those(SubSeq(s, 1, n), keep)) + 1
      BY <2>4
    <3> HIDE DEF K
    <3> QED BY <2>1, <2>3, <2>5, <3>2, <3>3
  <2>6. CASE n + 1 \notin keep
    <3>1. K(n + 1) = K(n) BY <2>6
    <3> QED BY <3>1, <2>1, <2>3, <2>6
  <2> QED BY <2>5, <2>6
<1>3. Nat \subseteq T
  <2> HIDE DEF T
  <2> QED BY <1>1, <1>2, SetInduction
<1>4. Len(s) \in Nat /\ Len(s) \in T BY <1>3
<1>5. K(Len(s)) = keep OBVIOUS
<1>6. Those(s, keep) \in Seq(S) BY ThoseType
<1>7. SubSeq(s, 1, Len(s)) = s BY Beginnings
<1>8. /\ IsFiniteSet(K(Len(s))) /\ Cardinality(K(Len(s))) \in Nat
      /\ Len(Those(SubSeq(s, 1, Len(s)), keep)) = Cardinality(K(Len(s)))
  BY <1>4
<1> HIDE DEF K
<1> QED BY <1>5, <1>6, <1>7, <1>8

\* An element more is in the set of the elements.
LEMMA ToSetAppend ==
    ASSUME NEW S, NEW s \in Seq(S), NEW e \in S
    PROVE  ToSet(Append(s, e)) = ToSet(s) \cup {e}
<1> DEFINE t == Append(s, e)
<1>1. DOMAIN t = 1..Len(s) + 1 /\ t[Len(s) + 1] = e /\ Len(s) \in Nat /\ DOMAIN s = 1..Len(s)
  BY AppendFacts
<1>2. \A i \in 1..Len(s) : t[i] = s[i] BY AppendFacts
<1> HIDE DEF t
<1>3. \A x : x \in ToSet(t) <=> \E i \in 1..Len(s) + 1 : x = t[i]
  BY <1>1 DEF ToSet
<1>4. \A x : x \in ToSet(s) <=> \E i \in 1..Len(s) : x = s[i]
  BY <1>1 DEF ToSet
<1>5. \A i : i \in 1..Len(s) + 1 <=> i \in 1..Len(s) \/ i = Len(s) + 1
  BY <1>1
<1>6. \A x : x \in ToSet(t) <=> x \in ToSet(s) \/ x = e
  BY <1>1, <1>2, <1>3, <1>4, <1>5
<1> QED BY <1>6 DEF t

\* An element at one of the positions.
Picked(s, keep, x) == \E k \in keep : x = s[k]

\* What is chosen are the elements at the positions.
LEMMA ThoseSet ==
    ASSUME NEW S, NEW s \in Seq(S), NEW keep, keep \subseteq 1..Len(s), NEW x
    PROVE  x \in ToSet(Those(s, keep)) <=> Picked(s, keep, x)
<1> DEFINE E(n) == ToSet(Those(SubSeq(s, 1, n), keep))
           T == {n \in Nat : n <= Len(s) => (x \in E(n) <=> \E k \in keep : k <= n /\ x = s[k])}
<1>1. 0 \in T
  <2>2. SubSeq(s, 1, 0) = <<>> BY Beginnings
  <2>3. Those(<<>>, keep) = <<>> BY ThoseEmpty
  <2>4. E(0) = {}
    <3>1. ToSet(<<>>) = {} BY DEF ToSet
    <3> QED BY <2>2, <2>3, <3>1
  <2>5. \A k \in keep : ~(k <= 0) OBVIOUS
  <2> HIDE DEF E
  <2> QED BY <2>4, <2>5
<1>2. ASSUME NEW n \in Nat, n \in T PROVE n + 1 \in T
  <2> SUFFICES ASSUME n + 1 <= Len(s)
               PROVE  x \in E(n + 1) <=> \E k \in keep : k <= n + 1 /\ x = s[k]
    OBVIOUS
  <2>1. x \in E(n) <=> \E k \in keep : k <= n /\ x = s[k] BY <1>2
  <2>2. n + 1 \in 1..Len(s) /\ (n + 1) - 1 = n /\ n \in 0..Len(s)
    OBVIOUS
  <2>3. Those(SubSeq(s, 1, n + 1), keep) = IF n + 1 \in keep THEN Append(Those(SubSeq(s, 1, n), keep), s[n + 1])
                                           ELSE Those(SubSeq(s, 1, n), keep)
    BY <2>2, ThoseBeginning
  <2>4. Those(SubSeq(s, 1, n), keep) \in Seq(S)
    BY <2>2, ThoseBeginningType
  <2>5. x \in E(n + 1) <=> x \in E(n) \/ (n + 1 \in keep /\ x = s[n + 1])
    <3>1. CASE n + 1 \in keep
      <4> DEFINE u == Those(SubSeq(s, 1, n), keep)
      <4>1. s[n + 1] \in S BY <2>2
      <4>2. ToSet(Append(u, s[n + 1])) = ToSet(u) \cup {s[n + 1]}
        <5>1. u \in Seq(S) BY <2>4
        <5> HIDE DEF u
        <5> QED BY <5>1, <4>1, ToSetAppend
      <4> QED BY <3>1, <4>2, <2>3
    <3>2. CASE n + 1 \notin keep BY <3>2, <2>3
    <3> QED BY <3>1, <3>2
  <2>6. \A k \in keep : k <= n + 1 <=> k <= n \/ k = n + 1 OBVIOUS
  <2> HIDE DEF E
  <2> QED BY <2>1, <2>5, <2>6
<1>3. Nat \subseteq T
  <2> HIDE DEF T
  <2> QED BY <1>1, <1>2, SetInduction
<1>4. Len(s) \in Nat /\ Len(s) \in T BY <1>3
<1>5. SubSeq(s, 1, Len(s)) = s BY Beginnings
<1>6. \A k \in keep : k <= Len(s) OBVIOUS
<1>7. x \in E(Len(s)) <=> \E k \in keep : k <= Len(s) /\ x = s[k]
  BY <1>4
<1> QED BY <1>5, <1>6, <1>7 DEF Picked

\* Elements are counted by their positions.
LEMMA HowManyIs ==
    ASSUME NEW S, NEW s \in Seq(S), NEW A
    PROVE  HowMany(s, A) = Cardinality({k \in DOMAIN s : s[k] \in A})
<1> DEFINE keep == {k \in DOMAIN s : s[k] \in A}
<1>1. keep \subseteq 1..Len(s) OBVIOUS
<1> HIDE DEF keep
<1>2. Len(Those(s, keep)) = Cardinality(keep) BY <1>1, ThoseLength
<1> QED BY <1>2 DEF keep, HowMany, In

\* One position chooses one element.
LEMMA ThoseOne ==
    ASSUME NEW S, NEW s \in Seq(S), NEW k \in 1..Len(s)
    PROVE  Those(s, {k}) = <<s[k]>>
<1> DEFINE A == {k}
           u == Those(s, A)
           x == s[k]
<1>1. A \subseteq 1..Len(s) /\ IsFiniteSet(A) /\ Cardinality(A) = 1
  BY FS_Singleton
<1>2. k \in A /\ \A m \in A : m = k OBVIOUS
<1> HIDE DEF A
<1>3. Len(u) = 1 /\ u \in Seq(S) BY <1>1, ThoseLength
<1>4. u[1] \in ToSet(u) BY <1>3, LenProperties DEF ToSet
<1>5. \A y : y \in ToSet(Those(s, A)) <=> \E m \in A : y = s[m]
  <2>1. A \subseteq 1..Len(s) BY <1>1
  <2> TAKE y
  <2>2. y \in ToSet(Those(s, A)) <=> Picked(s, A, y)
    BY ONLY <2>1, s \in Seq(S), ThoseSet
  <2> QED BY <2>2 DEF Picked
<1>6. u[1] = x BY <1>2, <1>4, <1>5
<1>7. x \in S BY ElementOfSeq
<1> HIDE DEF u, x
<1>8. u = <<x>>
  <2>1. <<x>> \in Seq(S) /\ Len(<<x>>) = 1 /\ <<x>>[1] = x BY <1>7
  <2> DEFINE v == <<x>>
  <2> HIDE DEF v
  <2>2. v \in Seq(S) /\ Len(v) = 1 /\ v[1] = x BY <2>1 DEF v
  <2>3. \A i \in 1..Len(u) : u[i] = v[i] BY <1>3, <1>6, <2>2
  <2>4. u = v BY <1>3, <2>2, <2>3, SeqEqual
  <2> QED BY <2>4 DEF v
<1> QED BY <1>8 DEF u, x, A

\* What follows the same sequence in two equal ones is the same.
LEMMA ConcatSame ==
    ASSUME NEW S, NEW p \in Seq(S), NEW v \in Seq(S), NEW q \in Seq(S), p \o v = p \o q
    PROVE  v = q
<1> DEFINE x == p \o v
           y == p \o q
           n == Len(p)
<1>1. n \in Nat /\ Len(v) \in Nat /\ Len(q) \in Nat BY LenProperties
<1>2. Len(x) = n + Len(v) /\ \A i \in 1..n + Len(v) : x[i] = IF i <= n THEN p[i] ELSE v[i - n]
  BY ConcatProperties
<1>3. Len(y) = n + Len(q) /\ \A i \in 1..n + Len(q) : y[i] = IF i <= n THEN p[i] ELSE q[i - n]
  BY ConcatProperties
<1>4. x = y OBVIOUS
<1> HIDE DEF x, y, n
<1>5. Len(v) = Len(q) BY <1>1, <1>2, <1>3, <1>4
<1>6. \A i \in 1..Len(v) : v[i] = q[i]
  <2> TAKE i \in 1..Len(v)
  <2>1. n + i \in 1..n + Len(v) /\ n + i \in 1..n + Len(q) /\ ~(n + i <= n) /\ (n + i) - n = i
    BY <1>1, <1>5
  <2>2. x[n + i] = v[i] BY <1>2, <2>1
  <2>3. y[n + i] = q[i] BY <1>3, <2>1
  <2> QED BY <1>4, <2>2, <2>3
<1> QED BY <1>5, <1>6, SeqEqual

\* The positions of a stretch choose the stretch.
LEMMA ThoseStretch ==
    ASSUME NEW S, NEW s \in Seq(S), NEW i \in 1..Len(s), NEW j \in i..Len(s)
    PROVE  Those(s, i..j) = SubSeq(s, i, j)
<1>0. Len(s) \in Nat BY LenProperties
<1> DEFINE a == i - 1
           A == 1..a
           B == i..j
           u == Those(s, A)
           v == Those(s, B)
           w == Those(s, A \cup B)
           p == SubSeq(s, 1, a)
           q == SubSeq(s, a + 1, j)
           r == SubSeq(s, 1, j)
           K(m) == 1..m
           T == {m \in Nat : m <= Len(s) => Those(s, K(m)) = SubSeq(s, 1, m)}
<1>1. 0 \in T
  <2>1. K(0) = {} OBVIOUS
  <2>2. Those(s, {}) = <<>> /\ SubSeq(s, 1, 0) = <<>>
    BY ThoseNone, Beginnings
  <2> HIDE DEF K
  <2> QED BY <2>1, <2>2
<1>2. ASSUME NEW m \in Nat, m \in T PROVE m + 1 \in T
  <2> SUFFICES ASSUME m + 1 <= Len(s) PROVE Those(s, K(m + 1)) = SubSeq(s, 1, m + 1)
    OBVIOUS
  <2>1. Those(s, K(m)) = SubSeq(s, 1, m) BY <1>0, <1>2
  <2>2. m + 1 \in 1..Len(s) /\ (m + 1) - 1 = m BY <1>0
  <2>3. SubSeq(s, 1, m + 1) = Append(SubSeq(s, 1, m), s[m + 1]) /\ SubSeq(s, 1, m) \in Seq(S)
    BY <2>2, Beginnings
  <2>4. K(m + 1) = K(m) \cup {m + 1} /\ K(m) \subseteq Int /\ \A x \in K(m), y \in {m + 1} : x < y
    OBVIOUS
  <2>5. Those(s, K(m) \cup {m + 1}) = Those(s, K(m)) \o Those(s, {m + 1})
    <3> DEFINE X == K(m)
               Y == {m + 1}
    <3>1. X \in SUBSET Int /\ Y \in SUBSET Int /\ \A x \in X, y \in Y : x < y
      OBVIOUS
    <3> HIDE DEF X, Y
    <3>2. Those(s, X \cup Y) = Those(s, X) \o Those(s, Y)
      BY <3>1, ThoseConcat
    <3> QED BY <3>2 DEF X, Y
  <2>6. Those(s, {m + 1}) = <<s[m + 1]>> BY <2>2, ThoseOne
  <2>7. s[m + 1] \in S BY <2>2, ElementOfSeq
  <2> DEFINE b == SubSeq(s, 1, m)
             y == s[m + 1]
  <2> HIDE DEF K, b, y
  <2>8. b \o <<y>> = Append(b, y)
    <3>1. b \in Seq(S) /\ y \in S BY <2>3, <2>7 DEF b, y
    <3> QED BY <3>1, AppendIsConcat
  <2> QED BY <2>1, <2>3, <2>4, <2>5, <2>6, <2>8 DEF b, y
<1>3. Nat \subseteq T
  <2> HIDE DEF T
  <2> QED BY <1>1, <1>2, SetInduction
<1>4. a \in Nat /\ j \in Nat /\ a \in T /\ j \in T /\ a <= Len(s) /\ j <= Len(s) /\ a <= j /\ a + 1 = i
  BY <1>0, <1>3
<1>5. u = p /\ K(j) = A \cup B /\ w = r
  <2>1. Those(s, K(a)) = SubSeq(s, 1, a) /\ Those(s, K(j)) = SubSeq(s, 1, j)
    BY <1>4
  <2>2. K(j) = A \cup B BY <1>0
  <2> HIDE DEF A, B
  <2> QED BY <2>1, <2>2 DEF A
<1>6. w = u \o v
  <2>1. A \in SUBSET Int /\ B \in SUBSET Int /\ \A x \in A, y \in B : x < y
    BY <1>0
  <2> HIDE DEF A, B
  <2> QED BY <2>1, ThoseConcat
<1>7. r = p \o q /\ q \in Seq(S) /\ p \in Seq(S)
  <2>1. a \in 0..Len(s) /\ j \in a..Len(s) BY <1>0
  <2> HIDE DEF a
  <2>2. q \in Seq(S) /\ p \o q = r BY <2>1, BeginningJoins
  <2>3. p \in Seq(S)
    <3>1. Those(s, K(a)) \in Seq(S)
      <4> HIDE DEF K
      <4> QED BY ThoseType
    <3>2. Those(s, K(a)) = p BY <1>4
    <3> QED BY <3>1, <3>2
  <2> QED BY <2>2, <2>3
<1>8. v \in Seq(S)
  <2> HIDE DEF B
  <2> QED BY ThoseType
<1> HIDE DEF u, v, w, p, q, r, A, B
<1>9. p \o v = p \o q BY <1>5, <1>6, <1>7
<1>10. v = q BY ONLY <1>7, <1>8, <1>9, ConcatSame
<1> QED BY <1>4, <1>10 DEF v, q, B

\* What is listed of a set of positions are these.
LEMMA ListedSet ==
    ASSUME NEW n \in Nat, NEW A, A \subseteq 1..n
    PROVE  /\ Listed(n, A) \in Seq(A)
           /\ Len(Listed(n, A)) = Cardinality(A) /\ IsFiniteSet(A) /\ Cardinality(A) \in Nat
           /\ ToSet(Listed(n, A)) = A
           /\ Listed(n, A) # <<>> <=> A # {}
<1> DEFINE s == [i \in 1..n |-> i]
           u == Listed(n, A)
           S == 1..n
<1>1. s \in Seq(S) /\ Len(s) = n /\ \A i \in 1..n : s[i] = i BY ListedIs
<1>2. u = Those(s, A) BY DEF Listed
<1> HIDE DEF s, u, S
<1>3. u \in Seq(S) /\ Len(u) = Cardinality(A) /\ IsFiniteSet(A) /\ Cardinality(A) \in Nat
  BY <1>1, <1>2, ThoseLength
<1>4. ASSUME NEW x PROVE x \in ToSet(u) <=> x \in A
  <2>1. x \in ToSet(Those(s, A)) <=> Picked(s, A, x) BY <1>1, ThoseSet
  <2>2. Picked(s, A, x) <=> x \in A BY <1>1 DEF Picked
  <2> QED BY <1>2, <2>1, <2>2
<1>5. DOMAIN u = 1..Len(u) /\ Len(u) \in Nat BY <1>3, LenProperties
<1>6. u \in Seq(A)
  <2>1. u = [i \in 1..Len(u) |-> u[i]] BY <1>3, <1>5
  <2>2. \A i \in 1..Len(u) : u[i] \in A
    <3>1. \A i \in 1..Len(u) : u[i] \in ToSet(u) BY <1>5 DEF ToSet
    <3> QED BY <1>4, <3>1
  <2> DEFINE k == Len(u)
  <2>3. k \in Nat /\ u = [i \in 1..k |-> u[i]] /\ \A i \in 1..k : u[i] \in A
    BY <1>5, <2>1, <2>2
  <2> HIDE DEF k
  <2> QED BY ONLY <2>3, SeqOfFunction
<1>7. u # <<>> <=> A # {}
  <2>1. u = <<>> <=> Len(u) = 0 BY <1>3, EmptySeq
  <2>2. Cardinality(A) = 0 <=> A = {} BY <1>3, FS_EmptySet
  <2> QED BY <1>3, <2>1, <2>2
<1> QED BY <1>3, <1>4, <1>6, <1>7 DEF u

\* The first q numbers of a set.
FirstOf(A, q) == {i \in A : Cardinality({k \in A : k <= i}) <= q}

\* They are so many, and come before the others.
LEMMA FirstOfIs ==
    ASSUME NEW n \in Nat, NEW A, A \subseteq 1..n, NEW q \in Nat
    PROVE  /\ \A i \in FirstOf(A, q), j \in A \ FirstOf(A, q) : i < j
           /\ q <= Cardinality(A) => Cardinality(FirstOf(A, q)) = q
           /\ Cardinality(A) <= q => FirstOf(A, q) = A
<1> DEFINE C(m) == {k \in A : k <= m}
           c(m) == Cardinality(C(m))
           E == FirstOf(A, q)
           F(m) == {k \in E : k <= m}
<1>0. \A k \in A : k \in Nat /\ 1 <= k /\ k <= n OBVIOUS
<1>1. IsFiniteSet(1..n) BY FS_Interval
<1>2. IsFiniteSet(A) /\ Cardinality(A) \in Nat
  BY <1>1, FS_Subset, FS_CardinalityType
<1>3. ASSUME NEW m PROVE IsFiniteSet(C(m)) /\ c(m) \in Nat /\ c(m) <= Cardinality(A)
  <2>1. C(m) \subseteq A OBVIOUS
  <2> HIDE DEF C
  <2> QED BY <1>2, <2>1, FS_Subset, FS_CardinalityType
<1>4. ASSUME NEW i \in Nat, NEW j \in Nat, i <= j PROVE c(i) <= c(j)
  <2>1. C(i) \subseteq C(j)
    <3>1. ASSUME NEW k \in A, k <= i PROVE k <= j
      <4>1. k \in Nat BY <1>0
      <4> QED BY <1>4, <3>1, <4>1
    <3> QED BY <3>1
  <2>2. IsFiniteSet(C(j)) BY <1>3
  <2> HIDE DEF C
  <2> QED BY <2>1, <2>2, FS_Subset
<1>5. ASSUME NEW i PROVE i \in E <=> i \in A /\ c(i) <= q BY DEF FirstOf
<1> HIDE DEF E
<1>6. ASSUME NEW i \in E, NEW j \in A \ E PROVE i < j
  <2>1. i \in A /\ c(i) <= q /\ ~(c(j) <= q) BY <1>5
  <2>2. i \in Nat /\ j \in Nat BY <1>0, <2>1
  <2>3. c(i) \in Nat /\ c(j) \in Nat BY <1>3
  <2>4. j <= i => c(j) <= c(i) BY <1>4, <2>2
  <2> HIDE DEF c
  <2> QED BY <2>1, <2>2, <2>3, <2>4
<1>7. ASSUME Cardinality(A) <= q PROVE E = A
  <2>1. ASSUME NEW i \in A PROVE i \in E
    <3>1. c(i) \in Nat /\ c(i) <= Cardinality(A) BY <1>3
    <3> HIDE DEF c
    <3>2. c(i) <= q BY <1>2, <1>7, <3>1
    <3> QED BY <1>5, <3>2
  <2> QED BY <1>5, <2>1
<1> DEFINE T == {m \in Nat : IsFiniteSet(F(m)) /\ Cardinality(F(m)) = IF c(m) <= q THEN c(m) ELSE q}
<1>8. IsFiniteSet({}) /\ Cardinality({}) = 0 BY FS_EmptySet
<1>9. 0 \in T
  <2>1. C(0) = {} /\ F(0) = {}
    <3>1. \A k \in A : ~(k <= 0) BY <1>0
    <3>2. \A k \in E : k \in A BY <1>5
    <3> QED BY <3>1, <3>2
  <2> HIDE DEF C, F
  <2> QED BY <1>8, <2>1
<1>10. ASSUME NEW m \in Nat, m \in T PROVE m + 1 \in T
  <2> DEFINE x == m + 1
  <2>0. IsFiniteSet(F(m)) /\ Cardinality(F(m)) = IF c(m) <= q THEN c(m) ELSE q
    BY <1>10
  <2>1. x \in Nat /\ \A k \in A : k <= x <=> k <= m \/ k = x BY <1>0
  <2>2. C(x) = IF x \in A THEN C(m) \cup {x} ELSE C(m) BY <2>1
  <2>3. F(x) = IF x \in E THEN F(m) \cup {x} ELSE F(m) BY <1>5, <2>1
  <2>4. x \notin C(m) /\ x \notin F(m) BY <1>0
  <2>5. IsFiniteSet(C(m)) /\ c(m) \in Nat BY <1>3
  <2>6. x \in E <=> x \in A /\ c(x) <= q BY <1>5
  <2> HIDE DEF x, C, F
  <2>7. c(x) = IF x \in A THEN c(m) + 1 ELSE c(m)
    BY <2>2, <2>4, <2>5, FS_AddElement
  <2>8. IsFiniteSet(F(x)) /\ Cardinality(F(x)) = IF x \in E THEN Cardinality(F(m)) + 1 ELSE Cardinality(F(m))
    BY <2>0, <2>3, <2>4, FS_AddElement
  <2> HIDE DEF c
  <2>9. Cardinality(F(x)) = IF c(x) <= q THEN c(x) ELSE q
    BY <2>0, <2>5, <2>6, <2>7, <2>8
  <2>10. x \in T BY <2>1, <2>8, <2>9
  <2> QED BY <2>10 DEF x
<1>11. n \in T
  <2>1. Nat \subseteq T
    <3> HIDE DEF T
    <3> QED BY <1>9, <1>10, SetInduction
  <2> HIDE DEF T
  <2> QED BY <2>1
<1>12. C(n) = A /\ F(n) = E
  <2>1. \A k \in E : k \in A BY <1>5
  <2> QED BY <1>0, <2>1
<1>13. ASSUME q <= Cardinality(A) PROVE Cardinality(E) = q
  <2>1. Cardinality(F(n)) = IF c(n) <= q THEN c(n) ELSE q BY <1>11
  <2>2. c(n) = Cardinality(A) /\ F(n) = E BY <1>12
  <2> HIDE DEF c, F, C
  <2> QED BY <1>2, <1>13, <2>1, <2>2
<1> QED BY <1>6, <1>7, <1>13 DEF E

\* The first of the numbers that are listed.
LEMMA ListedFirst ==
    ASSUME NEW n \in Nat, NEW A, A \subseteq 1..n, NEW q \in Nat, q <= Cardinality(A)
    PROVE  SubSeq(Listed(n, A), 1, q) = Listed(n, FirstOf(A, q))
<1> DEFINE E == FirstOf(A, q)
           R == A \ E
           S == 1..n
           s == [i \in 1..n |-> i]
           u == Listed(n, E)
           w == Listed(n, R)
<1>1. /\ \A i \in E, j \in R : i < j
      /\ Cardinality(E) = q
  BY FirstOfIs
<1>2. E \cup R = A /\ E \subseteq 1..n /\ E \in SUBSET Int /\ R \in SUBSET Int
  <2>1. \A i \in E : i \in A BY DEF FirstOf
  <2>2. \A i \in A : i \in 1..n /\ i \in Int OBVIOUS
  <2> HIDE DEF E
  <2> QED BY <2>1, <2>2
<1> HIDE DEF E, R
<1>3. Listed(n, A) = u \o w BY <1>1, <1>2, ListedConcat
<1>4. s \in Seq(S) /\ Len(s) = n BY ListedIs
<1>5. u = Those(s, E) BY DEF Listed
<1>6. u \in Seq(S) /\ w \in Seq(S) BY ListedType
<1>7. Len(u) = q
  <2> HIDE DEF s, S, u
  <2>1. Len(Those(s, E)) = Cardinality(E) BY <1>2, <1>4, ThoseLength
  <2> QED BY <1>1, <1>5, <2>1
<1> HIDE DEF s, S, u, w
<1>8. SubSeq(u \o w, 1, Len(u)) = u BY <1>6, SplitAgain
<1> QED BY <1>3, <1>7, <1>8 DEF u, E

\* Every element is less than those after it.
Ascends(w) == \A j, k \in 1..Len(w) : j < k => w[j] < w[k]

\* The numbers are listed from the least on.
LEMMA ListedAscends ==
    ASSUME NEW n \in Nat, NEW A, A \subseteq 1..n
    PROVE  Ascends(Listed(n, A))
<1> DEFINE B(m) == A \cap 1..m
           u(m) == Listed(n, B(m))
           T == {m \in Nat : m <= n => Ascends(u(m))}
<1>0. n \in Nat /\ \A i \in A : i \in 1..n OBVIOUS
<1>1. ASSUME NEW m \in Nat
      PROVE  /\ u(m) \in Seq(B(m)) /\ Len(u(m)) \in Nat /\ ToSet(u(m)) = B(m)
             /\ Len(u(m)) = Cardinality(B(m)) /\ \A k \in 1..Len(u(m)) : u(m)[k] \in B(m)
  <2> DEFINE D == B(m)
  <2>1. D \subseteq 1..n BY <1>0
  <2> HIDE DEF D
  <2>2. /\ Listed(n, D) \in Seq(D) /\ Len(Listed(n, D)) = Cardinality(D)
        /\ Cardinality(D) \in Nat /\ ToSet(Listed(n, D)) = D
    BY <1>0, <2>1, ListedSet
  <2>3. \A k \in 1..Len(Listed(n, D)) : Listed(n, D)[k] \in D
    BY <2>2, ElementOfSeq
  <2> QED BY <2>2, <2>3 DEF D
<1>2. 0 \in T
  <2>1. B(0) = {} OBVIOUS
  <2>2. Len(u(0)) = 0
    <3> HIDE DEF B
    <3>1. Len(u(0)) = Cardinality({}) BY <1>1, <2>1
    <3>2. Cardinality({}) = 0 BY FS_EmptySet
    <3> QED BY <3>1, <3>2
  <2> HIDE DEF u
  <2>3. Ascends(u(0)) BY <2>2 DEF Ascends
  <2> QED BY <2>3
<1>3. ASSUME NEW m \in Nat, m \in T PROVE m + 1 \in T
  <2> SUFFICES ASSUME m + 1 <= n PROVE Ascends(u(m + 1)) OBVIOUS
  <2> DEFINE x == m + 1
             w == u(m)
  <2>1. Ascends(w) /\ x \in 1..n /\ m \in Nat /\ x = m + 1 BY <1>3
  <2>2. /\ w \in Seq(B(m)) /\ Len(w) \in Nat
        /\ \A k \in 1..Len(w) : w[k] \in B(m)
    BY <1>1
  <2>3. B(x) = IF x \in A THEN B(m) \cup {x} ELSE B(m)
    <3>1. ASSUME NEW i PROVE i \in B(x) <=> i \in A /\ (i \in 1..m \/ i = x)
      BY <2>1
    <3>2. \A i : i \in B(m) <=> i \in A /\ i \in 1..m OBVIOUS
    <3> HIDE DEF B, x
    <3> QED BY <3>1, <3>2
  <2>4. \A i \in B(m) : i \in Nat /\ i < x BY <2>1
  <2> HIDE DEF w, x
  <2>5. ASSUME x \notin A PROVE Ascends(u(x))
    <3>1. u(x) = w BY <2>3, <2>5 DEF w
    <3> QED BY <2>1, <3>1
  <2>6. ASSUME x \in A PROVE Ascends(u(x))
    <3> DEFINE v == Append(w, x)
               l == Len(w)
    <3>1. u(x) = v
      <4>1. \A a \in B(m), b \in {x} : a < b BY <2>4
      <4>2. B(m) \in SUBSET Int /\ {x} \in SUBSET Int BY <2>1, <2>4
      <4>3. B(x) = B(m) \cup {x} BY <2>3, <2>6
      <4> DEFINE D == B(m)
      <4> HIDE DEF D
      <4>4. Listed(n, D \cup {x}) = Listed(n, D) \o Listed(n, {x})
        BY <4>1, <4>2, ListedConcat DEF D
      <4>5. Listed(n, {x}) = <<x>>
        <5> DEFINE S == 1..n
                   s == [i \in 1..n |-> i]
        <5>1. s \in Seq(S) /\ Len(s) = n /\ s[x] = x
          BY <1>0, <2>1, ListedIs
        <5>2. Listed(n, {x}) = Those(s, {x}) BY DEF Listed
        <5> HIDE DEF S, s
        <5>3. x \in 1..Len(s) BY <2>1, <5>1
        <5>4. Those(s, {x}) = <<s[x]>> BY <5>1, <5>3, ThoseOne
        <5> QED BY <5>1, <5>2, <5>4
      <4>6. w \o <<x>> = v
        <5>1. w \in Seq(Int) /\ x \in Int
          <6>1. \A k \in 1..Len(w) : w[k] \in Int BY <2>2, <2>4
          <6>2. w = [k \in 1..Len(w) |-> w[k]] BY <2>2
          <6> QED BY <2>1, <2>2, <6>1, <6>2, SeqOfFunction
        <5> QED BY <5>1 DEF v
      <4> QED BY <4>3, <4>4, <4>5, <4>6 DEF D, w
    <3>2. Len(v) = l + 1 /\ v[l + 1] = x /\ \A k \in 1..l : v[k] = w[k]
      BY <2>2, AppendFacts
    <3>3. l \in Nat /\ \A k \in 1..l : w[k] \in Nat /\ w[k] < x
      BY <2>2, <2>4
    <3>4. \A j, k \in 1..l : j < k => w[j] < w[k] BY <2>1 DEF Ascends
    <3> HIDE DEF v, l
    <3>5. ASSUME NEW j \in 1..l + 1, NEW k \in 1..l + 1, j < k PROVE v[j] < v[k]
      <4>1. j \in 1..l BY <3>3, <3>5
      <4>2. CASE k = l + 1 BY <3>2, <3>3, <4>1, <4>2
      <4>3. CASE k \in 1..l BY <3>2, <3>4, <3>5, <4>1, <4>3
      <4> QED BY <3>3, <4>2, <4>3
    <3>6. Ascends(v) BY <3>2, <3>5 DEF Ascends
    <3> QED BY <3>1, <3>6
  <2>7. Ascends(u(x)) BY <2>5, <2>6
  <2> QED BY <2>7 DEF x
<1>4. n \in T /\ n <= n
  <2>1. Nat \subseteq T
    <3> HIDE DEF T
    <3> QED BY <1>2, <1>3, SetInduction
  <2> HIDE DEF T
  <2> QED BY <2>1
<1>5. B(n) = A BY <1>0
<1>6. Ascends(u(n)) BY <1>4
<1> HIDE DEF B
<1> QED BY <1>5, <1>6

\* A concatenation, element by element.
LEMMA ConcatElements ==
    ASSUME NEW S, NEW s \in Seq(S), NEW t \in Seq(S)
    PROVE  /\ s \o t \in Seq(S) /\ Len(s) \in Nat /\ Len(t) \in Nat
           /\ DOMAIN s = 1..Len(s) /\ DOMAIN t = 1..Len(t) /\ DOMAIN (s \o t) = 1..Len(s) + Len(t)
           /\ Len(s \o t) = Len(s) + Len(t)
           /\ \A i \in 1..Len(s) : (s \o t)[i] = s[i]
           /\ \A i \in 1..Len(t) : (s \o t)[Len(s) + i] = t[i]
<1> DEFINE w == s \o t
           n == Len(s)
           m == Len(t)
<1>1. /\ w \in Seq(S) /\ Len(w) = n + m
      /\ \A i \in 1..n : w[i] = s[i]
      /\ \A i \in n + 1..n + m : w[i] = t[i - n]
      /\ n \in Nat /\ m \in Nat
  BY ConcatProperties, LenProperties
<1>2. DOMAIN s = 1..n /\ DOMAIN t = 1..m /\ DOMAIN w = 1..Len(w)
  BY <1>1, LenProperties
<1> HIDE DEF w, n, m
<1>3. ASSUME NEW i \in 1..m PROVE w[n + i] = t[i]
  <2> DEFINE j == n + i
  <2>1. j \in n + 1..n + m /\ j - n = i BY <1>1
  <2> HIDE DEF j
  <2>2. w[j] = t[i] BY <1>1, <2>1
  <2> QED BY <2>2 DEF j
<1> QED BY <1>1, <1>2, <1>3 DEF w, n, m

\* What Step makes at a place depends only on the values behind it.
FromBehind(Step, n, V) ==
    \A g, h \in [1..n -> V] : \A i \in 1..n :
      (\A j \in i + 1..n : g[j] = h[j]) => Step[g][i] = Step[h][i]

\* A value for each place, each made of those behind it.
LEMMA BackwardRecursion ==
    ASSUME NEW n \in Nat, NEW V, NEW v \in V,
           NEW Step \in [[1..n -> V] -> [1..n -> V]], FromBehind(Step, n, V)
    PROVE  \E f \in [1..n -> V] : FixedPoint(Step, f)
<1> DEFINE D == 1..n
           rank == [i \in D |-> n - i]
<1>1. rank \in [D -> 0..n] OBVIOUS
<1>2. Founded(Step, rank, D, V)
  <2>1. ASSUME NEW g \in [D -> V], NEW h \in [D -> V], NEW i \in D,
               \A j \in D : rank[j] < rank[i] => g[j] = h[j]
        PROVE  Step[g][i] = Step[h][i]
    <3>1. \A j \in i + 1..n : g[j] = h[j] BY <2>1
    <3> QED BY <3>1 DEF FromBehind
  <2> HIDE DEF rank, D
  <2> QED BY <2>1 DEF Founded
<1>3. Step \in [[D -> V] -> [D -> V]] OBVIOUS
<1>4. \E f \in [D -> V] : FixedPoint(Step, f)
  <2> HIDE DEF D, rank
  <2> QED BY <1>1, <1>2, <1>3, Recursion
<1> QED BY <1>4

\* What holds at a place when it holds behind it holds everywhere.
LEMMA BackwardInduction ==
    ASSUME NEW n \in Nat, NEW T,
           \A i \in 1..n : (\A j \in i + 1..n : j \in T) => i \in T
    PROVE  1..n \subseteq T
<1> DEFINE U == {k \in Nat : \A i \in 1..n : i > n - k => i \in T}
<1>1. 0 \in U OBVIOUS
<1>2. ASSUME NEW k \in Nat, k \in U PROVE k + 1 \in U
  <2> SUFFICES ASSUME NEW i \in 1..n, i > n - (k + 1) PROVE i \in T
    OBVIOUS
  <2>1. \A j \in i + 1..n : j \in T BY <1>2
  <2> QED BY <2>1
<1>3. n \in U
  <2> HIDE DEF U
  <2> QED BY <1>1, <1>2, SetInduction
<1> QED BY <1>3

=============================================================================
