----------------------------- MODULE FilterFacts -----------------------------
(***************************************************************************)
(* What the functions of split, csplit and cut (Pieces), comm, uniq and    *)
(* join (LineTools), grep (GrepScan) and of file name patterns (Wildcard)  *)
(* return for any input, in the words of the properties of LineFilters.    *)
(***************************************************************************)
EXTENDS LineTools, GrepScan, Pieces, Wildcard, SeqFacts, Functions, FiniteSetTheorems, TLAPS

------------------------------------------------------------------------------
(***************************************************************************)
(* PiecesCoverInput for any input.  split: each step continues where the   *)
(* one before it ended (SplitSoFar), and a name comes twice only once the  *)
(* suffixes run out (SuffixesDiffer).  csplit: whatever the patterns do,   *)
(* the cuts are lines and a hidden line is one that matched (CutsRight),   *)
(* and the pieces up to a line cover it (Covers).  cut: a list has an      *)
(* order (InsertRange), merged ranges are apart and name the same          *)
(* positions (MergedApart), --complement leaves those that none of them    *)
(* names (LeftSoFar), and the ranges print their positions in turn         *)
(* (BytesShown).                                                           *)
(***************************************************************************)
\* What is left to be written of a number after k characters.
Writing(h, cfg, part) ==
    h = [k \in 0..cfg.length |->
           IF k = 0 THEN part ELSE IF h[k - 1] < 0 THEN -1 ELSE (h[k - 1] \div Letters) - 1]

SuffixOf(h, cfg) == [i \in 1..cfg.length |-> IF h[cfg.length - i] < 0 THEN 0 ELSE h[cfg.length - i] % Letters]

\* generate_suffix writes such numbers.
LEMMA SuffixIs ==
    ASSUME NEW cfg, ~cfg.numeric, cfg.length \in Nat, NEW part
    PROVE  \E h : Writing(h, cfg, part) /\ generate_suffix(cfg, part) = SuffixOf(h, cfg)
<1> DEFINE v == part
           G(s, k) == IF s < 0 THEN -1 ELSE (s \div Letters) - 1
           T == {m \in Nat : \E h : h = [k \in 0..m |-> IF k = 0 THEN v ELSE G(h[k - 1], k)]}
<1> HIDE DEF v, G
<1>1. 0 \in T
  <2> DEFINE h == [k \in 0..0 |-> v]
  <2>1. h = [k \in 0..0 |-> IF k = 0 THEN v ELSE G(h[k - 1], k)] OBVIOUS
  <2> HIDE DEF h
  <2> QED BY <2>1
<1>2. ASSUME NEW m \in Nat, m \in T PROVE m + 1 \in T
  <2>1. PICK h : h = [k \in 0..m |-> IF k = 0 THEN v ELSE G(h[k - 1], k)]
    BY <1>2
  <2> DEFINE g == [k \in 0..m + 1 |-> IF k \in 0..m THEN h[k] ELSE G(h[m], k)]
  <2>2. ASSUME NEW k \in 0..m + 1 PROVE g[k] = IF k = 0 THEN v ELSE G(g[k - 1], k)
    <3>1. CASE k = 0 BY <2>1, <3>1
    <3>2. CASE k \in 1..m
      <4>1. k \in 0..m /\ k - 1 \in 0..m /\ k # 0 /\ k - 1 \in 0..m + 1
        BY <3>2
      <4>2. g[k] = h[k] /\ g[k - 1] = h[k - 1] BY <4>1
      <4> HIDE DEF g
      <4> QED BY <2>1, <4>1, <4>2
    <3>3. CASE k = m + 1
      <4>1. k \notin 0..m /\ k - 1 = m /\ m \in 0..m /\ k # 0 /\ m \in 0..m + 1
        BY <3>3
      <4>2. g[k] = G(h[m], k) /\ g[m] = h[m] BY <4>1
      <4> HIDE DEF g
      <4> QED BY <4>1, <4>2
    <3> QED BY <3>1, <3>2, <3>3
  <2>3. g = [k \in 0..m + 1 |-> IF k = 0 THEN v ELSE G(g[k - 1], k)]
    <3>1. g = [k \in 0..m + 1 |-> g[k]] OBVIOUS
    <3> HIDE DEF g
    <3> QED BY <2>2, <3>1
  <2> HIDE DEF g
  <2> QED BY <2>3
<1>3. Nat \subseteq T
  <2> HIDE DEF T
  <2> QED BY <1>1, <1>2, SetInduction
<1>4. \E h : h = [k \in 0..cfg.length |-> IF k = 0 THEN v ELSE G(h[k - 1], k)]
  BY <1>3
<1> DEFINE C == CHOOSE h : h = [k \in 0..cfg.length |-> IF k = 0 THEN part ELSE IF h[k - 1] < 0 THEN -1 ELSE (h[k - 1] \div Letters) - 1]
<1>5. C = [k \in 0..cfg.length |-> IF k = 0 THEN part ELSE IF C[k - 1] < 0 THEN -1 ELSE (C[k - 1] \div Letters) - 1]
  BY <1>4 DEF v, G
<1>6. generate_suffix(cfg, part) = [i \in 1..cfg.length |-> IF C[cfg.length - i] < 0 THEN 0 ELSE C[cfg.length - i] % Letters]
  BY DEF generate_suffix
<1> HIDE DEF C
<1> QED BY <1>5, <1>6 DEF Writing, SuffixOf

\* The numbers below Letters have suffixes of their own, and so have all numbers as digits.
LEMMA SuffixesDiffer ==
    ASSUME NEW cfg, cfg.length \in Nat \ {0}, NEW p \in Nat, NEW q \in Nat,
           cfg.numeric \/ (p < Letters /\ q < Letters),
           generate_suffix(cfg, p) = generate_suffix(cfg, q)
    PROVE  p = q
<1>1. CASE cfg.numeric
  <2>1. <<p>> = <<q>> BY <1>1 DEF generate_suffix
  <2> QED BY <2>1
<1>2. CASE ~cfg.numeric
  <2> DEFINE n == cfg.length
  <2>1. n \in Nat /\ n >= 1 /\ n \in 1..n /\ n - n = 0 /\ 0 \in 0..n
    OBVIOUS
  <2>2. PICK h : Writing(h, cfg, p) /\ generate_suffix(cfg, p) = SuffixOf(h, cfg)
    BY <1>2, <2>1, SuffixIs
  <2>3. PICK g : Writing(g, cfg, q) /\ generate_suffix(cfg, q) = SuffixOf(g, cfg)
    BY <1>2, <2>1, SuffixIs
  <2>4. h[0] = p /\ g[0] = q BY <2>1, <2>2, <2>3 DEF Writing
  <2>5. SuffixOf(h, cfg)[n] = (IF h[0] < 0 THEN 0 ELSE h[0] % Letters)
    BY <2>1 DEF SuffixOf
  <2>6. SuffixOf(g, cfg)[n] = (IF g[0] < 0 THEN 0 ELSE g[0] % Letters)
    BY <2>1 DEF SuffixOf
  <2>7. Letters \in Nat /\ p < Letters /\ q < Letters
    BY <1>2, PiecesAssumption
  <2>8. p % Letters = p /\ q % Letters = q BY <2>7
  <2>9. ~(p < 0) /\ ~(q < 0) OBVIOUS
  <2>10. SuffixOf(h, cfg) = SuffixOf(g, cfg) BY <2>2, <2>3
  <2> HIDE DEF n
  <2> QED BY <2>4, <2>5, <2>6, <2>8, <2>9, <2>10
<1> QED BY <1>1, <1>2

\* What is said of a file of split's, and of the last one.
Fits(cfg, lines, isLast) ==
    IF cfg.mode = "lineBytes" THEN Bytes(lines) <= cfg.size \/ Len(lines) = 1
    ELSE Len(lines) = cfg.size \/ (isLast /\ Len(lines) < cfg.size)

\* PieceEnd is a line of the input, and the lines up to it fit into a file.
LEMMA PieceEndIs ==
    ASSUME NEW S, NEW input \in Seq(S), NEW cfg, cfg.size \in Nat \ {0}, NEW i \in 1..Len(input)
    PROVE  LET e == PieceEnd(cfg, input, i)
           IN  /\ e \in i..Len(input)
               /\ Fits(cfg, SubSeq(input, i, e), e = Len(input))
<1> DEFINE n == Len(input)
           e == PieceEnd(cfg, input, i)
           z == cfg.size
<1>1. n \in Nat /\ i \in 1..n /\ z \in Nat /\ z >= 1 OBVIOUS
<1>2. ASSUME NEW j \in i..n PROVE Len(SubSeq(input, i, j)) = j - i + 1
  <2>1. i - 1 \in 0..n /\ j \in i - 1..n /\ (i - 1) + 1 = i BY <1>1
  <2> DEFINE a == i - 1
  <2> HIDE DEF a
  <2>2. Len(SubSeq(input, a + 1, j)) = j - a
    BY <2>1, BeginningJoins DEF a
  <2> QED BY <1>1, <2>1, <2>2 DEF a
<1>3. CASE cfg.mode = "lineBytes"
  <2> DEFINE fits == {j \in i..n : Bytes(SubSeq(input, i, j)) <= z}
  <2>1. CASE fits = {}
    <3>1. e = i BY <1>3, <2>1 DEF PieceEnd
    <3>2. e \in i..n /\ Len(SubSeq(input, i, e)) = 1 BY <1>1, <1>2, <3>1
    <3> QED BY <1>3, <3>2 DEF Fits
  <2>2. CASE fits # {}
    <3>1. e = CHOOSE j \in fits : \A k \in fits : k <= j
      BY <1>3, <2>2 DEF PieceEnd
    <3>2. fits \subseteq 0..n BY <1>1
    <3>3. \A j \in fits : j \in i..n /\ Bytes(SubSeq(input, i, j)) <= z
      OBVIOUS
    <3> HIDE DEF fits
    <3>4. Max(fits) \in fits /\ \A y \in fits : Max(fits) >= y
      BY <1>1, <2>2, <3>2, MaxFacts
    <3>5. \A y \in fits : y \in Int BY <1>1, <3>2
    <3>6. \A k \in fits : k <= Max(fits) BY <3>4, <3>5
    <3>7. e \in fits BY <3>1, <3>4, <3>6
    <3> QED BY <1>3, <3>3, <3>7 DEF Fits
  <2> QED BY <2>1, <2>2
<1>4. CASE cfg.mode # "lineBytes"
  <2>1. e = IF i + z - 1 <= n THEN i + z - 1 ELSE n BY <1>4 DEF PieceEnd
  <2>2. e \in i..n /\ (e - i + 1 = z \/ (e = n /\ e - i + 1 < z))
    BY <1>1, <2>1
  <2> QED BY <1>2, <1>4, <2>2 DEF Fits
<1> QED BY <1>3, <1>4

\* The files after each line of the input that split may have begun one at.
Splitting(h, cfg, input) ==
    h = [k \in 0..Len(input) |-> IF k = 0 THEN [i |-> 1, files |-> <<>>] ELSE SplitStep(cfg, input, h[k - 1])]

\* split opens its files one after the other.
LEMMA SplitIs ==
    ASSUME NEW cfg, NEW input, Len(input) \in Nat
    PROVE  \E h : Splitting(h, cfg, input) /\ split(cfg, input) = h[Len(input)].files
<1> DEFINE v == [i |-> 1, files |-> <<>>]
           G(s, k) == SplitStep(cfg, input, s)
           T == {m \in Nat : \E h : h = [k \in 0..m |-> IF k = 0 THEN v ELSE G(h[k - 1], k)]}
<1> HIDE DEF v, G
<1>1. 0 \in T
  <2> DEFINE h == [k \in 0..0 |-> v]
  <2>1. h = [k \in 0..0 |-> IF k = 0 THEN v ELSE G(h[k - 1], k)] OBVIOUS
  <2> HIDE DEF h
  <2> QED BY <2>1
<1>2. ASSUME NEW m \in Nat, m \in T PROVE m + 1 \in T
  <2>1. PICK h : h = [k \in 0..m |-> IF k = 0 THEN v ELSE G(h[k - 1], k)]
    BY <1>2
  <2> DEFINE g == [k \in 0..m + 1 |-> IF k \in 0..m THEN h[k] ELSE G(h[m], k)]
  <2>2. ASSUME NEW k \in 0..m + 1 PROVE g[k] = IF k = 0 THEN v ELSE G(g[k - 1], k)
    <3>1. CASE k = 0 BY <2>1, <3>1
    <3>2. CASE k \in 1..m
      <4>1. k \in 0..m /\ k - 1 \in 0..m /\ k # 0 /\ k - 1 \in 0..m + 1
        BY <3>2
      <4>2. g[k] = h[k] /\ g[k - 1] = h[k - 1] BY <4>1
      <4> HIDE DEF g
      <4> QED BY <2>1, <4>1, <4>2
    <3>3. CASE k = m + 1
      <4>1. k \notin 0..m /\ k - 1 = m /\ m \in 0..m /\ k # 0 /\ m \in 0..m + 1
        BY <3>3
      <4>2. g[k] = G(h[m], k) /\ g[m] = h[m] BY <4>1
      <4> HIDE DEF g
      <4> QED BY <4>1, <4>2
    <3> QED BY <3>1, <3>2, <3>3
  <2>3. g = [k \in 0..m + 1 |-> IF k = 0 THEN v ELSE G(g[k - 1], k)]
    <3>1. g = [k \in 0..m + 1 |-> g[k]] OBVIOUS
    <3> HIDE DEF g
    <3> QED BY <2>2, <3>1
  <2> HIDE DEF g
  <2> QED BY <2>3
<1>3. Nat \subseteq T
  <2> HIDE DEF T
  <2> QED BY <1>1, <1>2, SetInduction
<1>4. \E h : h = [k \in 0..Len(input) |-> IF k = 0 THEN v ELSE G(h[k - 1], k)]
  BY <1>3
<1> DEFINE C == CHOOSE h : h = [k \in 0..Len(input) |-> IF k = 0 THEN [i |-> 1, files |-> <<>>] ELSE SplitStep(cfg, input, h[k - 1])]
<1>5. C = [k \in 0..Len(input) |-> IF k = 0 THEN [i |-> 1, files |-> <<>>] ELSE SplitStep(cfg, input, C[k - 1])]
  BY <1>4 DEF v, G
<1>6. split(cfg, input) = C[Len(input)].files BY DEF split
<1> HIDE DEF C
<1> QED BY <1>5, <1>6 DEF Splitting

File(cfg, S) == [name : {generate_suffix(cfg, p) : p \in Nat}, lines : Seq(S)]

LinesOf(files) == [k \in DOMAIN files |-> files[k].lines]

\* Of one file more, the lines.
LEMMA LinesOfAppend ==
    ASSUME NEW cfg, NEW S, NEW files \in Seq(File(cfg, S)), NEW x \in File(cfg, S)
    PROVE  /\ LinesOf(files) \in Seq(Seq(S))
           /\ LinesOf(Append(files, x)) = Append(LinesOf(files), x.lines)
<1> DEFINE n == Len(files)
           F == File(cfg, S)
           t == Append(files, x)
           s == LinesOf(files)
           u == LinesOf(t)
           Q == Seq(S)
<1>1. n \in Nat /\ DOMAIN files = 1..n /\ \A k \in 1..n : files[k].lines \in Q
  <2>1. \A k \in 1..n : files[k] \in F BY LenProperties, ElementOfSeq
  <2> QED BY <2>1, LenProperties DEF File
<1>2. /\ t \in Seq(F) /\ Len(t) = n + 1 /\ DOMAIN t = 1..n + 1
      /\ \A k \in 1..n : t[k] = files[k]
      /\ t[n + 1] = x
  <2> HIDE DEF F
  <2>1. files \in Seq(F) /\ x \in F BY DEF F
  <2> QED BY ONLY <2>1, AppendFacts DEF t, n
<1>3. s = [k \in 1..n |-> s[k]] /\ \A k \in 1..n : s[k] = files[k].lines
  BY <1>1 DEF LinesOf
<1>4. u = [k \in 1..n + 1 |-> u[k]] /\ \A k \in 1..n + 1 : u[k] = t[k].lines
  <2> HIDE DEF t
  <2> QED BY <1>2 DEF LinesOf
<1> HIDE DEF s, u, t
<1>5. \A k \in 1..n : u[k] = s[k] BY <1>1, <1>2, <1>3, <1>4
<1>6. u = Append(s, u[n + 1])
  <2>1. n \in Nat BY <1>1
  <2>2. s = [k \in 1..n |-> s[k]] BY <1>3
  <2>3. u = [k \in 1..n + 1 |-> u[k]] BY <1>4
  <2> HIDE DEF n
  <2>4. Prolongs(u, s, n) BY <1>5, <2>2, <2>3 DEF Prolongs
  <2> QED BY ONLY <2>1, <2>4, ProlongedIs
<1>7. u[n + 1] = x.lines BY <1>1, <1>2, <1>4
<1>8. s \in Seq(Q)
  <2>1. \A k \in 1..n : s[k] \in Q BY <1>1, <1>3
  <2> HIDE DEF Q, n
  <2> QED BY ONLY <1>1, <1>3, <2>1, SeqOfFunction
<1> QED BY <1>6, <1>7, <1>8 DEF s, u, t

\* The files hold the lines before s.i, and have the names and sizes they should.
SplitSoFar(cfg, input, S, s) ==
    /\ s.i \in 1..Len(input) + 1
    /\ s.files \in Seq(File(cfg, S))
    /\ FlattenSeq(LinesOf(s.files)) = SubSeq(input, 1, s.i - 1)
    /\ \A k \in 1..Len(s.files) :
         /\ s.files[k].name = generate_suffix(cfg, k - 1)
         /\ Fits(cfg, s.files[k].lines, k = Len(s.files) /\ s.i = Len(input) + 1)

\* Another file goes on so.
LEMMA SplitGoesOn ==
    ASSUME NEW cfg, cfg.size \in Nat \ {0}, NEW S, NEW input \in Seq(S),
           NEW s, SplitSoFar(cfg, input, S, s)
    PROVE  /\ SplitSoFar(cfg, input, S, SplitStep(cfg, input, s))
           /\ SplitStep(cfg, input, s).i > AtMost(s.i, Len(input))
<1> DEFINE n == Len(input)
           i == s.i
           f == s.files
           e == PieceEnd(cfg, input, i)
           l == SubSeq(input, i, e)
           m == Len(f)
           x == [name |-> generate_suffix(cfg, m), lines |-> l]
           v == Append(f, x)
           F == File(cfg, S)
<1>1. n \in Nat /\ i \in 1..n + 1 BY DEF SplitSoFar
<1>2. CASE i > n BY <1>1, <1>2 DEF SplitStep, AtMost
<1>3. CASE ~(i > n)
  <2>1. i \in 1..n BY <1>1, <1>3
  <2>2. e \in i..n /\ Fits(cfg, l, e = n) BY <2>1, PieceEndIs
  <2>3. f \in Seq(F) /\ m \in Nat BY DEF SplitSoFar
  <2>4. SplitStep(cfg, input, s) = [i |-> e + 1, files |-> v]
    BY <1>3 DEF SplitStep
  <2>5. l \in Seq(S) /\ SubSeq(input, 1, i - 1) \o l = SubSeq(input, 1, e)
    <3> DEFINE a == i - 1
    <3>1. a \in 0..n /\ e \in a..n /\ a + 1 = i BY <1>1, <2>1, <2>2
    <3> HIDE DEF a, e
    <3>2. SubSeq(input, a + 1, e) \in Seq(S) /\ SubSeq(input, 1, a) \o SubSeq(input, a + 1, e) = SubSeq(input, 1, e)
      BY <3>1, BeginningJoins
    <3> QED BY <3>1, <3>2 DEF a
  <2>6. x \in F /\ x.name = generate_suffix(cfg, m) /\ x.lines = l
    <3> HIDE DEF l, m
    <3> QED BY <2>3, <2>5 DEF File
  <2> HIDE DEF x
  <2>7. /\ v \in Seq(F) /\ Len(v) = m + 1
        /\ \A k \in 1..m : v[k] = f[k]
        /\ v[m + 1] = x
    <3> HIDE DEF F
    <3> QED BY ONLY <2>3, <2>6, AppendFacts DEF m, v
  <2>8. FlattenSeq(LinesOf(v)) = SubSeq(input, 1, e)
    <3> DEFINE g == LinesOf(f)
    <3>1. g \in Seq(Seq(S)) /\ LinesOf(v) = Append(g, l)
      <4>1. LinesOf(f) \in Seq(Seq(S)) /\ LinesOf(Append(f, x)) = Append(LinesOf(f), x.lines)
        <5>1. f \in Seq(File(cfg, S)) /\ x \in File(cfg, S)
          BY <2>3, <2>6
        <5> HIDE DEF f
        <5> QED BY ONLY <5>1, LinesOfAppend
      <4> QED BY <2>6, <4>1 DEF v, g
    <3>2. FlattenSeq(g) = SubSeq(input, 1, i - 1) BY DEF SplitSoFar, g
    <3> HIDE DEF g, l, v
    <3>3. FlattenSeq(Append(g, l)) = FlattenSeq(g) \o l
      BY <2>5, <3>1, FlattenAppend
    <3> QED BY <2>5, <3>1, <3>2, <3>3
  <2>9. \A k \in 1..m : f[k].name = generate_suffix(cfg, k - 1) /\ Fits(cfg, f[k].lines, FALSE)
    <3>1. i # n + 1 BY <1>1, <2>1
    <3>2. \A k \in 1..m : /\ f[k].name = generate_suffix(cfg, k - 1)
                          /\ Fits(cfg, f[k].lines, k = m /\ i = n + 1)
      BY DEF SplitSoFar
    <3> QED BY <3>1, <3>2 DEF Fits
  <2> HIDE DEF v, l, e, f, n
  <2> DEFINE w == [i |-> e + 1, files |-> v]
  <2>10. w.i = e + 1 /\ w.files = v OBVIOUS
  <2> HIDE DEF w
  <2>11. \A k \in 1..Len(v) : /\ v[k].name = generate_suffix(cfg, k - 1)
                              /\ Fits(cfg, v[k].lines, k = Len(v) /\ e + 1 = n + 1)
    <3> TAKE k \in 1..Len(v)
    <3>1. CASE k = m + 1
      <4>1. v[k] = x /\ k - 1 = m /\ k = Len(v) /\ (e + 1 = n + 1 <=> e = n)
        BY <1>1, <2>2, <2>3, <2>7, <3>1
      <4> QED BY <2>2, <2>6, <4>1 DEF Fits
    <3>2. CASE k # m + 1
      <4>1. k \in 1..m /\ k # Len(v) BY <2>3, <2>7, <3>2
      <4>2. v[k] = f[k] BY <2>7, <4>1
      <4> QED BY <2>9, <4>1, <4>2
    <3> QED BY <3>1, <3>2
  <2>12. e + 1 \in 1..n + 1 /\ (e + 1) - 1 = e BY <1>1, <2>1, <2>2
  <2>13. SplitSoFar(cfg, input, S, w)
    <3>1. /\ w.i \in 1..Len(input) + 1 /\ w.files \in Seq(File(cfg, S))
          /\ FlattenSeq(LinesOf(w.files)) = SubSeq(input, 1, w.i - 1)
      BY <2>7, <2>8, <2>10, <2>12 DEF n
    <3>2. \A k \in 1..Len(w.files) :
             /\ w.files[k].name = generate_suffix(cfg, k - 1)
             /\ Fits(cfg, w.files[k].lines, k = Len(w.files) /\ w.i = Len(input) + 1)
      BY <2>10, <2>11 DEF n
    <3> QED BY <3>1, <3>2 DEF SplitSoFar
  <2>14. e + 1 > AtMost(i, n)
    <3>1. AtMost(i, n) = i BY <1>1, <2>1 DEF AtMost
    <3> QED BY <1>1, <2>2, <3>1
  <2> QED BY <2>4, <2>10, <2>13, <2>14 DEF w, n
<1> QED BY <1>2, <1>3

\* split puts the whole input into its files.
LEMMA SplitEnds ==
    ASSUME NEW cfg, cfg.size \in Nat \ {0}, NEW S, NEW input \in Seq(S)
    PROVE  \E s : SplitSoFar(cfg, input, S, s) /\ s.i = Len(input) + 1 /\ split(cfg, input) = s.files
<1> DEFINE n == Len(input)
<1>1. n \in Nat OBVIOUS
<1>2. PICK h : Splitting(h, cfg, input) /\ split(cfg, input) = h[n].files
  BY <1>1, SplitIs
<1> DEFINE T == {k \in Nat : k <= n => SplitSoFar(cfg, input, S, h[k]) /\ h[k].i > AtMost(k, n)}
<1>3. 0 \in T
  <2> DEFINE v == [i |-> 1, files |-> <<>>]
  <2>1. h[0] = v BY <1>1, <1>2 DEF Splitting
  <2>2. v.i = 1 /\ v.files = <<>> OBVIOUS
  <2> HIDE DEF v
  <2>3. FlattenSeq(LinesOf(v.files)) = SubSeq(input, 1, v.i - 1)
    <3>1. LinesOf(<<>>) = <<>> BY DEF LinesOf
    <3>2. FlattenSeq(LinesOf(<<>>)) = <<>> BY <3>1, FlattenEmpty
    <3>3. SubSeq(input, 1, 0) = <<>> BY Beginnings
    <3>4. v.i - 1 = 0 BY <2>2
    <3>5. FlattenSeq(LinesOf(v.files)) = <<>> BY <2>2, <3>2
    <3> QED BY <3>3, <3>4, <3>5
  <2>4. v.files \in Seq(File(cfg, S)) /\ Len(v.files) = 0
    BY <2>2, EmptySeq
  <2>5. SplitSoFar(cfg, input, S, v)
    BY <1>1, <2>2, <2>3, <2>4 DEF SplitSoFar
  <2>6. v.i > AtMost(0, n) BY <1>1, <2>2 DEF AtMost
  <2> QED BY <2>1, <2>5, <2>6
<1>4. ASSUME NEW k \in Nat, k \in T PROVE k + 1 \in T
  <2> SUFFICES ASSUME k + 1 <= n PROVE SplitSoFar(cfg, input, S, h[k + 1]) /\ h[k + 1].i > AtMost(k + 1, n)
    OBVIOUS
  <2> DEFINE s == h[k]
             t == h[k + 1]
  <2>1. SplitSoFar(cfg, input, S, s) /\ s.i > AtMost(k, n) BY <1>1, <1>4
  <2>2. t = SplitStep(cfg, input, s)
    <3>1. k + 1 \in 0..n /\ k + 1 # 0 /\ (k + 1) - 1 = k BY <1>1
    <3> QED BY <1>2, <3>1 DEF Splitting
  <2> HIDE DEF s, t
  <2>3. SplitSoFar(cfg, input, S, t) /\ t.i > AtMost(s.i, n)
    BY <2>1, <2>2, SplitGoesOn
  <2>4. s.i \in 1..n + 1 /\ t.i \in 1..n + 1
    BY <2>1, <2>3 DEF SplitSoFar
  <2>5. t.i > AtMost(k + 1, n) BY <1>1, <2>1, <2>3, <2>4 DEF AtMost
  <2> QED BY <2>3, <2>5 DEF t
<1>5. Nat \subseteq T
  <2> HIDE DEF T
  <2> QED BY <1>3, <1>4, SetInduction
<1>6. SplitSoFar(cfg, input, S, h[n]) /\ h[n].i > AtMost(n, n)
  BY <1>1, <1>5
<1>7. h[n].i = n + 1
  <2>1. h[n].i \in 1..n + 1 BY <1>6 DEF SplitSoFar
  <2> QED BY <1>1, <1>6, <2>1 DEF AtMost
<1> QED BY <1>2, <1>6, <1>7

\* Files with names of their own all stay on the disk.
LEMMA AllOnDisk ==
    ASSUME NEW S, NEW files \in Seq(S),
           \A k, l \in 1..Len(files) : k < l => files[l].name # files[k].name
    PROVE  OnDisk(files) = files
<1> DEFINE keep == {k \in DOMAIN files : \A l \in k + 1..Len(files) : files[l].name # files[k].name}
<1>1. Len(files) \in Nat /\ DOMAIN files = 1..Len(files) OBVIOUS
<1>2. DOMAIN files \subseteq keep
  <2> SUFFICES ASSUME NEW k \in 1..Len(files), NEW l \in k + 1..Len(files)
               PROVE  files[l].name # files[k].name
    BY <1>1
  <2>1. l \in 1..Len(files) /\ k < l BY <1>1
  <2> QED BY <2>1
<1>3. OnDisk(files) = Those(files, keep) BY DEF OnDisk
<1> HIDE DEF keep
<1> QED BY <1>2, <1>3, ThoseAll

\* What SplitLosesNothing says of a run.
SplitRight(cfg, input, files) ==
    /\ FlattenSeq([k \in DOMAIN files |-> files[k].lines]) = input
    /\ \A k \in DOMAIN files : Fits(cfg, files[k].lines, k = Len(files))

\* With names enough the files on the disk are the input.
LEMMA SplitHolds ==
    ASSUME NEW cfg, cfg.size \in Nat \ {0}, cfg.length \in Nat \ {0}, NEW S, NEW input \in Seq(S),
           cfg.numeric \/ Len(split(cfg, input)) <= Letters
    PROVE  SplitRight(cfg, input, OnDisk(split(cfg, input)))
<1> DEFINE f == split(cfg, input)
           n == Len(input)
<1>1. PICK s : SplitSoFar(cfg, input, S, s) /\ s.i = n + 1 /\ f = s.files
  BY SplitEnds
<1> HIDE DEF f
<1>2. /\ f \in Seq(File(cfg, S)) /\ FlattenSeq(LinesOf(f)) = SubSeq(input, 1, (n + 1) - 1)
      /\ \A k \in 1..Len(f) : /\ f[k].name = generate_suffix(cfg, k - 1)
                              /\ Fits(cfg, f[k].lines, k = Len(f))
  BY <1>1 DEF SplitSoFar
<1>3. n \in Nat /\ (n + 1) - 1 = n /\ SubSeq(input, 1, n) = input
  <2>1. n \in Nat /\ (n + 1) - 1 = n OBVIOUS
  <2>2. SubSeq(input, 1, Len(input)) = input BY Beginnings
  <2> QED BY <2>1, <2>2
<1>4. Len(f) \in Nat /\ DOMAIN f = 1..Len(f) /\ Letters \in Nat
  BY <1>2, LenProperties, PiecesAssumption
<1>5. ASSUME NEW k \in 1..Len(f), NEW l \in 1..Len(f), k < l, f[l].name = f[k].name PROVE FALSE
  <2> DEFINE p == l - 1
             q == k - 1
  <2>1. p \in Nat /\ q \in Nat /\ p # q /\ (Len(f) <= Letters => p < Letters /\ q < Letters)
    BY <1>4, <1>5
  <2>2. generate_suffix(cfg, p) = generate_suffix(cfg, q) BY <1>2, <1>5
  <2> HIDE DEF p, q
  <2>3. cfg.numeric \/ (p < Letters /\ q < Letters) BY <2>1 DEF f
  <2> QED BY <2>1, <2>2, <2>3, SuffixesDiffer
<1>6. OnDisk(f) = f
  <2>1. \A k, l \in 1..Len(f) : k < l => f[l].name # f[k].name
    BY ONLY <1>5
  <2> QED BY <1>2, <2>1, AllOnDisk
<1>7. SplitRight(cfg, input, f)
  BY <1>2, <1>3, <1>4 DEF SplitRight, LinesOf
<1> QED BY <1>6, <1>7 DEF f

CutState == [at : Nat, cuts : SUBSET Nat, hidden : SUBSET Nat, ok : BOOLEAN]

Moved(s, a, C) == [s EXCEPT !.at = a, !.cuts = C]

\* A state of csplit's loop with other cuts.
LEMMA CutStates ==
    ASSUME NEW s \in CutState, NEW a \in Nat, NEW C \in SUBSET Nat
    PROVE  LET t == Moved(s, a, C)
           IN  t \in CutState /\ t.at = a /\ t.cuts = C /\ t.hidden = s.hidden /\ t.ok = s.ok
<1> DEFINE t == Moved(s, a, C)
<1>1. t.at = a /\ t.cuts = C /\ t.hidden = s.hidden
  BY DEF CutState, Moved
<1>2. t.ok = s.ok BY DEF CutState, Moved
<1>3. t \in CutState BY DEF CutState, Moved
<1> HIDE DEF t
<1>4. t \in CutState /\ t.at = a /\ t.cuts = C /\ t.hidden = s.hidden /\ t.ok = s.ok
  BY <1>1, <1>2, <1>3
<1> QED BY <1>4 DEF t

Hiding(s, a, C, H) == [s EXCEPT !.at = a, !.cuts = C, !.hidden = H]

\* And one that hides a line.
LEMMA HidingStates ==
    ASSUME NEW s \in CutState, NEW a \in Nat, NEW C \in SUBSET Nat, NEW H \in SUBSET Nat
    PROVE  LET t == Hiding(s, a, C, H)
           IN  t \in CutState /\ t.at = a /\ t.cuts = C /\ t.hidden = H /\ t.ok = s.ok
<1> DEFINE t == Hiding(s, a, C, H)
<1>1. t.at = a /\ t.cuts = C /\ t.hidden = H BY DEF CutState, Hiding
<1>2. t.ok = s.ok BY DEF CutState, Hiding
<1>3. t \in CutState BY DEF CutState, Hiding
<1> HIDE DEF t
<1>4. t \in CutState /\ t.at = a /\ t.cuts = C /\ t.hidden = H /\ t.ok = s.ok
  BY <1>1, <1>2, <1>3
<1> QED BY <1>4 DEF t

\* Only ok is another.
LEMMA CutVerdicts ==
    ASSUME NEW s \in CutState, NEW b \in BOOLEAN
    PROVE  LET t == [s EXCEPT !.ok = b]
           IN  t \in CutState /\ t.at = s.at /\ t.cuts = s.cuts /\ t.hidden = s.hidden /\ t.ok = b
<1>1. s = [at |-> s.at, cuts |-> s.cuts, hidden |-> s.hidden, ok |-> s.ok]
      /\ s.at \in Nat /\ s.cuts \in SUBSET Nat /\ s.hidden \in SUBSET Nat
  BY DEF CutState
<1> DEFINE t == [s EXCEPT !.ok = b]
<1>2. t = [at |-> s.at, cuts |-> s.cuts, hidden |-> s.hidden, ok |-> b]
  BY <1>1
<1> HIDE DEF t
<1>3. t \in CutState /\ t.at = s.at /\ t.cuts = s.cuts /\ t.hidden = s.hidden /\ t.ok = b
  BY <1>1, <1>2 DEF CutState
<1> QED BY <1>3 DEF t

\* Without a skipping pattern the first piece begins with the first line, and
\* what is hidden is a line that a pattern matches.
CutsRight(input, pats, s) ==
    /\ s \in CutState
    /\ (\A p \in pats : ~p.skip) => 0 \in s.cuts
    /\ \A h \in s.hidden : /\ h + 1 \in 1..Len(input)
                           /\ \E p \in pats : "match" \in DOMAIN p /\ p.match = input[h + 1]

\* The next match is a line at or after s.at.
LEMMA NextMatchIs ==
    ASSUME NEW input, Len(input) \in Nat, NEW pat, NEW s \in CutState, Matched(input, pat, s) # {}
    PROVE  LET hit == NextMatch(input, pat, s)
           IN  /\ hit \in Nat /\ hit >= s.at /\ hit + 1 \in 1..Len(input) /\ input[hit + 1] = pat.match
               /\ \A l \in Matched(input, pat, s) : hit <= l
<1>1. s.at \in Nat BY DEF CutState
<1> DEFINE M == Matched(input, pat, s)
<1>2. M \subseteq Nat /\ \A l \in M : l >= s.at /\ l + 1 \in 1..Len(input) /\ input[l + 1] = pat.match
  BY <1>1 DEF Matched
<1> HIDE DEF M
<1>3. \E l \in M : \A k \in M : l <= k BY <1>2, LeastNat DEF M
<1>4. NextMatch(input, pat, s) \in M /\ \A k \in M : NextMatch(input, pat, s) <= k
  BY <1>3 DEF NextMatch, M
<1> QED BY <1>2, <1>4 DEF M

\* A line number cuts right.
LEMMA LineCutsRight ==
    ASSUME NEW input, Len(input) \in Nat, NEW pats, NEW pat \in pats, IsPattern(pat), "line" \in DOMAIN pat,
           NEW s, CutsRight(input, pats, s)
    PROVE  CutsRight(input, pats, CutAtLine(input, pat, s))
<1> DEFINE n == Len(input)
           z == pat.line + pat.offset
           idx == (IF z < 1 THEN 1 ELSE z) - 1
           start == AtEnd(input, AtZero(z))
<1>1. z \in Int /\ pat.skip \in BOOLEAN /\ n \in Nat BY DEF IsPattern
<1>2. idx \in Nat /\ start \in Nat BY <1>1 DEF AtEnd, AtZero, AtMost
<1>3. s \in CutState /\ s.cuts \in SUBSET Nat /\ s.hidden \in SUBSET Nat
  BY DEF CutsRight, CutState
<1>4. CutAtLine(input, pat, s) =
        IF pat.skip THEN [s EXCEPT !.at = start, !.cuts = {start}]
        ELSE IF idx > s.at /\ idx <= Len(input) THEN [s EXCEPT !.at = idx, !.cuts = s.cuts \cup {idx}]
        ELSE [s EXCEPT !.ok = FALSE]
  BY DEF CutAtLine
<1> HIDE DEF z, idx, start
<1>5. CASE pat.skip
  <2> DEFINE C == {start}
             t == Moved(s, start, C)
  <2>1. C \in SUBSET Nat BY <1>2
  <2> HIDE DEF C
  <2>2. t \in CutState /\ t.hidden = s.hidden
    BY <1>2, <1>3, <2>1, CutStates
  <2> HIDE DEF t
  <2>3. CutsRight(input, pats, t) BY <1>5, <2>2 DEF CutsRight
  <2> QED BY <1>4, <1>5, <2>3 DEF t, C, Moved
<1>6. CASE ~pat.skip /\ idx > s.at /\ idx <= Len(input)
  <2> DEFINE C == s.cuts \cup {idx}
             t == Moved(s, idx, C)
  <2>1. C \in SUBSET Nat /\ s.cuts \subseteq C BY <1>2, <1>3
  <2> HIDE DEF C
  <2>2. t \in CutState /\ t.hidden = s.hidden /\ t.cuts = C
    BY <1>2, <1>3, <2>1, CutStates
  <2> HIDE DEF t
  <2>3. CutsRight(input, pats, t) BY <2>1, <2>2 DEF CutsRight
  <2> QED BY <1>4, <1>6, <2>3 DEF t, C, Moved
<1>7. CASE ~pat.skip /\ ~(idx > s.at /\ idx <= Len(input))
  <2> DEFINE b == FALSE
             t == [s EXCEPT !.ok = b]
  <2>1. b \in BOOLEAN OBVIOUS
  <2> HIDE DEF b
  <2>2. t \in CutState /\ t.hidden = s.hidden /\ t.cuts = s.cuts
    BY <1>3, <2>1, CutVerdicts
  <2> HIDE DEF t
  <2>3. CutsRight(input, pats, t) BY <2>2 DEF CutsRight
  <2> QED BY <1>4, <1>7, <2>3 DEF t, b
<1> QED BY <1>5, <1>6, <1>7

\* A match cuts right.
LEMMA MatchCutsRight ==
    ASSUME NEW cfg, NEW input, Len(input) \in Nat, NEW pats, NEW pat \in pats, IsPattern(pat),
           "match" \in DOMAIN pat, NEW s, CutsRight(input, pats, s)
    PROVE  CutsRight(input, pats, CutAtMatch(cfg, input, pat, s))
<1> DEFINE hit == NextMatch(input, pat, s)
           cut1 == AtZero(hit + pat.offset)
           end == AtEnd(input, cut1)
<1>1. s \in CutState /\ s.cuts \in SUBSET Nat /\ s.hidden \in SUBSET Nat /\ s.at \in Nat
  BY DEF CutsRight, CutState
<1>2. CASE Matched(input, pat, s) = {}
  <2> DEFINE b == FALSE
             t == [s EXCEPT !.ok = b]
  <2>1. b \in BOOLEAN OBVIOUS
  <2> HIDE DEF b
  <2>2. t \in CutState /\ t.hidden = s.hidden /\ t.cuts = s.cuts
    BY <1>1, <2>1, CutVerdicts
  <2>3. CutAtMatch(cfg, input, pat, s) = t BY <1>2 DEF CutAtMatch, b
  <2> HIDE DEF t
  <2>4. CutsRight(input, pats, t) BY <2>2 DEF CutsRight
  <2> QED BY <2>3, <2>4
<1>3. CASE Matched(input, pat, s) # {}
  <2>1. hit \in Nat /\ hit + 1 \in 1..Len(input) /\ input[hit + 1] = pat.match
    BY <1>1, <1>3, NextMatchIs
  <2>2. pat.offset \in Int /\ pat.skip \in BOOLEAN BY DEF IsPattern
  <2> HIDE DEF hit
  <2>3. cut1 \in Nat /\ end \in Nat
    BY <2>1, <2>2 DEF AtEnd, AtZero, AtMost
  <2>4. CutAtMatch(cfg, input, pat, s) =
          IF pat.skip THEN [s EXCEPT !.at = end, !.cuts = {end}]
          ELSE IF cfg.suppress
          THEN [s EXCEPT !.at = hit + 1, !.cuts = s.cuts \cup {hit, hit + 1}, !.hidden = s.hidden \cup {hit}]
          ELSE [s EXCEPT !.at = cut1, !.cuts = IF cut1 > s.at THEN s.cuts \cup {cut1} ELSE s.cuts]
    BY <1>3 DEF CutAtMatch, hit
  <2> HIDE DEF cut1, end
  <2>5. CASE pat.skip
    <3> DEFINE C == {end}
               t == Moved(s, end, C)
    <3>1. C \in SUBSET Nat BY <2>3
    <3> HIDE DEF C
    <3>2. t \in CutState /\ t.hidden = s.hidden
      BY <1>1, <2>3, <3>1, CutStates
    <3> HIDE DEF t
    <3>3. CutsRight(input, pats, t) BY <2>5, <3>2 DEF CutsRight
    <3> QED BY <2>4, <2>5, <3>3 DEF t, C, Moved
  <2>6. CASE ~pat.skip /\ cfg.suppress
    <3> DEFINE a == hit + 1
               C == s.cuts \cup {hit, hit + 1}
               H == s.hidden \cup {hit}
               t == Hiding(s, a, C, H)
    <3>1. a \in Nat /\ C \in SUBSET Nat /\ H \in SUBSET Nat /\ s.cuts \subseteq C
      BY <1>1, <2>1
    <3>2. \A h \in H : h \in s.hidden \/ h = hit OBVIOUS
    <3> HIDE DEF a, C, H
    <3>3. t \in CutState /\ t.hidden = H /\ t.cuts = C
      BY <1>1, <3>1, HidingStates
    <3> HIDE DEF t
    <3>4. ASSUME NEW h \in H
          PROVE  h + 1 \in 1..Len(input) /\ \E p \in pats : "match" \in DOMAIN p /\ p.match = input[h + 1]
      <4>1. CASE h = hit BY <2>1, <4>1
      <4>2. CASE h \in s.hidden BY <4>2 DEF CutsRight
      <4> QED BY <3>2, <4>1, <4>2
    <3>5. CutsRight(input, pats, t) BY <3>1, <3>3, <3>4 DEF CutsRight
    <3> QED BY <2>4, <2>6, <3>5 DEF t, a, C, H, Hiding
  <2>7. CASE ~pat.skip /\ ~cfg.suppress
    <3> DEFINE C == IF cut1 > s.at THEN s.cuts \cup {cut1} ELSE s.cuts
               t == Moved(s, cut1, C)
    <3>1. C \in SUBSET Nat /\ s.cuts \subseteq C BY <1>1, <2>3
    <3> HIDE DEF C
    <3>2. t \in CutState /\ t.hidden = s.hidden /\ t.cuts = C
      BY <1>1, <2>3, <3>1, CutStates
    <3> HIDE DEF t
    <3>3. CutsRight(input, pats, t) BY <3>1, <3>2 DEF CutsRight
    <3> QED BY <2>4, <2>7, <3>3 DEF t, C, Moved
  <2> QED BY <2>2, <2>5, <2>6, <2>7
<1> QED BY <1>2, <1>3

\* One of the times a pattern is looked for.
LEMMA AgainCutsRight ==
    ASSUME NEW cfg, NEW input, Len(input) \in Nat, NEW pats, NEW pat \in pats, IsPattern(pat),
           NEW s, CutsRight(input, pats, s), NEW isLast \in BOOLEAN
    PROVE  CutsRight(input, pats, Again(cfg, input, pat, s, isLast))
<1> DEFINE r == IF "line" \in DOMAIN pat THEN CutAtLine(input, pat, s) ELSE CutAtMatch(cfg, input, pat, s)
<1>1. CutsRight(input, pats, r)
  BY LineCutsRight, MatchCutsRight DEF IsPattern
<1>2. Again(cfg, input, pat, s, isLast) = IF s.ok THEN [r EXCEPT !.ok = r.ok \/ isLast] ELSE s
  BY DEF Again
<1> HIDE DEF r
<1> DEFINE b == r.ok \/ isLast
           t == [r EXCEPT !.ok = b]
<1>3. r \in CutState /\ b \in BOOLEAN BY <1>1 DEF CutsRight, CutState
<1> HIDE DEF b
<1>4. t \in CutState /\ t.cuts = r.cuts /\ t.hidden = r.hidden
  BY <1>3, CutVerdicts
<1> HIDE DEF t
<1>5. CutsRight(input, pats, t) BY <1>1, <1>4 DEF CutsRight
<1> QED BY <1>2, <1>5 DEF t, b

\* The states of the loop over a pattern's repeats.
Repeating(h, cfg, input, pat, s) ==
    h = [k \in 0..pat.repeat + 1 |-> IF k = 0 THEN s ELSE Again(cfg, input, pat, h[k - 1], k = pat.repeat + 1)]

\* Repeated goes through such states.
LEMMA RepeatedIs ==
    ASSUME NEW cfg, NEW input, NEW pat, pat.repeat + 1 \in Nat, NEW zero
    PROVE  \E h : Repeating(h, cfg, input, pat, zero) /\ Repeated(cfg, input, pat, zero) = h[pat.repeat + 1]
<1> DEFINE v == zero
           G(s, k) == Again(cfg, input, pat, s, k = pat.repeat + 1)
           T == {m \in Nat : \E h : h = [k \in 0..m |-> IF k = 0 THEN v ELSE G(h[k - 1], k)]}
<1> HIDE DEF v, G
<1>1. 0 \in T
  <2> DEFINE h == [k \in 0..0 |-> v]
  <2>1. h = [k \in 0..0 |-> IF k = 0 THEN v ELSE G(h[k - 1], k)] OBVIOUS
  <2> HIDE DEF h
  <2> QED BY <2>1
<1>2. ASSUME NEW m \in Nat, m \in T PROVE m + 1 \in T
  <2>1. PICK h : h = [k \in 0..m |-> IF k = 0 THEN v ELSE G(h[k - 1], k)]
    BY <1>2
  <2> DEFINE g == [k \in 0..m + 1 |-> IF k \in 0..m THEN h[k] ELSE G(h[m], k)]
  <2>2. ASSUME NEW k \in 0..m + 1 PROVE g[k] = IF k = 0 THEN v ELSE G(g[k - 1], k)
    <3>1. CASE k = 0 BY <2>1, <3>1
    <3>2. CASE k \in 1..m
      <4>1. k \in 0..m /\ k - 1 \in 0..m /\ k # 0 /\ k - 1 \in 0..m + 1
        BY <3>2
      <4>2. g[k] = h[k] /\ g[k - 1] = h[k - 1] BY <4>1
      <4> HIDE DEF g
      <4> QED BY <2>1, <4>1, <4>2
    <3>3. CASE k = m + 1
      <4>1. k \notin 0..m /\ k - 1 = m /\ m \in 0..m /\ k # 0 /\ m \in 0..m + 1
        BY <3>3
      <4>2. g[k] = G(h[m], k) /\ g[m] = h[m] BY <4>1
      <4> HIDE DEF g
      <4> QED BY <4>1, <4>2
    <3> QED BY <3>1, <3>2, <3>3
  <2>3. g = [k \in 0..m + 1 |-> IF k = 0 THEN v ELSE G(g[k - 1], k)]
    <3>1. g = [k \in 0..m + 1 |-> g[k]] OBVIOUS
    <3> HIDE DEF g
    <3> QED BY <2>2, <3>1
  <2> HIDE DEF g
  <2> QED BY <2>3
<1>3. Nat \subseteq T
  <2> HIDE DEF T
  <2> QED BY <1>1, <1>2, SetInduction
<1>4. \E h : h = [k \in 0..pat.repeat + 1 |-> IF k = 0 THEN v ELSE G(h[k - 1], k)]
  BY <1>3
<1> DEFINE C == CHOOSE h : h = [k \in 0..pat.repeat + 1 |-> IF k = 0 THEN zero ELSE Again(cfg, input, pat, h[k - 1], k = pat.repeat + 1)]
<1>5. C = [k \in 0..pat.repeat + 1 |-> IF k = 0 THEN zero ELSE Again(cfg, input, pat, C[k - 1], k = pat.repeat + 1)]
  BY <1>4 DEF v, G
<1>6. Repeated(cfg, input, pat, zero) = C[pat.repeat + 1]
  BY DEF Repeated
<1> HIDE DEF C
<1> QED BY <1>5, <1>6 DEF Repeating

\* The states of the loop over the patterns.
Cutting(h, cfg, input, pats) ==
    h = [k \in 0..Len(pats) |-> IF k = 0 THEN Start ELSE Repeated(cfg, input, pats[k], h[k - 1])]

\* Cuts goes through such states.
LEMMA CutsAre ==
    ASSUME NEW cfg, NEW input, NEW pats, Len(pats) \in Nat
    PROVE  \E h : Cutting(h, cfg, input, pats) /\ Cuts(cfg, input, pats) = h[Len(pats)]
<1> DEFINE v == Start
           G(s, k) == Repeated(cfg, input, pats[k], s)
           T == {m \in Nat : \E h : h = [k \in 0..m |-> IF k = 0 THEN v ELSE G(h[k - 1], k)]}
<1> HIDE DEF v, G
<1>1. 0 \in T
  <2> DEFINE h == [k \in 0..0 |-> v]
  <2>1. h = [k \in 0..0 |-> IF k = 0 THEN v ELSE G(h[k - 1], k)] OBVIOUS
  <2> HIDE DEF h
  <2> QED BY <2>1
<1>2. ASSUME NEW m \in Nat, m \in T PROVE m + 1 \in T
  <2>1. PICK h : h = [k \in 0..m |-> IF k = 0 THEN v ELSE G(h[k - 1], k)]
    BY <1>2
  <2> DEFINE g == [k \in 0..m + 1 |-> IF k \in 0..m THEN h[k] ELSE G(h[m], k)]
  <2>2. ASSUME NEW k \in 0..m + 1 PROVE g[k] = IF k = 0 THEN v ELSE G(g[k - 1], k)
    <3>1. CASE k = 0 BY <2>1, <3>1
    <3>2. CASE k \in 1..m
      <4>1. k \in 0..m /\ k - 1 \in 0..m /\ k # 0 /\ k - 1 \in 0..m + 1
        BY <3>2
      <4>2. g[k] = h[k] /\ g[k - 1] = h[k - 1] BY <4>1
      <4> HIDE DEF g
      <4> QED BY <2>1, <4>1, <4>2
    <3>3. CASE k = m + 1
      <4>1. k \notin 0..m /\ k - 1 = m /\ m \in 0..m /\ k # 0 /\ m \in 0..m + 1
        BY <3>3
      <4>2. g[k] = G(h[m], k) /\ g[m] = h[m] BY <4>1
      <4> HIDE DEF g
      <4> QED BY <4>1, <4>2
    <3> QED BY <3>1, <3>2, <3>3
  <2>3. g = [k \in 0..m + 1 |-> IF k = 0 THEN v ELSE G(g[k - 1], k)]
    <3>1. g = [k \in 0..m + 1 |-> g[k]] OBVIOUS
    <3> HIDE DEF g
    <3> QED BY <2>2, <3>1
  <2> HIDE DEF g
  <2> QED BY <2>3
<1>3. Nat \subseteq T
  <2> HIDE DEF T
  <2> QED BY <1>1, <1>2, SetInduction
<1>4. \E h : h = [k \in 0..Len(pats) |-> IF k = 0 THEN v ELSE G(h[k - 1], k)]
  BY <1>3
<1> DEFINE C == CHOOSE h : h = [k \in 0..Len(pats) |-> IF k = 0 THEN Start ELSE Repeated(cfg, input, pats[k], h[k - 1])]
<1>5. C = [k \in 0..Len(pats) |-> IF k = 0 THEN Start ELSE Repeated(cfg, input, pats[k], C[k - 1])]
  BY <1>4 DEF v, G
<1>6. Cuts(cfg, input, pats) = C[Len(pats)] BY DEF Cuts
<1> HIDE DEF C
<1> QED BY <1>5, <1>6 DEF Cutting

\* A pattern cuts right however often it is looked for.
LEMMA RepeatedRight ==
    ASSUME NEW cfg, NEW input, Len(input) \in Nat, NEW pats, NEW pat \in pats, IsPattern(pat),
           NEW s, CutsRight(input, pats, s)
    PROVE  CutsRight(input, pats, Repeated(cfg, input, pat, s))
<1> DEFINE n == pat.repeat + 1
<1>1. n \in Nat BY DEF IsPattern
<1>2. PICK h : Repeating(h, cfg, input, pat, s) /\ Repeated(cfg, input, pat, s) = h[n]
  BY <1>1, RepeatedIs
<1>3. h[0] = s /\ \A k \in 1..n : h[k] = Again(cfg, input, pat, h[k - 1], k = n)
  BY <1>1, <1>2 DEF Repeating
<1> HIDE DEF n
<1> DEFINE T == {k \in Nat : k <= n => CutsRight(input, pats, h[k])}
<1>4. 0 \in T BY <1>3
<1>5. ASSUME NEW k \in Nat, k \in T PROVE k + 1 \in T
  <2> SUFFICES ASSUME k + 1 <= n PROVE CutsRight(input, pats, h[k + 1])
    OBVIOUS
  <2> DEFINE isLast == k + 1 = n
             q == h[k]
  <2>1. k + 1 \in 1..n /\ (k + 1) - 1 = k BY <1>1
  <2>2. CutsRight(input, pats, q) BY <1>1, <1>5
  <2>3. h[k + 1] = Again(cfg, input, pat, q, isLast) BY <1>3, <2>1
  <2>4. isLast \in BOOLEAN OBVIOUS
  <2> HIDE DEF isLast, q
  <2> QED BY <2>2, <2>3, <2>4, AgainCutsRight
<1>6. Nat \subseteq T
  <2> HIDE DEF T
  <2> QED BY <1>4, <1>5, SetInduction
<1>7. CutsRight(input, pats, h[n]) BY <1>1, <1>6
<1> QED BY <1>2, <1>7

\* So do all patterns.
LEMMA CutsHold ==
    ASSUME NEW cfg, NEW input, Len(input) \in Nat, NEW S, NEW pats \in Seq(S),
           \A p \in ToSet(pats) : IsPattern(p)
    PROVE  CutsRight(input, ToSet(pats), Cuts(cfg, input, pats))
<1> DEFINE n == Len(pats)
           P == ToSet(pats)
<1>1. n \in Nat /\ \A k \in 1..n : pats[k] \in P
  BY LenProperties DEF ToSet
<1>2. PICK h : Cutting(h, cfg, input, pats) /\ Cuts(cfg, input, pats) = h[n]
  BY <1>1, CutsAre
<1>3. h[0] = Start /\ \A k \in 1..n : h[k] = Repeated(cfg, input, pats[k], h[k - 1])
  BY <1>1, <1>2 DEF Cutting
<1> HIDE DEF n, P
<1> DEFINE T == {k \in Nat : k <= n => CutsRight(input, P, h[k])}
<1>4. 0 \in T
  <2>1. Start.cuts = {0} /\ Start.hidden = {} BY DEF Start
  <2>2. Start \in CutState BY DEF Start, CutState
  <2>3. CutsRight(input, P, Start) BY <2>1, <2>2 DEF CutsRight
  <2> QED BY <1>3, <2>3
<1>5. ASSUME NEW k \in Nat, k \in T PROVE k + 1 \in T
  <2> SUFFICES ASSUME k + 1 <= n PROVE CutsRight(input, P, h[k + 1])
    OBVIOUS
  <2> DEFINE q == h[k]
             pat == pats[k + 1]
  <2>1. k + 1 \in 1..n /\ (k + 1) - 1 = k BY <1>1
  <2>2. CutsRight(input, P, q) BY <1>1, <1>5
  <2>3. h[k + 1] = Repeated(cfg, input, pat, q) BY <1>3, <2>1
  <2>4. pat \in P /\ IsPattern(pat) BY <1>1, <2>1 DEF P
  <2> HIDE DEF q, pat
  <2> QED BY <2>2, <2>3, <2>4, RepeatedRight
<1>6. Nat \subseteq T
  <2> HIDE DEF T
  <2> QED BY <1>4, <1>5, SetInduction
<1>7. CutsRight(input, P, h[n]) BY <1>1, <1>6
<1> QED BY <1>2, <1>7 DEF P

\* The line was found and is a cut.
Found(s, hit) == s \in CutState /\ s.at = hit /\ s.cuts = {0, hit} /\ s.ok = TRUE

\* A pattern that is cut at its matches.
Plain(cfg, pat) ==
    "line" \notin DOMAIN pat /\ pat.offset = 0 /\ pat.skip = FALSE /\ ~cfg.suppress

\* The first time the pattern is looked for it is found in a later line, and each time
\* after that in the same line again.
FoundOnce(cfg, input, pat, isLast) ==
    LET hit == NextMatch(input, pat, Start)
    IN  /\ hit \in Nat /\ hit > 0 /\ hit + 1 \in 2..Len(input) /\ input[hit + 1] = pat.match
        /\ Found(Again(cfg, input, pat, Start, isLast), hit)
        /\ \A s : Found(s, hit) => Found(Again(cfg, input, pat, s, isLast), hit)

\* So it is with a plain one that the first line does not match.
LEMMA FoundAgain ==
    ASSUME NEW cfg, NEW input, Len(input) \in Nat, NEW pat, Plain(cfg, pat),
           NEW i \in 2..Len(input), input[i] = pat.match, input[1] # pat.match,
           NEW isLast \in BOOLEAN
    PROVE  FoundOnce(cfg, input, pat, isLast)
<1> DEFINE hit == NextMatch(input, pat, Start)
<1>1. Start \in CutState /\ Start.at = 0 /\ Start.cuts = {0} /\ Start.ok = TRUE
  BY DEF Start, CutState
<1>2. i - 1 \in Matched(input, pat, Start)
  <2> DEFINE l == i - 1
  <2>1. l \in 0..Len(input) - 1 /\ l + 1 = i OBVIOUS
  <2> HIDE DEF l
  <2>2. input[l + 1] = pat.match BY <2>1
  <2> QED BY <1>1, <2>1, <2>2 DEF Matched, l
<1>3. hit \in Nat /\ hit + 1 \in 1..Len(input) /\ input[hit + 1] = pat.match
  BY <1>1, <1>2, NextMatchIs
<1>4. hit > 0 /\ hit + 1 \in 2..Len(input)
  <2>1. hit # 0 BY <1>3
  <2> QED BY <1>3, <2>1
<1> HIDE DEF hit
<1>5. ASSUME NEW s \in CutState, Matched(input, pat, s) # {}, NextMatch(input, pat, s) = hit, s.ok = TRUE,
             NEW C \in SUBSET Nat, C = IF hit > s.at THEN s.cuts \cup {hit} ELSE s.cuts, C = {0, hit}
      PROVE  Found(Again(cfg, input, pat, s, isLast), hit)
  <2>1. AtZero(hit + pat.offset) = hit BY <1>3 DEF Plain, AtZero
  <2> DEFINE r == Moved(s, hit, C)
             b == r.ok \/ isLast
             t == [r EXCEPT !.ok = b]
  <2>2. CutAtMatch(cfg, input, pat, s) = r
    BY <1>5, <2>1 DEF Plain, CutAtMatch, Moved
  <2>3. r \in CutState /\ r.at = hit /\ r.cuts = C /\ r.ok = s.ok
    BY <1>3, CutStates
  <2>4. Again(cfg, input, pat, s, isLast) = t
    BY <1>5, <2>2 DEF Again, Plain
  <2> HIDE DEF r
  <2>5. b \in BOOLEAN /\ b = TRUE BY <1>5, <2>3
  <2> HIDE DEF b
  <2>6. t \in CutState /\ t.at = r.at /\ t.cuts = r.cuts /\ t.ok = b
    BY <2>3, <2>5, CutVerdicts
  <2> HIDE DEF t
  <2>7. Found(t, hit) BY <1>5, <2>3, <2>5, <2>6 DEF Found
  <2> QED BY <2>4, <2>7
<1>6. Found(Again(cfg, input, pat, Start, isLast), hit)
  <2> DEFINE C == {0, hit}
  <2>1. C \in SUBSET Nat /\ C = IF hit > Start.at THEN Start.cuts \cup {hit} ELSE Start.cuts
    BY <1>1, <1>3, <1>4
  <2>2. Matched(input, pat, Start) # {} /\ NextMatch(input, pat, Start) = hit
    BY <1>2 DEF hit
  <2> HIDE DEF C
  <2> QED BY <1>1, <1>5, <2>1, <2>2 DEF C
<1>7. ASSUME NEW s, Found(s, hit) PROVE Found(Again(cfg, input, pat, s, isLast), hit)
  <2>1. s \in CutState /\ s.at = hit /\ s.cuts = {0, hit} /\ s.ok = TRUE
    BY <1>7 DEF Found
  <2>2. hit \in Matched(input, pat, s) BY <1>3, <2>1 DEF Matched
  <2>3. NextMatch(input, pat, s) = hit
    <3> DEFINE g == NextMatch(input, pat, s)
    <3>1. g \in Nat /\ g >= s.at /\ g <= hit BY <2>1, <2>2, NextMatchIs
    <3> HIDE DEF g
    <3>2. g = hit BY <1>3, <2>1, <3>1
    <3> QED BY <3>2 DEF g
  <2> DEFINE C == {0, hit}
  <2>4. C \in SUBSET Nat /\ C = IF hit > s.at THEN s.cuts \cup {hit} ELSE s.cuts
    BY <1>3, <2>1
  <2> HIDE DEF C
  <2> QED BY <1>5, <2>1, <2>2, <2>3, <2>4 DEF C
<1> QED BY <1>3, <1>4, <1>6, <1>7 DEF hit, FoundOnce

\* The only cut is before a line behind the first that the pattern matches.
CutAtOne(input, pat, cuts) ==
    \E hit \in Nat : /\ hit > 0 /\ hit + 1 \in 2..Len(input) /\ input[hit + 1] = pat.match
                     /\ cuts = {0, hit}

\* A single plain pattern makes the first line it matches a cut.
LEMMA OneCut ==
    ASSUME NEW cfg, NEW input, Len(input) \in Nat, NEW pats, Len(pats) = 1, NEW pat, pat = pats[1],
           IsPattern(pat), Plain(cfg, pat),
           NEW i \in 2..Len(input), input[i] = pat.match, input[1] # pat.match
    PROVE  CutAtOne(input, pat, Cuts(cfg, input, pats).cuts)
<1> DEFINE hit == NextMatch(input, pat, Start)
           n == pat.repeat + 1
<1>1. ASSUME NEW isLast \in BOOLEAN
      PROVE  /\ hit \in Nat /\ hit > 0 /\ hit + 1 \in 2..Len(input) /\ input[hit + 1] = pat.match
             /\ Found(Again(cfg, input, pat, Start, isLast), hit)
             /\ \A s : Found(s, hit) => Found(Again(cfg, input, pat, s, isLast), hit)
  <2>1. FoundOnce(cfg, input, pat, isLast) BY FoundAgain
  <2> QED BY <2>1 DEF FoundOnce
<1>2. n \in Nat /\ n >= 1 BY DEF IsPattern
<1>3. PICK g : Cutting(g, cfg, input, pats) /\ Cuts(cfg, input, pats) = g[1]
  <2>1. Len(pats) \in Nat OBVIOUS
  <2> QED BY <2>1, CutsAre
<1>4. g[1] = Repeated(cfg, input, pat, Start)
  <2>1. g[0] = Start /\ g[1] = Repeated(cfg, input, pats[1], g[1 - 1])
    BY <1>3 DEF Cutting
  <2> QED BY <2>1
<1>5. PICK h : Repeating(h, cfg, input, pat, Start) /\ Repeated(cfg, input, pat, Start) = h[n]
  BY <1>2, RepeatedIs
<1>6. h[0] = Start /\ \A k \in 1..n : h[k] = Again(cfg, input, pat, h[k - 1], k = n)
  BY <1>2, <1>5 DEF Repeating
<1> HIDE DEF n, hit
<1> DEFINE T == {k \in Nat : k + 1 <= n => Found(h[k + 1], hit)}
<1>7. 0 \in T
  <2> DEFINE isLast == 1 = n
  <2>1. isLast \in BOOLEAN OBVIOUS
  <2>2. h[1] = Again(cfg, input, pat, Start, isLast)
    <3>1. 1 \in 1..n /\ 1 - 1 = 0 BY <1>2
    <3> QED BY <1>6, <3>1
  <2> HIDE DEF isLast
  <2>3. Found(h[1], hit) BY <1>1, <2>1, <2>2
  <2> QED BY <2>3
<1>8. ASSUME NEW k \in Nat, k \in T PROVE k + 1 \in T
  <2> SUFFICES ASSUME (k + 1) + 1 <= n PROVE Found(h[(k + 1) + 1], hit)
    OBVIOUS
  <2> DEFINE j == (k + 1) + 1
             isLast == j = n
             q == h[k + 1]
  <2>1. j \in 1..n /\ j - 1 = k + 1 BY <1>2
  <2>2. Found(q, hit) BY <1>2, <1>8
  <2> HIDE DEF j
  <2>3. h[j] = Again(cfg, input, pat, q, isLast) BY <1>6, <2>1
  <2>4. isLast \in BOOLEAN OBVIOUS
  <2> HIDE DEF isLast, q
  <2>5. Found(h[j], hit) BY <1>1, <2>2, <2>3, <2>4
  <2> QED BY <2>5 DEF j
<1>9. Nat \subseteq T
  <2> HIDE DEF T
  <2> QED BY <1>7, <1>8, SetInduction
<1>10. Found(h[n], hit)
  <2> DEFINE k == n - 1
  <2>1. k \in Nat /\ k + 1 = n BY <1>2
  <2> HIDE DEF k
  <2>2. k \in T BY <1>9, <2>1
  <2>3. Found(h[k + 1], hit) BY <1>2, <2>1, <2>2
  <2> QED BY <2>1, <2>3
<1>11. Cuts(cfg, input, pats).cuts = {0, hit}
  BY <1>3, <1>4, <1>5, <1>10 DEF Found
<1> QED BY <1>1, <1>11 DEF CutAtOne

\* The next cut is the nearest one behind a line, or the end.
LEMMA NextCutIs ==
    ASSUME NEW input, Len(input) \in Nat, NEW cuts \in SUBSET Nat, NEW l \in Nat, l < Len(input)
    PROVE  LET c == NextCut(input, cuts, l)
           IN  /\ c \in l + 1..Len(input)
               /\ l + 1 \in cuts => c = l + 1
               /\ (l + 1 \notin cuts /\ l + 1 < Len(input)) => c = NextCut(input, cuts, l + 1)
<1> DEFINE n == Len(input)
           C(j) == {c \in cuts \cup {n} : c > j}
<1>1. ASSUME NEW j \in Nat, j < n
      PROVE  LET c == NextCut(input, cuts, j)
             IN  c \in cuts \cup {n} /\ c \in j + 1..n /\ \A d \in cuts \cup {n} : d > j => c <= d
  <2> DEFINE D == C(j)
             c == Min(D)
  <2>1. D \subseteq Nat /\ n \in D BY <1>1
  <2>2. \A d : d \in D <=> d \in cuts \cup {n} /\ d > j OBVIOUS
  <2>3. NextCut(input, cuts, j) = c BY DEF NextCut
  <2> HIDE DEF D
  <2>4. c \in D /\ \A d \in D : c <= d BY <2>1, MinFacts
  <2> HIDE DEF c
  <2>5. c \in cuts \cup {n} /\ c > j /\ c <= n /\ c \in Nat
    BY <2>1, <2>2, <2>4
  <2>6. c \in j + 1..n BY <1>1, <2>5
  <2>7. \A d \in cuts \cup {n} : d > j => c <= d BY <2>2, <2>4
  <2> QED BY <2>3, <2>5, <2>6, <2>7
<1> DEFINE c == NextCut(input, cuts, l)
<1>2. c \in cuts \cup {n} /\ c \in l + 1..n /\ \A d \in cuts \cup {n} : d > l => c <= d
  BY <1>1
<1>3. l + 1 \in cuts => c = l + 1
  <2> SUFFICES ASSUME l + 1 \in cuts PROVE c = l + 1 OBVIOUS
  <2> HIDE DEF c
  <2>1. c <= l + 1 BY <1>2
  <2> QED BY <1>2, <2>1
<1>4. (l + 1 \notin cuts /\ l + 1 < n) => c = NextCut(input, cuts, l + 1)
  <2> SUFFICES ASSUME l + 1 \notin cuts, l + 1 < n PROVE c = NextCut(input, cuts, l + 1)
    OBVIOUS
  <2> DEFINE j == l + 1
             e == NextCut(input, cuts, j)
  <2>1. j \in Nat /\ j < n /\ j \notin cuts /\ j > l OBVIOUS
  <2>2. e \in cuts \cup {n} /\ e \in j + 1..n /\ \A d \in cuts \cup {n} : d > j => e <= d
    BY <1>1, <2>1
  <2> HIDE DEF c, e
  <2>3. c # j BY <1>2, <2>1
  <2>4. c > j /\ e > l BY <1>2, <2>1, <2>2, <2>3
  <2>5. c <= e /\ e <= c BY <1>2, <2>2, <2>4
  <2>6. c = e BY <1>2, <2>2, <2>5
  <2> QED BY <2>6 DEF e
<1> QED BY <1>2, <1>3, <1>4

\* The piece that would begin with each line.
PieceAt(input, cuts) == [k \in 1..Len(input) |-> SubSeq(input, k, NextCut(input, cuts, k - 1))]

\* The lines whose piece is written.
KeptAt(input, cuts, sup, hidden) ==
    {k \in 1..Len(input) : /\ k - 1 \in cuts
                           /\ ~(sup /\ k - 1..NextCut(input, cuts, k - 1) - 1 \subseteq hidden)}

\* Such a piece is not empty, begins with its line and holds the lines up to the next cut.
LEMMA PieceAtIs ==
    ASSUME NEW S, NEW input \in Seq(S), NEW cuts \in SUBSET Nat
    PROVE  LET p == PieceAt(input, cuts)
           IN  /\ p \in Seq(Seq(S) \ {<<>>}) /\ p \in Seq(Seq(S)) /\ Len(p) = Len(input)
               /\ \A k \in 1..Len(input) : /\ p[k] = SubSeq(input, k, NextCut(input, cuts, k - 1))
                                           /\ Len(p[k]) = NextCut(input, cuts, k - 1) - k + 1
                                           /\ p[k][1] = input[k]
                                           /\ \A i \in k..NextCut(input, cuts, k - 1) : input[i] \in ToSet(p[k])
<1> DEFINE n == Len(input)
           p == PieceAt(input, cuts)
           Q == Seq(S) \ {<<>>}
<1>1. n \in Nat /\ \A i \in 1..n : input[i] \in S
  BY LenProperties, ElementOfSeq
<1>2. p = [k \in 1..n |-> p[k]] /\ \A k \in 1..n : p[k] = SubSeq(input, k, NextCut(input, cuts, k - 1))
  BY DEF PieceAt
<1> HIDE DEF p
<1>3. ASSUME NEW k \in 1..n
      PROVE  /\ p[k] \in Q /\ Len(p[k]) = NextCut(input, cuts, k - 1) - k + 1
             /\ p[k][1] = input[k]
             /\ \A i \in k..NextCut(input, cuts, k - 1) : input[i] \in ToSet(p[k])
  <2> DEFINE l == k - 1
             c == NextCut(input, cuts, l)
             q == SubSeq(input, k, c)
  <2>1. l \in Nat /\ l < n /\ l + 1 = k BY <1>1
  <2> HIDE DEF l
  <2>2. c \in l + 1..n BY <1>1, <2>1, NextCutIs
  <2> HIDE DEF c
  <2>3. q \in Seq(S) /\ Len(q) = c - k + 1 /\ \A i \in 1..c - k + 1 : q[i] = input[k + i - 1]
    BY <1>1, <2>1, <2>2, SubSeqProperties
  <2>4. Len(q) >= 1 BY <1>1, <2>1, <2>2, <2>3
  <2>5. q # <<>> BY <2>3, <2>4, EmptySeq
  <2>6. p[k] = q BY <1>2 DEF c, l
  <2> HIDE DEF q
  <2>7. q[1] = input[k] BY <1>1, <2>1, <2>2, <2>3
  <2>8. ASSUME NEW i \in k..c PROVE input[i] \in ToSet(q)
    <3> DEFINE j == i - k + 1
    <3>1. j \in 1..c - k + 1 /\ k + j - 1 = i BY <1>1, <2>1, <2>2
    <3> HIDE DEF j
    <3>2. DOMAIN q = 1..Len(q) BY <2>3, LenProperties
    <3>3. j \in DOMAIN q BY ONLY <2>3, <3>1, <3>2
    <3>4. q[j] = input[k + j - 1] BY ONLY <2>3, <3>1
    <3> QED BY <3>1, <3>3, <3>4 DEF ToSet
  <2>9. Len(q) = c - k + 1 /\ q \in Q BY <2>3, <2>5
  <2> QED BY <2>6, <2>7, <2>8, <2>9 DEF c, l
<1>4. p \in Seq(Q) /\ Len(p) = n
  <2>1. p = [k \in 1..n |-> p[k]] BY <1>2
  <2>2. \A k \in 1..n : p[k] \in Q BY <1>3
  <2>3. n \in Nat BY <1>1
  <2> HIDE DEF Q, n
  <2> QED BY ONLY <2>1, <2>2, <2>3, SeqOfFunction
<1>5. p \in Seq(Seq(S)) /\ Len(p) = n
  <2> DEFINE R == Seq(S)
  <2>1. p = [k \in 1..n |-> p[k]] BY <1>2
  <2>2. \A k \in 1..n : p[k] \in R BY <1>3
  <2>3. n \in Nat BY <1>1
  <2> HIDE DEF R, n
  <2>4. p \in Seq(R) /\ Len(p) = n
    BY ONLY <2>1, <2>2, <2>3, SeqOfFunction
  <2> QED BY <2>4 DEF R
<1> QED BY <1>2, <1>3, <1>4, <1>5 DEF p

\* The end of the last piece that begins in the first k lines.
PieceUpTo(input, cuts, k) == IF k = 0 THEN 0 ELSE NextCut(input, cuts, k - 1)

\* What stands for the first e lines: no more of them, and all but hidden ones.
Covers(input, sup, hidden, e, all) ==
    /\ Len(all) <= e
    /\ \A i \in 1..e : input[i] \in ToSet(all) \/ i - 1 \in hidden
    /\ ~sup => all = SubSeq(input, 1, e)

\* One more piece covers the lines it has.
LEMMA PieceCovers ==
    ASSUME NEW S, NEW input \in Seq(S), NEW sup, NEW hidden,
           NEW k \in 0..Len(input), NEW e \in k..Len(input),
           NEW all \in Seq(S), Covers(input, sup, hidden, k, all),
           NEW q, q = SubSeq(input, k + 1, e), \A i \in k + 1..e : input[i] \in ToSet(q)
    PROVE  Covers(input, sup, hidden, e, all \o q)
<1> DEFINE u == all \o q
           n == Len(input)
<1>1. q \in Seq(S) /\ Len(q) = e - k /\ SubSeq(input, 1, k) \o q = SubSeq(input, 1, e)
  BY BeginningJoins
<1>2. n \in Nat /\ k \in Nat /\ e \in Nat /\ k <= e /\ Len(all) \in Nat
  BY LenProperties
<1>3. u \in Seq(S) /\ Len(u) = Len(all) + Len(q)
  BY <1>1, ConcatProperties
<1>4. Len(u) <= e
  <2>1. Len(all) <= k BY DEF Covers
  <2> HIDE DEF u
  <2> QED BY <1>1, <1>2, <1>3, <2>1
<1>5. ASSUME NEW i \in 1..e PROVE input[i] \in ToSet(u) \/ i - 1 \in hidden
  <2>1. CASE i <= k
    <3>1. i \in 1..k BY <1>2, <2>1
    <3>2. input[i] \in ToSet(all) \/ i - 1 \in hidden BY <3>1 DEF Covers
    <3>3. input[i] \in ToSet(all) => input[i] \in ToSet(u)
      BY <1>1, ToSetConcat
    <3> QED BY <3>2, <3>3
  <2>2. CASE ~(i <= k)
    <3>1. i \in k + 1..e BY <1>2, <2>2
    <3>2. input[i] \in ToSet(q) BY <3>1
    <3>3. input[i] \in ToSet(q) => input[i] \in ToSet(u)
      BY <1>1, ToSetConcat
    <3> QED BY <3>2, <3>3
  <2> QED BY <2>1, <2>2
<1>6. ~sup => u = SubSeq(input, 1, e) BY <1>1 DEF Covers
<1> QED BY <1>4, <1>5, <1>6 DEF Covers

\* The pieces of the first k lines, joined.
JoinedPieces(input, cuts, sup, hidden, k) ==
    FlattenSeq(Those(SubSeq(PieceAt(input, cuts), 1, k), KeptAt(input, cuts, sup, hidden)))

\* One more line: a piece that is kept, one that is not, or none.
LEMMA JoinedNext ==
    ASSUME NEW S, NEW input \in Seq(S), NEW cuts \in SUBSET Nat, 0 \in cuts, NEW sup, NEW hidden,
           NEW k \in 0..Len(input) - 1,
           Covers(input, sup, hidden, PieceUpTo(input, cuts, k), JoinedPieces(input, cuts, sup, hidden, k))
    PROVE  Covers(input, sup, hidden, PieceUpTo(input, cuts, k + 1), JoinedPieces(input, cuts, sup, hidden, k + 1))
<1> DEFINE n == Len(input)
           m == k + 1
           e == NextCut(input, cuts, k)
           p == PieceAt(input, cuts)
           kept == KeptAt(input, cuts, sup, hidden)
           before == Those(SubSeq(p, 1, k), kept)
           all == FlattenSeq(before)
           q == p[m]
<1>1. n \in Nat /\ k \in Nat /\ k < n /\ m \in 1..n /\ m - 1 = k /\ m # 0 /\ k \in 0..n
  BY LenProperties
<1>2. e \in k + 1..n BY <1>1, NextCutIs
<1>3. /\ p \in Seq(Seq(S)) /\ Len(p) = n
      /\ q = SubSeq(input, m, NextCut(input, cuts, m - 1))
      /\ \A i \in m..NextCut(input, cuts, m - 1) : input[i] \in ToSet(q)
  BY <1>1, PieceAtIs
<1>4. q = SubSeq(input, k + 1, e) /\ \A i \in k + 1..e : input[i] \in ToSet(q)
  BY <1>1, <1>3
<1>5. PieceUpTo(input, cuts, m) = e BY <1>1 DEF PieceUpTo
<1>6. before \in Seq(Seq(S)) /\ all \in Seq(S)
  <2>1. p \in Seq(Seq(S)) /\ k \in 0..Len(p) BY <1>1, <1>3
  <2> HIDE DEF p, kept
  <2>2. before \in Seq(Seq(S))
    <3> DEFINE R == Seq(S)
    <3>1. p \in Seq(R) BY <2>1
    <3> HIDE DEF R
    <3>2. before \in Seq(R) BY <2>1, <3>1, ThoseBeginningType
    <3> QED BY <3>2 DEF R
  <2> HIDE DEF before
  <2> QED BY <2>2, FlattenType
<1>7. Those(SubSeq(p, 1, m), kept) = IF m \in kept THEN Append(before, q) ELSE before
  <2>1. p \in Seq(Seq(S)) /\ m \in 1..Len(p) /\ m - 1 = k BY <1>1, <1>3
  <2> HIDE DEF p, kept, m
  <2>2. Those(SubSeq(p, 1, m), kept)
          = IF m \in kept THEN Append(Those(SubSeq(p, 1, m - 1), kept), p[m]) ELSE Those(SubSeq(p, 1, m - 1), kept)
    <3> DEFINE R == Seq(S)
    <3>1. p \in Seq(R) BY <2>1
    <3> HIDE DEF R
    <3> QED BY <2>1, <3>1, ThoseBeginning
  <2> QED BY <2>1, <2>2
<1>8. JoinedPieces(input, cuts, sup, hidden, k) = all
  BY DEF JoinedPieces
<1>9. q \in Seq(S) BY <1>1, <1>2, <1>4, LenProperties, SubSeqProperties
<1>10. JoinedPieces(input, cuts, sup, hidden, m) = IF m \in kept THEN all \o q ELSE all
  <2>1. FlattenSeq(Append(before, q)) = all \o q
    <3> HIDE DEF before, q
    <3> QED BY <1>6, <1>9, FlattenAppend
  <2> QED BY <1>7, <2>1 DEF JoinedPieces
<1>11. m \in kept <=> k \in cuts /\ ~(sup /\ k..e - 1 \subseteq hidden)
  <2>1. m \in kept <=> m - 1 \in cuts /\ ~(sup /\ m - 1..NextCut(input, cuts, m - 1) - 1 \subseteq hidden)
    BY <1>1 DEF KeptAt
  <2> QED BY <1>1, <2>1
<1>12. k \in cuts => PieceUpTo(input, cuts, k) = k
  <2>1. CASE k = 0 BY <2>1 DEF PieceUpTo
  <2>2. CASE k # 0
    <3> DEFINE l == k - 1
    <3>1. l \in Nat /\ l < n /\ l + 1 = k BY <1>1, <2>2
    <3> HIDE DEF l
    <3>2. k \in cuts => NextCut(input, cuts, l) = k
      BY <1>1, <3>1, NextCutIs
    <3> QED BY <2>2, <3>2 DEF PieceUpTo, l
  <2> QED BY <2>1, <2>2
<1>13. k \notin cuts => PieceUpTo(input, cuts, k) = e
  <2> SUFFICES ASSUME k \notin cuts PROVE PieceUpTo(input, cuts, k) = e
    OBVIOUS
  <2> DEFINE l == k - 1
  <2>1. l \in Nat /\ l < n /\ l + 1 = k /\ k # 0 BY <1>1
  <2> HIDE DEF l
  <2>2. NextCut(input, cuts, l) = e BY <1>1, <2>1, NextCutIs
  <2> QED BY <2>1, <2>2 DEF PieceUpTo, l
<1> HIDE DEF e, p, q, kept, before, all
<1>14. CASE m \in kept
  <2>1. k \in cuts BY <1>11, <1>14
  <2>2. Covers(input, sup, hidden, k, all) BY <1>8, <1>12, <2>1
  <2>3. e \in k..n BY <1>1, <1>2
  <2>4. Covers(input, sup, hidden, e, all \o q)
    BY <1>1, <1>4, <1>6, <2>2, <2>3, PieceCovers
  <2> QED BY <1>5, <1>10, <1>14, <2>4
<1>15. CASE m \notin kept /\ k \in cuts
  <2>1. Covers(input, sup, hidden, k, all) /\ sup /\ k..e - 1 \subseteq hidden
    BY <1>8, <1>11, <1>12, <1>15
  <2>2. Len(all) <= e
    BY <1>1, <1>2, <1>6, <2>1, LenProperties DEF Covers
  <2>3. ASSUME NEW i \in 1..e PROVE input[i] \in ToSet(all) \/ i - 1 \in hidden
    <3>1. CASE i <= k
      <4>1. i \in 1..k BY <1>1, <1>2, <3>1
      <4> QED BY <2>1, <4>1 DEF Covers
    <3>2. CASE ~(i <= k)
      <4>1. i - 1 \in k..e - 1 BY <1>1, <1>2, <3>2
      <4> QED BY <2>1, <4>1
    <3> QED BY <3>1, <3>2
  <2>4. Covers(input, sup, hidden, e, all)
    BY <2>1, <2>2, <2>3 DEF Covers
  <2> QED BY <1>5, <1>10, <1>15, <2>4
<1>16. CASE k \notin cuts
  <2>1. m \notin kept /\ Covers(input, sup, hidden, e, all)
    BY <1>8, <1>11, <1>13, <1>16
  <2> QED BY <1>5, <1>10, <2>1
<1> QED BY <1>14, <1>15, <1>16

\* All the pieces together cover the input.
LEMMA PiecesCover ==
    ASSUME NEW S, NEW input \in Seq(S), NEW cuts \in SUBSET Nat, 0 \in cuts, NEW sup, NEW hidden
    PROVE  Covers(input, sup, hidden, Len(input),
                  FlattenSeq(Those(PieceAt(input, cuts), KeptAt(input, cuts, sup, hidden))))
<1> DEFINE n == Len(input)
           C(k) == Covers(input, sup, hidden, PieceUpTo(input, cuts, k), JoinedPieces(input, cuts, sup, hidden, k))
           T == {k \in Nat : k <= n => C(k)}
           p == PieceAt(input, cuts)
<1>1. n \in Nat /\ p \in Seq(Seq(S)) /\ Len(p) = n
  BY LenProperties, PieceAtIs
<1>2. SubSeq(p, 1, 0) = <<>> /\ SubSeq(p, 1, n) = p
  <2> DEFINE R == Seq(S)
  <2>1. p \in Seq(R) /\ Len(p) = n BY <1>1
  <2> HIDE DEF p, R, n
  <2>2. SubSeq(p, 1, 0) = <<>> /\ SubSeq(p, 1, Len(p)) = p
    BY <2>1, Beginnings
  <2> QED BY <2>1, <2>2
<1>3. 0 \in T
  <2>1. JoinedPieces(input, cuts, sup, hidden, 0) = <<>>
    BY <1>2, ThoseEmpty, FlattenEmpty DEF JoinedPieces
  <2>2. SubSeq(input, 1, 0) = <<>> BY Beginnings
  <2>3. Len(<<>>) = 0 BY EmptySeq
  <2>4. Covers(input, sup, hidden, 0, <<>>) BY <2>2, <2>3 DEF Covers
  <2> QED BY <2>1, <2>4 DEF PieceUpTo
<1>4. ASSUME NEW k \in Nat, k \in T PROVE k + 1 \in T
  <2> SUFFICES ASSUME k + 1 <= n PROVE C(k + 1) OBVIOUS
  <2>1. k \in 0..n - 1 /\ k <= n BY <1>1
  <2>2. C(k) BY <1>4, <2>1
  <2> QED BY <2>1, <2>2, JoinedNext
<1>5. n \in T
  <2> HIDE DEF T
  <2> QED BY <1>1, <1>3, <1>4, SetInduction
<1>6. PieceUpTo(input, cuts, n) = n
  <2>1. CASE n = 0 BY <2>1 DEF PieceUpTo
  <2>2. CASE n # 0
    <3> DEFINE l == n - 1
    <3>1. l \in Nat /\ l < n /\ l + 1 = n BY <1>1, <2>2
    <3> HIDE DEF l
    <3>2. NextCut(input, cuts, l) \in l + 1..n BY <1>1, <3>1, NextCutIs
    <3>3. NextCut(input, cuts, l) = n BY <1>1, <3>1, <3>2
    <3> QED BY <2>2, <3>3 DEF PieceUpTo, l
  <2> QED BY <2>1, <2>2
<1>7. C(n) BY <1>1, <1>5
<1>8. JoinedPieces(input, cuts, sup, hidden, n) = FlattenSeq(Those(p, KeptAt(input, cuts, sup, hidden)))
  BY <1>2 DEF JoinedPieces
<1> HIDE DEF p
<1>9. Covers(input, sup, hidden, n, FlattenSeq(Those(p, KeptAt(input, cuts, sup, hidden))))
  BY <1>6, <1>7, <1>8
<1> QED BY <1>9 DEF p

\* What csplit has to do with an input (CsplitCovers).
CsplitRight(cfg, input, pats, r) ==
    (r.status = 0 /\ r.defined) =>
      /\ <<>> \notin ToSet(r.pieces)
      /\ (\A p \in ToSet(pats) : ~p.skip) =>
           IF cfg.suppress
           THEN /\ Len(FlattenSeq(r.pieces)) <= Len(input)
                /\ \A x \in ToSet(input) : x \in ToSet(FlattenSeq(r.pieces)) \/
                     \E p \in ToSet(pats) : "match" \in DOMAIN p /\ p.match = x
           ELSE FlattenSeq(r.pieces) = input
      /\ \A p \in ToSet(pats) :
           ("match" \in DOMAIN p /\ p.offset = 0 /\ ~p.skip /\ ~cfg.suppress /\ Len(pats) = 1
              /\ \E i \in 2..Len(input) : input[i] = p.match
              /\ input[1] # p.match) =>
                \E k \in DOMAIN r.pieces : k > 1 /\ r.pieces[k][1] = p.match

\* csplit does that.
LEMMA CsplitHolds ==
    ASSUME NEW cfg, NEW S, NEW input \in Seq(S), NEW R, NEW pats \in Seq(R),
           \A p \in ToSet(pats) : IsPattern(p)
    PROVE  CsplitRight(cfg, input, pats, csplit(cfg, input, pats))
<1> DEFINE n == Len(input)
           s == Cuts(cfg, input, pats)
           P == PieceAt(input, s.cuts)
           kept == KeptAt(input, s.cuts, cfg.suppress, s.hidden)
           pieces == Those(P, kept)
           all == FlattenSeq(pieces)
           r == csplit(cfg, input, pats)
<1>1. n \in Nat /\ Len(pats) \in Nat /\ DOMAIN input = 1..n /\ DOMAIN pats = 1..Len(pats)
  BY LenProperties
<1>2. CutsRight(input, ToSet(pats), s) BY <1>1, CutsHold
<1>3. s.cuts \in SUBSET Nat /\ s.hidden \in SUBSET Nat
  BY <1>2 DEF CutsRight, CutState
<1>4. ~s.ok => r.status = 1 BY DEF csplit
<1>5. s.ok => r.pieces = pieces BY DEF csplit, PieceAt, KeptAt
<1> HIDE DEF s
<1>6. /\ P \in Seq(Seq(S) \ {<<>>}) /\ P \in Seq(Seq(S)) /\ Len(P) = n
      /\ \A k \in 1..n : P[k][1] = input[k]
  BY <1>3, PieceAtIs
<1>7. <<>> \notin ToSet(pieces)
  <2> DEFINE Q == Seq(S) \ {<<>>}
  <2>1. P \in Seq(Q) /\ <<>> \notin Q BY <1>6
  <2> HIDE DEF P, Q, kept
  <2>2. pieces \in Seq(Q) BY <2>1, ThoseType
  <2> HIDE DEF pieces
  <2>3. \A k \in DOMAIN pieces : pieces[k] \in Q
    BY <2>2, ElementOfSeq, LenProperties
  <2> QED BY <2>1, <2>3 DEF ToSet
<1>8. ASSUME \A p \in ToSet(pats) : ~p.skip
      PROVE  IF cfg.suppress
             THEN /\ Len(all) <= n
                  /\ \A x \in ToSet(input) : x \in ToSet(all) \/
                       \E p \in ToSet(pats) : "match" \in DOMAIN p /\ p.match = x
             ELSE all = input
  <2>1. 0 \in s.cuts BY <1>2, <1>8 DEF CutsRight
  <2>2. Covers(input, cfg.suppress, s.hidden, n, all)
    BY <1>3, <2>1, PiecesCover
  <2>3. SubSeq(input, 1, n) = input BY Beginnings
  <2> HIDE DEF all
  <2>4. ASSUME NEW x \in ToSet(input)
        PROVE  x \in ToSet(all) \/ \E p \in ToSet(pats) : "match" \in DOMAIN p /\ p.match = x
    <3>1. PICK i \in 1..n : input[i] = x BY <1>1 DEF ToSet
    <3>2. CASE input[i] \in ToSet(all) BY <3>1, <3>2
    <3>3. CASE i - 1 \in s.hidden
      <4> DEFINE h == i - 1
      <4>1. h \in s.hidden /\ h + 1 = i BY <1>1, <3>3
      <4> HIDE DEF h
      <4>2. \E p \in ToSet(pats) : "match" \in DOMAIN p /\ p.match = input[i]
        BY <1>2, <4>1 DEF CutsRight
      <4> QED BY <3>1, <4>2
    <3> QED BY <2>2, <3>2, <3>3 DEF Covers
  <2> QED BY <2>2, <2>3, <2>4 DEF Covers
<1>9. ASSUME NEW p \in ToSet(pats), "match" \in DOMAIN p, p.offset = 0, ~p.skip, ~cfg.suppress, Len(pats) = 1,
             NEW i \in 2..n, input[i] = p.match, input[1] # p.match
      PROVE  \E k \in DOMAIN pieces : k > 1 /\ pieces[k][1] = p.match
  <2>1. p = pats[1] BY <1>1, <1>9 DEF ToSet
  <2>2. IsPattern(p) /\ Plain(cfg, p) BY <1>9 DEF IsPattern, Plain
  <2>3. PICK hit \in Nat : /\ hit > 0 /\ hit + 1 \in 2..n /\ input[hit + 1] = p.match
                           /\ s.cuts = {0, hit}
    <3>1. Len(input) \in Nat /\ Len(pats) = 1 /\ p = pats[1] /\ IsPattern(p) /\ Plain(cfg, p)
      BY <1>1, <1>9, <2>1, <2>2
    <3>2. i \in 2..Len(input) /\ input[i] = p.match /\ input[1] # p.match
      BY <1>9
    <3>3. CutAtOne(input, p, Cuts(cfg, input, pats).cuts)
      BY <3>1, <3>2, OneCut
    <3> QED BY <3>3 DEF CutAtOne, s
  <2> DEFINE j == hit + 1
  <2>4. j \in 2..n /\ 1 \in 1..n /\ 1 \in kept /\ j \in kept
    <3>1. 1 \in 1..n /\ j \in 1..n /\ 1 - 1 = 0 /\ j - 1 = hit /\ j \in 2..n
      BY <1>1, <2>3
    <3> HIDE DEF j
    <3>2. kept = {k \in 1..n : k - 1 \in s.cuts} BY <1>9 DEF KeptAt
    <3> HIDE DEF kept
    <3> QED BY <2>3, <3>1, <3>2
  <2> HIDE DEF j, kept
  <2>5. \E k \in DOMAIN Those(P, kept) : k > 1 /\ Those(P, kept)[k] = P[j]
    <3> DEFINE Q == Seq(S)
               i1 == 1
    <3>1. P \in Seq(Q) /\ i1 \in 1..Len(P) /\ j \in i1 + 1..Len(P) /\ i1 \in kept
      BY <1>6, <2>4
    <3> HIDE DEF P, Q, i1
    <3> QED BY <2>4, <3>1, ThoseLater
  <2>6. P[j][1] = p.match
    <3>1. j \in 1..n BY <1>1, <2>4
    <3> QED BY <1>6, <2>3, <3>1 DEF j
  <2> QED BY <2>5, <2>6
<1> HIDE DEF all, pieces, r
<1>10. ASSUME r.status = 0 PROVE r.pieces = pieces /\ FlattenSeq(r.pieces) = all
  BY <1>4, <1>5, <1>10 DEF all
<1> QED BY <1>1, <1>7, <1>8, <1>9, <1>10 DEF CsplitRight, r

\* A range, and a list of them; a range without positions ends right before it begins.
CutRange == {r \in [first : Nat \ {0}, last : Nat] : r.first <= r.last + 1}

\* The order of std::sort: by the first position, then by the last.
Follows(r, s) == r.first > s.first \/ (r.first = s.first /\ r.last >= s.last)

\* p puts the first n of s into that order.
Orders(p, s, n) ==
    /\ p \in [1..n -> 1..n]
    /\ {p[k] : k \in 1..n} = 1..n
    /\ \A j, k \in 1..n : j < k => Follows(s[p[k]], s[p[j]])

\* It orders all ranges.
LEMMA FollowsOrders ==
    ASSUME NEW r \in CutRange, NEW s \in CutRange, NEW t \in CutRange
    PROVE  /\ Follows(r, r)
           /\ Follows(r, s) \/ Follows(s, r)
           /\ Follows(r, s) /\ Follows(s, t) => Follows(r, t)
<1>1. /\ r.first \in Nat /\ r.last \in Nat /\ s.first \in Nat /\ s.last \in Nat
      /\ t.first \in Nat /\ t.last \in Nat
  BY DEF CutRange
<1> QED BY <1>1 DEF Follows

\* One more range is put in before the first that has to come after it.
LEMMA InsertRange ==
    ASSUME NEW s \in Seq(CutRange), NEW n \in Nat, n + 1 <= Len(s), NEW p, Orders(p, s, n)
    PROVE  \E t : Orders(t, s, n + 1)
<1> DEFINE N == n + 1
           x == s[N]
           Places == {m \in 1..N : m = N \/ ~Follows(x, s[p[m]])}
           m == Min(Places)
           t == [i \in 1..N |-> IF i < m THEN p[i] ELSE IF i = m THEN N ELSE p[i - 1]]
<1>1. N \in Nat /\ N > n /\ N - 1 = n /\ Len(s) \in Nat BY LenProperties
<1>2. \A k \in 1..n : p[k] \in 1..n BY DEF Orders
<1>3. ASSUME NEW k \in 1..N PROVE s[k] \in CutRange
  <2>1. k \in 1..Len(s) BY <1>1
  <2> QED BY <2>1, ElementOfSeq
<1>4. ASSUME NEW k \in 1..n PROVE s[p[k]] \in CutRange
  <2>1. p[k] \in 1..N BY <1>1, <1>2
  <2> QED BY <1>3, <2>1
<1>5. m \in 1..N /\ (m = N \/ ~Follows(x, s[p[m]])) /\ \A k \in 1..N : k < m => Follows(x, s[p[k]])
  <2>1. Places \subseteq Nat /\ N \in Places BY <1>1
  <2>2. \A k : k \in Places <=> k \in 1..N /\ (k = N \/ ~Follows(x, s[p[k]]))
    OBVIOUS
  <2> HIDE DEF Places
  <2>3. m \in Places /\ \A k \in Places : m <= k BY <2>1, MinFacts
  <2> HIDE DEF m
  <2>4. ASSUME NEW k \in 1..N, k < m PROVE Follows(x, s[p[k]])
    <3>1. k \notin Places BY <2>1, <2>3, <2>4
    <3> QED BY <2>2, <3>1
  <2> QED BY <2>2, <2>3, <2>4
<1> HIDE DEF m, Places
<1>6. t = [i \in 1..N |-> t[i]] OBVIOUS
<1>7. \A i \in 1..N : /\ i < m => t[i] = p[i]
                      /\ i = m => t[i] = N
                      /\ i > m => t[i] = p[i - 1]
  BY <1>1, <1>5
<1> HIDE DEF t
<1>8. ASSUME NEW i \in 1..N PROVE t[i] \in 1..N
  <2>1. CASE i < m
    <3>1. i \in 1..n BY <1>1, <1>5, <2>1
    <3> QED BY <1>1, <1>2, <1>7, <2>1, <3>1
  <2>2. CASE i = m BY <1>1, <1>7, <2>2
  <2>3. CASE i > m
    <3>1. i - 1 \in 1..n BY <1>1, <1>5, <2>3
    <3> QED BY <1>1, <1>2, <1>7, <2>3, <3>1
  <2> QED BY <1>5, <2>1, <2>2, <2>3
<1>9. ASSUME NEW y \in 1..N PROVE \E i \in 1..N : t[i] = y
  <2>1. CASE y = N BY <1>5, <1>7, <2>1
  <2>2. CASE y # N
    <3>1. y \in 1..n BY <1>1, <2>2
    <3>2. PICK i \in 1..n : p[i] = y BY <3>1 DEF Orders
    <3>3. CASE i < m
      <4>1. i \in 1..N BY <1>1
      <4> QED BY <1>7, <3>2, <3>3, <4>1
    <3>4. CASE ~(i < m)
      <4> DEFINE j == i + 1
      <4>1. j \in 1..N /\ j > m /\ j - 1 = i BY <1>1, <1>5, <3>4
      <4> HIDE DEF j
      <4> QED BY <1>7, <3>2, <4>1
    <3> QED BY <3>3, <3>4
  <2> QED BY <2>1, <2>2
<1>10. ASSUME NEW j \in 1..n, NEW k \in 1..n, j <= k PROVE Follows(s[p[k]], s[p[j]])
  <2>1. CASE j = k BY <1>4, <2>1, FollowsOrders
  <2>2. CASE j # k
    <3>1. j < k BY <1>10, <2>2
    <3> QED BY <3>1 DEF Orders
  <2> QED BY <2>1, <2>2
<1>11. x \in CutRange BY <1>1, <1>3
<1>12. s[N] = x OBVIOUS
<1> HIDE DEF x
<1>13. ASSUME NEW j \in 1..N, NEW k \in 1..N, j < k PROVE Follows(s[t[k]], s[t[j]])
  <2>1. CASE k < m
    <3>1. j \in 1..n /\ k \in 1..n /\ j <= k /\ j < m
      BY <1>1, <1>5, <1>13, <2>1
    <3>2. t[j] = p[j] /\ t[k] = p[k] BY <1>7, <2>1, <3>1
    <3> QED BY <1>10, <3>1, <3>2
  <2>2. CASE k = m
    <3>1. j < m BY <1>13, <2>2
    <3>2. t[j] = p[j] /\ t[k] = N /\ Follows(x, s[p[j]])
      BY <1>5, <1>7, <2>2, <3>1
    <3> QED BY <1>12, <3>2
  <2>3. CASE k > m /\ j < m
    <3> DEFINE i == k - 1
    <3>1. i \in 1..n /\ j \in 1..n /\ j <= i BY <1>1, <1>5, <2>3
    <3>2. t[k] = p[i] /\ t[j] = p[j] BY <1>7, <2>3
    <3> HIDE DEF i
    <3> QED BY <1>10, <3>1, <3>2
  <2>4. CASE k > m /\ j = m
    <3> DEFINE i == k - 1
    <3>1. i \in 1..n /\ m \in 1..n /\ m <= i /\ m # N
      BY <1>1, <1>5, <2>4
    <3>2. t[k] = p[i] /\ t[j] = N BY <1>7, <2>4
    <3> HIDE DEF i
    <3>3. Follows(s[p[i]], s[p[m]]) BY <1>10, <3>1
    <3>4. s[p[i]] \in CutRange /\ s[p[m]] \in CutRange BY <1>4, <3>1
    <3>5. Follows(s[p[m]], x) BY <1>5, <1>11, <3>1, <3>4, FollowsOrders
    <3>6. Follows(s[p[i]], x) BY <1>11, <3>3, <3>4, <3>5, FollowsOrders
    <3> QED BY <1>12, <3>2, <3>6
  <2>5. CASE j > m
    <3> DEFINE i == k - 1
               l == j - 1
    <3>1. i \in 1..n /\ l \in 1..n /\ l <= i /\ k > m
      BY <1>1, <1>5, <1>13, <2>5
    <3>2. t[k] = p[i] /\ t[j] = p[l] BY <1>7, <2>5, <3>1
    <3> HIDE DEF i, l
    <3> QED BY <1>10, <3>1, <3>2
  <2> QED BY <1>5, <1>13, <2>1, <2>2, <2>3, <2>4, <2>5
<1>14. t \in [1..N -> 1..N] BY <1>6, <1>8
<1>15. {t[i] : i \in 1..N} = 1..N BY <1>8, <1>9
<1> QED BY <1>13, <1>14, <1>15 DEF Orders

\* A list of ranges can be put in order.
LEMMA OrderExists ==
    ASSUME NEW s \in Seq(CutRange)
    PROVE  \E p : Orders(p, s, Len(s))
<1> DEFINE T == {n \in Nat : n <= Len(s) => \E p : Orders(p, s, n)}
<1>1. Len(s) \in Nat BY LenProperties
<1>2. 0 \in T
  <2> DEFINE p == [k \in 1..0 |-> k]
  <2>1. 1..0 = {} OBVIOUS
  <2>2. Orders(p, s, 0) BY <2>1 DEF Orders
  <2> QED BY <2>2
<1>3. ASSUME NEW n \in Nat, n \in T PROVE n + 1 \in T
  <2> SUFFICES ASSUME n + 1 <= Len(s) PROVE \E t : Orders(t, s, n + 1)
    OBVIOUS
  <2>1. n <= Len(s) BY <1>1
  <2>2. PICK p : Orders(p, s, n) BY <1>3, <2>1
  <2> QED BY <2>2, InsertRange
<1>4. Nat \subseteq T
  <2> HIDE DEF T
  <2> QED BY <1>2, <1>3, SetInduction
<1> QED BY <1>1, <1>4

\* The positions a list of ranges names are those its ranges hold.
LEMMA OrderedIs ==
    ASSUME NEW s \in Seq(CutRange)
    PROVE  LET o == Ordered(s)
           IN  /\ o \in Seq(CutRange) /\ Len(o) = Len(s)
               /\ \A j, k \in 1..Len(s) : j <= k => o[j].first <= o[k].first
               /\ \A k \in 1..Len(s) : \E j \in 1..Len(s) : o[k] = s[j]
               /\ \A i : is_selected(i, o) <=> is_selected(i, s)
<1> DEFINE n == Len(s)
           p == CHOOSE q \in [DOMAIN s -> DOMAIN s] :
                  /\ {q[k] : k \in DOMAIN s} = DOMAIN s
                  /\ \A j, k \in DOMAIN s : j < k => Follows(s[q[k]], s[q[j]])
           o == [k \in DOMAIN s |-> s[p[k]]]
<1>1. n \in Nat /\ DOMAIN s = 1..n /\ \A k \in 1..n : s[k] \in CutRange
  BY LenProperties, ElementOfSeq
<1>2. Ordered(s) = o BY DEF Ordered, Follows
<1>3. Orders(p, s, n)
  <2>1. PICK q : Orders(q, s, n) BY OrderExists
  <2> HIDE DEF n
  <2>2. \E r \in [DOMAIN s -> DOMAIN s] :
                  /\ {r[k] : k \in DOMAIN s} = DOMAIN s
                  /\ \A j, k \in DOMAIN s : j < k => Follows(s[r[k]], s[r[j]])
    BY <1>1, <2>1 DEF Orders
  <2>3. /\ p \in [DOMAIN s -> DOMAIN s] /\ {p[k] : k \in DOMAIN s} = DOMAIN s
        /\ \A j, k \in DOMAIN s : j < k => Follows(s[p[k]], s[p[j]])
    BY <2>2
  <2> HIDE DEF p
  <2> QED BY <1>1, <2>3 DEF Orders
<1> HIDE DEF p
<1>4. \A k \in 1..n : p[k] \in 1..n BY <1>3 DEF Orders
<1>5. o = [k \in 1..n |-> o[k]] /\ \A k \in 1..n : o[k] = s[p[k]]
  BY <1>1
<1> HIDE DEF o
<1>6. o \in Seq(CutRange) /\ Len(o) = n
  <2>1. \A k \in 1..n : o[k] \in CutRange BY <1>1, <1>4, <1>5
  <2>2. n \in Nat /\ o = [k \in 1..n |-> o[k]] BY <1>1, <1>5
  <2> HIDE DEF n
  <2> QED BY ONLY <2>1, <2>2, SeqOfFunction
<1>7. ASSUME NEW j \in 1..n, NEW k \in 1..n, j <= k PROVE o[j].first <= o[k].first
  <2>1. o[j] \in CutRange /\ o[k] \in CutRange BY <1>1, <1>4, <1>5
  <2>2. o[j].first \in Nat /\ o[k].first \in Nat BY <2>1 DEF CutRange
  <2>3. CASE j = k BY <2>2, <2>3
  <2>4. CASE j # k
    <3>1. j < k BY <1>7, <2>4
    <3>2. Follows(o[k], o[j]) BY <1>3, <1>5, <3>1 DEF Orders
    <3> QED BY <2>2, <3>2 DEF Follows
  <2> QED BY <2>3, <2>4
<1>8. DOMAIN o = 1..n BY <1>5
<1>9. ASSUME NEW i, is_selected(i, o) PROVE is_selected(i, s)
  <2>1. PICK k \in 1..n : i \in o[k].first..o[k].last
    BY <1>8, <1>9 DEF is_selected
  <2>2. p[k] \in 1..n /\ o[k] = s[p[k]] BY <1>4, <1>5
  <2> QED BY <1>1, <2>1, <2>2 DEF is_selected
<1>10. ASSUME NEW i, is_selected(i, s) PROVE is_selected(i, o)
  <2>1. PICK j \in 1..n : i \in s[j].first..s[j].last
    BY <1>1, <1>10 DEF is_selected
  <2>2. PICK k \in 1..n : p[k] = j BY <1>3 DEF Orders
  <2>3. o[k] = s[j] BY <1>5, <2>2
  <2> QED BY <1>8, <2>1, <2>3 DEF is_selected
<1> QED BY <1>2, <1>4, <1>5, <1>6, <1>7, <1>9, <1>10

\* Ranges in their order, with a position between each and the next.
Apart(m) ==
    /\ m \in Seq(CutRange)
    /\ \A j, k \in 1..Len(m) : j < k => m[j].last + 1 < m[k].first

\* Behind each of the ranges comes the next position.
EndsInRange(cfg, s) == \A k \in 1..Len(s) : Next1(cfg, s[k].last) = s[k].last + 1

\* One range more names its positions too.
LEMMA SelectedAppend ==
    ASSUME NEW S, NEW s \in Seq(S), NEW x \in S, NEW i
    PROVE  is_selected(i, Append(s, x)) <=> is_selected(i, s) \/ i \in x.first..x.last
<1> DEFINE n == Len(s)
           u == Append(s, x)
<1>1. n \in Nat /\ DOMAIN s = 1..n /\ DOMAIN u = 1..n + 1 /\ u[n + 1] = x /\ \A k \in 1..n : u[k] = s[k]
  BY AppendFacts, LenProperties
<1> HIDE DEF u, n
<1>2. ASSUME is_selected(i, u) PROVE is_selected(i, s) \/ i \in x.first..x.last
  <2>1. PICK k \in 1..n + 1 : i \in u[k].first..u[k].last
    BY <1>1, <1>2 DEF is_selected
  <2>2. CASE k = n + 1 BY <1>1, <2>1, <2>2
  <2>3. CASE k \in 1..n BY <1>1, <2>1, <2>3 DEF is_selected
  <2> QED BY <1>1, <2>2, <2>3
<1>3. ASSUME is_selected(i, s) PROVE is_selected(i, u)
  <2>1. PICK k \in 1..n : i \in s[k].first..s[k].last
    BY <1>1, <1>3 DEF is_selected
  <2>2. k \in 1..n + 1 /\ u[k] = s[k] BY <1>1
  <2> QED BY <1>1, <2>1, <2>2 DEF is_selected
<1>4. ASSUME i \in x.first..x.last PROVE is_selected(i, u)
  <2>1. n + 1 \in 1..n + 1 BY <1>1
  <2> QED BY <1>1, <1>4, <2>1 DEF is_selected
<1> QED BY <1>2, <1>3, <1>4 DEF u

\* A range more is at the end, or part of the last one.
LEMMA MergeRangeIs ==
    ASSUME NEW cfg, NEW m, Apart(m), NEW r \in CutRange,
           Len(m) > 0 => /\ m[Len(m)].first <= r.first
                         /\ Next1(cfg, m[Len(m)].last) = m[Len(m)].last + 1
    PROVE  LET t == MergeRange(cfg, m, r)
           IN  /\ Apart(t) /\ Len(t) > 0 /\ t[Len(t)].first <= r.first
               /\ \A i : is_selected(i, t) <=> is_selected(i, m) \/ i \in r.first..r.last
               /\ (EndsInRange(cfg, m) /\ Next1(cfg, r.last) = r.last + 1) => EndsInRange(cfg, t)
<1> DEFINE n == Len(m)
           t == MergeRange(cfg, m, r)
           last == m[n]
<1>1. /\ m \in Seq(CutRange) /\ n \in Nat /\ DOMAIN m = 1..n /\ \A k \in 1..n : m[k] \in CutRange
      /\ \A j, k \in 1..n : j < k => m[j].last + 1 < m[k].first
  BY LenProperties, ElementOfSeq DEF Apart
<1>2. \A q \in CutRange : q.first \in Nat /\ q.first > 0 /\ q.last \in Nat /\ q.first <= q.last + 1
  BY DEF CutRange
<1>3. CASE n = 0 \/ r.first > Next1(cfg, last.last)
  <2> DEFINE u == Append(m, r)
  <2>1. t = u BY <1>3 DEF MergeRange
  <2>2. /\ u \in Seq(CutRange) /\ Len(u) = n + 1 /\ DOMAIN u = 1..n + 1 /\ u[n + 1] = r
        /\ \A k \in 1..n : u[k] = m[k]
    BY <1>1, AppendFacts
  <2> HIDE DEF t, u, n
  <2>3. ASSUME NEW j \in 1..n + 1, NEW k \in 1..n + 1, j < k PROVE u[j].last + 1 < u[k].first
    <3>1. j \in 1..n /\ u[j] = m[j] /\ m[j] \in CutRange
      BY <1>1, <2>2, <2>3
    <3>2. CASE k \in 1..n BY <1>1, <2>2, <2>3, <3>1, <3>2
    <3>3. CASE k = n + 1
      <4>1. n > 0 /\ n \in 1..n /\ last \in CutRange BY <1>1, <3>1
      <4>2. last.last + 1 < r.first BY <1>3, <4>1 DEF n
      <4>3. CASE j = n BY <2>2, <3>1, <3>3, <4>2, <4>3
      <4>4. CASE j < n
        <5>1. m[j].last + 1 < last.first BY <1>1, <3>1, <4>1, <4>4
        <5> DEFINE a == m[j].last
                   b == last.first
                   c == last.last
        <5>2. a \in Nat /\ b \in Nat /\ c \in Nat /\ b <= c + 1 /\ r.first \in Nat
          BY <1>2, <3>1, <4>1
        <5>3. a + 1 < b /\ c + 1 < r.first BY <4>2, <5>1
        <5> HIDE DEF a, b, c
        <5>4. a + 1 < r.first BY <5>2, <5>3
        <5> QED BY <2>2, <3>1, <3>3, <5>4 DEF a
      <4> QED BY <1>1, <3>1, <4>3, <4>4
    <3> QED BY <1>1, <3>2, <3>3
  <2>4. Apart(u) BY <2>2, <2>3 DEF Apart
  <2>5. ASSUME NEW i PROVE is_selected(i, u) <=> is_selected(i, m) \/ i \in r.first..r.last
    BY <1>1, SelectedAppend DEF u
  <2>6. ASSUME EndsInRange(cfg, m), Next1(cfg, r.last) = r.last + 1 PROVE EndsInRange(cfg, u)
    <3> SUFFICES ASSUME NEW k \in 1..n + 1 PROVE Next1(cfg, u[k].last) = u[k].last + 1
      BY <2>2 DEF EndsInRange
    <3>1. CASE k = n + 1 BY <2>2, <2>6, <3>1
    <3>2. CASE k \in 1..n BY <2>2, <2>6, <3>2 DEF EndsInRange, n
    <3> QED BY <1>1, <3>1, <3>2
  <2>7. Len(u) > 0 /\ u[Len(u)].first <= r.first BY <1>1, <1>2, <2>2
  <2> QED BY <2>1, <2>4, <2>5, <2>6, <2>7 DEF t
<1>4. CASE n > 0 /\ ~(r.first > Next1(cfg, last.last))
  <2> DEFINE e == [first |-> last.first, last |-> r.last]
             u == [m EXCEPT ![n] = e]
             f == r.first
             l == r.last
             g == last.first
             h == last.last
  <2>1. n \in 1..n /\ last \in CutRange /\ m # <<>>
    <3>1. n \in 1..n BY <1>1, <1>4
    <3> QED BY <1>1, <1>4, <3>1, EmptySeq
  <2>2. f \in Nat /\ l \in Nat /\ g \in Nat /\ g > 0 /\ h \in Nat /\ f <= l + 1 /\ g <= h + 1 /\ g <= f /\ f <= h + 1
    <3>1. g <= r.first /\ Next1(cfg, h) = h + 1 BY <1>4
    <3>2. ~(r.first > h + 1) BY <1>4, <3>1
    <3> QED BY <1>2, <2>1, <3>1, <3>2
  <2>3. CASE l > h
    <3>1. t = u
      <4>1. ~(n = 0 \/ r.first > Next1(cfg, m[n].last)) /\ r.last > m[n].last
        BY <1>4, <2>3
      <4> QED BY ONLY <4>1 DEF MergeRange, t, u, e, n, last
    <3>2. e \in CutRange /\ e.first = g /\ e.last = l
      <4>1. g <= l + 1 BY <2>2, <2>3
      <4> HIDE DEF g, l
      <4> QED BY <2>2, <4>1 DEF CutRange, g, l
    <3> HIDE DEF e
    <3>3. u \in Seq(CutRange) /\ Len(u) = n /\ u[n] = e /\ \A k \in 1..n - 1 : u[k] = m[k]
      <4>1. m \in Seq(CutRange) /\ m # <<>> /\ e \in CutRange
        BY <1>1, <2>1, <3>2
      <4> QED BY ONLY <4>1, SetLastFacts DEF u, n
    <3>4. DOMAIN u = 1..n BY <3>3, LenProperties
    <3> HIDE DEF t, u, n
    <3>5. ASSUME NEW j \in 1..n, NEW k \in 1..n, j < k PROVE u[j].last + 1 < u[k].first
      <4>1. j \in 1..n - 1 /\ u[j] = m[j] BY <1>1, <3>3, <3>5
      <4>2. u[k].first = m[k].first
        <5>1. CASE k = n BY <3>2, <3>3, <5>1
        <5>2. CASE k \in 1..n - 1 BY <3>3, <5>2
        <5> QED BY <1>1, <5>1, <5>2
      <4> QED BY <1>1, <3>5, <4>1, <4>2
    <3>6. Apart(u) BY <3>3, <3>5 DEF Apart
    <3>7. ASSUME NEW i PROVE is_selected(i, u) <=> is_selected(i, m) \/ i \in r.first..r.last
      <4>1. i \in g..l <=> i \in g..h \/ i \in f..l
        <5> HIDE DEF f, g, h, l
        <5> QED BY <2>2, <2>3
      <4>2. i \in u[n].first..u[n].last <=> i \in m[n].first..m[n].last \/ i \in f..l
        BY <3>2, <3>3, <4>1
      <4>3. ASSUME is_selected(i, u) PROVE is_selected(i, m) \/ i \in f..l
        <5>1. PICK k \in 1..n : i \in u[k].first..u[k].last
          BY <3>4, <4>3 DEF is_selected
        <5>2. CASE k = n BY <1>1, <4>2, <5>1, <5>2 DEF is_selected
        <5>3. CASE k \in 1..n - 1
          BY <1>1, <3>3, <5>1, <5>3 DEF is_selected
        <5> QED BY <1>1, <5>2, <5>3
      <4>4. ASSUME is_selected(i, m) PROVE is_selected(i, u)
        <5>1. PICK k \in 1..n : i \in m[k].first..m[k].last
          BY <1>1, <4>4 DEF is_selected
        <5>2. CASE k = n BY <2>1, <3>4, <4>2, <5>1, <5>2 DEF is_selected
        <5>3. CASE k \in 1..n - 1
          BY <3>3, <3>4, <5>1, <5>3 DEF is_selected
        <5> QED BY <1>1, <5>2, <5>3
      <4>5. ASSUME i \in f..l PROVE is_selected(i, u)
        BY <2>1, <3>4, <4>2, <4>5 DEF is_selected
      <4> QED BY <4>3, <4>4, <4>5
    <3>8. ASSUME EndsInRange(cfg, m), Next1(cfg, l) = l + 1 PROVE EndsInRange(cfg, u)
      <4> SUFFICES ASSUME NEW k \in 1..n PROVE Next1(cfg, u[k].last) = u[k].last + 1
        BY <3>3 DEF EndsInRange
      <4>1. CASE k = n BY <3>2, <3>3, <3>8, <4>1
      <4>2. CASE k \in 1..n - 1 BY <3>3, <3>8, <4>2 DEF EndsInRange, n
      <4> QED BY <1>1, <4>1, <4>2
    <3>9. Len(u) > 0 /\ u[Len(u)].first <= r.first
      BY <1>4, <2>2, <3>2, <3>3
    <3> QED BY <3>1, <3>6, <3>7, <3>8, <3>9 DEF t
  <2>4. CASE ~(l > h)
    <3>1. t = m
      <4>1. ~(n = 0 \/ r.first > Next1(cfg, m[n].last)) /\ ~(r.last > m[n].last)
        BY <1>4, <2>4
      <4> QED BY ONLY <4>1 DEF MergeRange, t, n
    <3>2. ASSUME NEW i, i \in f..l PROVE is_selected(i, m)
      <4>1. i \in g..h
        <5> HIDE DEF f, g, h, l
        <5> QED BY <2>2, <2>4, <3>2
      <4> QED BY <1>1, <2>1, <4>1 DEF is_selected
    <3> HIDE DEF t
    <3> QED BY <1>4, <3>1, <3>2 DEF t
  <2> QED BY <2>3, <2>4
<1> QED BY <1>1, <1>3, <1>4

\* The merged ranges after each of them.
MergingRanges(h, cfg, ranges) ==
    h = [k \in 0..Len(ranges) |-> IF k = 0 THEN <<>> ELSE MergeRange(cfg, h[k - 1], Ordered(ranges)[k])]

\* merge_ranges takes the ranges in their order.
LEMMA MergeRangesIs ==
    ASSUME NEW cfg, NEW ranges, Len(ranges) \in Nat
    PROVE  \E h : MergingRanges(h, cfg, ranges) /\ merge_ranges(cfg, ranges) = h[Len(ranges)]
<1> DEFINE v == <<>>
           G(s, k) == MergeRange(cfg, s, Ordered(ranges)[k])
           T == {m \in Nat : \E h : h = [k \in 0..m |-> IF k = 0 THEN v ELSE G(h[k - 1], k)]}
<1> HIDE DEF v, G
<1>1. 0 \in T
  <2> DEFINE h == [k \in 0..0 |-> v]
  <2>1. h = [k \in 0..0 |-> IF k = 0 THEN v ELSE G(h[k - 1], k)] OBVIOUS
  <2> HIDE DEF h
  <2> QED BY <2>1
<1>2. ASSUME NEW m \in Nat, m \in T PROVE m + 1 \in T
  <2>1. PICK h : h = [k \in 0..m |-> IF k = 0 THEN v ELSE G(h[k - 1], k)]
    BY <1>2
  <2> DEFINE g == [k \in 0..m + 1 |-> IF k \in 0..m THEN h[k] ELSE G(h[m], k)]
  <2>2. ASSUME NEW k \in 0..m + 1 PROVE g[k] = IF k = 0 THEN v ELSE G(g[k - 1], k)
    <3>1. CASE k = 0 BY <2>1, <3>1
    <3>2. CASE k \in 1..m
      <4>1. k \in 0..m /\ k - 1 \in 0..m /\ k # 0 /\ k - 1 \in 0..m + 1
        BY <3>2
      <4>2. g[k] = h[k] /\ g[k - 1] = h[k - 1] BY <4>1
      <4> HIDE DEF g
      <4> QED BY <2>1, <4>1, <4>2
    <3>3. CASE k = m + 1
      <4>1. k \notin 0..m /\ k - 1 = m /\ m \in 0..m /\ k # 0 /\ m \in 0..m + 1
        BY <3>3
      <4>2. g[k] = G(h[m], k) /\ g[m] = h[m] BY <4>1
      <4> HIDE DEF g
      <4> QED BY <4>1, <4>2
    <3> QED BY <3>1, <3>2, <3>3
  <2>3. g = [k \in 0..m + 1 |-> IF k = 0 THEN v ELSE G(g[k - 1], k)]
    <3>1. g = [k \in 0..m + 1 |-> g[k]] OBVIOUS
    <3> HIDE DEF g
    <3> QED BY <2>2, <3>1
  <2> HIDE DEF g
  <2> QED BY <2>3
<1>3. Nat \subseteq T
  <2> HIDE DEF T
  <2> QED BY <1>1, <1>2, SetInduction
<1>4. \E h : h = [k \in 0..Len(ranges) |-> IF k = 0 THEN v ELSE G(h[k - 1], k)]
  BY <1>3
<1> DEFINE C == CHOOSE h : h = [k \in 0..Len(ranges) |-> IF k = 0 THEN <<>> ELSE MergeRange(cfg, h[k - 1], Ordered(ranges)[k])]
<1>5. C = [k \in 0..Len(ranges) |-> IF k = 0 THEN <<>> ELSE MergeRange(cfg, C[k - 1], Ordered(ranges)[k])]
  BY <1>4 DEF v, G
<1>6. merge_ranges(cfg, ranges) = C[Len(ranges)] BY DEF merge_ranges
<1> HIDE DEF C
<1> QED BY <1>5, <1>6 DEF MergingRanges

\* The merged ranges are apart and name what the ranges name.
LEMMA MergedApart ==
    ASSUME NEW cfg, NEW s \in Seq(CutRange), Len(s) > 1 => EndsInRange(cfg, s)
    PROVE  LET m == merge_ranges(cfg, s)
           IN  /\ Apart(m)
               /\ \A i : is_selected(i, m) <=> is_selected(i, s)
               /\ EndsInRange(cfg, s) => EndsInRange(cfg, m)
<1> DEFINE n == Len(s)
           o == Ordered(s)
           before(i, k) == \E j \in 1..k : i \in o[j].first..o[j].last
<1>1. n \in Nat BY LenProperties
<1>2. PICK h : MergingRanges(h, cfg, s) /\ merge_ranges(cfg, s) = h[n]
  BY <1>1, MergeRangesIs
<1>3. h[0] = <<>> /\ \A k \in 1..n : h[k] = MergeRange(cfg, h[k - 1], o[k])
  <2>1. ASSUME NEW k \in 0..n PROVE h[k] = IF k = 0 THEN <<>> ELSE MergeRange(cfg, h[k - 1], o[k])
    BY <1>2 DEF MergingRanges
  <2> QED BY <1>1, <2>1
<1>4. /\ o \in Seq(CutRange) /\ Len(o) = n
      /\ \A j, k \in 1..n : j <= k => o[j].first <= o[k].first
      /\ \A k \in 1..n : \E j \in 1..n : o[k] = s[j]
      /\ \A i : is_selected(i, o) <=> is_selected(i, s)
  BY OrderedIs
<1> HIDE DEF o
<1>5. DOMAIN o = 1..n /\ \A k \in 1..n : o[k] \in CutRange
  BY <1>4, LenProperties, ElementOfSeq
<1>6. EndsInRange(cfg, s) => \A k \in 1..n : Next1(cfg, o[k].last) = o[k].last + 1
  BY <1>4 DEF EndsInRange
<1> DEFINE Good(k) == /\ Apart(h[k])
                      /\ k > 0 => Len(h[k]) > 0 /\ h[k][Len(h[k])].first <= o[k].first
                      /\ k = 0 => Len(h[k]) = 0
                      /\ \A i : is_selected(i, h[k]) <=> before(i, k)
                      /\ EndsInRange(cfg, s) => EndsInRange(cfg, h[k])
           T == {k \in Nat : k <= n => Good(k)}
<1>7. 0 \in T
  <2>1. Len(<<>>) = 0 /\ <<>> \in Seq(CutRange) /\ 1..0 = {} /\ DOMAIN <<>> = {}
    BY EmptySeq
  <2>2. Apart(<<>>) /\ EndsInRange(cfg, <<>>)
    BY <2>1 DEF Apart, EndsInRange
  <2>3. \A i : ~is_selected(i, <<>>) /\ ~before(i, 0)
    BY <2>1 DEF is_selected
  <2> HIDE DEF before
  <2>4. Good(0) BY <1>3, <2>1, <2>2, <2>3
  <2> HIDE DEF Good
  <2> QED BY <2>4
<1>8. ASSUME NEW k \in Nat, k \in T PROVE k + 1 \in T
  <2> SUFFICES ASSUME k + 1 <= n PROVE Good(k + 1) OBVIOUS
  <2> DEFINE l == k + 1
             m == h[k]
             r == o[l]
             t == h[l]
  <2>1. Good(k) /\ l \in 1..n /\ l - 1 = k /\ l > 0 BY <1>1, <1>8
  <2>2. t = MergeRange(cfg, m, r) /\ r \in CutRange BY <1>3, <1>5, <2>1
  <2>3. Apart(m) BY <2>1
  <2>4. ASSUME Len(m) > 0
        PROVE  m[Len(m)].first <= r.first /\ Next1(cfg, m[Len(m)].last) = m[Len(m)].last + 1
    <3>1. k \in 1..n /\ n > 1 BY <1>1, <2>1, <2>4
    <3>2. m[Len(m)].first <= o[k].first /\ o[k].first <= r.first
      <4>1. k <= l OBVIOUS
      <4> HIDE DEF l
      <4> QED BY <1>4, <2>1, <3>1, <4>1
    <3>3. Len(m) \in 1..Len(m) /\ m \in Seq(CutRange) /\ m[Len(m)] \in CutRange
      <4>1. m \in Seq(CutRange) /\ Len(m) \in Nat
        BY <2>3, LenProperties DEF Apart
      <4>2. Len(m) \in 1..Len(m) BY <2>4, <4>1
      <4> QED BY <4>1, <4>2, ElementOfSeq
    <3>4. EndsInRange(cfg, m) BY <2>1, <3>1
    <3>5. m[Len(m)].first \in Nat /\ o[k].first \in Nat /\ r.first \in Nat
      BY <1>5, <2>2, <3>1, <3>3 DEF CutRange
    <3>6. m[Len(m)].first <= r.first
      <4> DEFINE a == m[Len(m)].first
                 b == o[k].first
                 c == r.first
      <4>1. a \in Nat /\ b \in Nat /\ c \in Nat /\ a <= b /\ b <= c
        BY <3>2, <3>5
      <4> HIDE DEF a, b, c
      <4>2. a <= c BY <4>1
      <4> QED BY <4>2 DEF a, c
    <3> QED BY <3>3, <3>4, <3>6 DEF EndsInRange
  <2>5. /\ Apart(t) /\ Len(t) > 0 /\ t[Len(t)].first <= r.first
        /\ \A i : is_selected(i, t) <=> is_selected(i, m) \/ i \in r.first..r.last
        /\ (EndsInRange(cfg, m) /\ Next1(cfg, r.last) = r.last + 1) => EndsInRange(cfg, t)
    <3> HIDE DEF m, r, t
    <3> QED BY <2>2, <2>3, <2>4, MergeRangeIs
  <2>6. ASSUME NEW i PROVE is_selected(i, t) <=> before(i, l)
    <3>1. is_selected(i, m) <=> before(i, k) BY <2>1
    <3>2. before(i, l) <=> before(i, k) \/ i \in r.first..r.last
      <4>1. \A j : j \in 1..l <=> j \in 1..k \/ j = l BY <2>1
      <4> HIDE DEF l
      <4> QED BY <4>1
    <3> QED BY <2>5, <3>1, <3>2
  <2>7. ASSUME EndsInRange(cfg, s) PROVE EndsInRange(cfg, t)
    <3>1. EndsInRange(cfg, m) BY <2>1, <2>7
    <3>2. Next1(cfg, r.last) = r.last + 1 BY <1>6, <2>1, <2>7
    <3> QED BY <2>5, <3>1, <3>2
  <2> HIDE DEF before
  <2>8. Good(l)
    <3>1. l # 0 BY <2>1
    <3> QED BY <2>5, <2>6, <2>7, <3>1
  <2> QED BY <2>8
<1>9. Good(n)
  <2>1. Nat \subseteq T
    <3> HIDE DEF T
    <3> QED BY <1>7, <1>8, SetInduction
  <2>2. n \in T /\ n <= n
    <3> HIDE DEF T
    <3> QED BY <1>1, <2>1
  <2> HIDE DEF Good
  <2> QED BY <2>2
<1>10. ASSUME NEW i PROVE before(i, n) <=> is_selected(i, s)
  BY <1>4, <1>5 DEF is_selected
<1> HIDE DEF before
<1> QED BY <1>2, <1>9, <1>10

\* What is left of 1..n in front of each merged range.
Leaving(h, cfg, m, n) ==
    h = [k \in 0..Len(m) |->
          IF k = 0 THEN [pos |-> 1, out |-> <<>>]
          ELSE IF k > 1 /\ h[k - 1].pos > n THEN h[k - 1] ELSE BeforeRange(cfg, h[k - 1], m[k], n)]

\* What is left behind the last one too.
WithRest(s, n) == IF s.pos <= n THEN Append(s.out, [first |-> s.pos, last |-> n]) ELSE s.out

\* complement_ranges goes from one merged range to the next.
LEMMA ComplementIs ==
    ASSUME NEW cfg, NEW ranges, NEW n, Len(merge_ranges(cfg, ranges)) \in Nat
    PROVE  \E h : Leaving(h, cfg, merge_ranges(cfg, ranges), n) /\ complement_ranges(cfg, ranges, n) = WithRest(h[Len(merge_ranges(cfg, ranges))], n)
<1> DEFINE v == [pos |-> 1, out |-> <<>>]
           G(s, k) == IF k > 1 /\ s.pos > n THEN s ELSE BeforeRange(cfg, s, merge_ranges(cfg, ranges)[k], n)
           T == {m \in Nat : \E h : h = [k \in 0..m |-> IF k = 0 THEN v ELSE G(h[k - 1], k)]}
<1> HIDE DEF v, G
<1>1. 0 \in T
  <2> DEFINE h == [k \in 0..0 |-> v]
  <2>1. h = [k \in 0..0 |-> IF k = 0 THEN v ELSE G(h[k - 1], k)] OBVIOUS
  <2> HIDE DEF h
  <2> QED BY <2>1
<1>2. ASSUME NEW m \in Nat, m \in T PROVE m + 1 \in T
  <2>1. PICK h : h = [k \in 0..m |-> IF k = 0 THEN v ELSE G(h[k - 1], k)]
    BY <1>2
  <2> DEFINE g == [k \in 0..m + 1 |-> IF k \in 0..m THEN h[k] ELSE G(h[m], k)]
  <2>2. ASSUME NEW k \in 0..m + 1 PROVE g[k] = IF k = 0 THEN v ELSE G(g[k - 1], k)
    <3>1. CASE k = 0 BY <2>1, <3>1
    <3>2. CASE k \in 1..m
      <4>1. k \in 0..m /\ k - 1 \in 0..m /\ k # 0 /\ k - 1 \in 0..m + 1
        BY <3>2
      <4>2. g[k] = h[k] /\ g[k - 1] = h[k - 1] BY <4>1
      <4> HIDE DEF g
      <4> QED BY <2>1, <4>1, <4>2
    <3>3. CASE k = m + 1
      <4>1. k \notin 0..m /\ k - 1 = m /\ m \in 0..m /\ k # 0 /\ m \in 0..m + 1
        BY <3>3
      <4>2. g[k] = G(h[m], k) /\ g[m] = h[m] BY <4>1
      <4> HIDE DEF g
      <4> QED BY <4>1, <4>2
    <3> QED BY <3>1, <3>2, <3>3
  <2>3. g = [k \in 0..m + 1 |-> IF k = 0 THEN v ELSE G(g[k - 1], k)]
    <3>1. g = [k \in 0..m + 1 |-> g[k]] OBVIOUS
    <3> HIDE DEF g
    <3> QED BY <2>2, <3>1
  <2> HIDE DEF g
  <2> QED BY <2>3
<1>3. Nat \subseteq T
  <2> HIDE DEF T
  <2> QED BY <1>1, <1>2, SetInduction
<1>4. \E h : h = [k \in 0..Len(merge_ranges(cfg, ranges)) |-> IF k = 0 THEN v ELSE G(h[k - 1], k)]
  BY <1>3
<1> DEFINE C == CHOOSE h : h = [k \in 0..Len(merge_ranges(cfg, ranges)) |-> IF k = 0 THEN [pos |-> 1, out |-> <<>>] ELSE IF k > 1 /\ h[k - 1].pos > n THEN h[k - 1] ELSE BeforeRange(cfg, h[k - 1], merge_ranges(cfg, ranges)[k], n)]
<1>5. C = [k \in 0..Len(merge_ranges(cfg, ranges)) |-> IF k = 0 THEN [pos |-> 1, out |-> <<>>] ELSE IF k > 1 /\ C[k - 1].pos > n THEN C[k - 1] ELSE BeforeRange(cfg, C[k - 1], merge_ranges(cfg, ranges)[k], n)]
  BY <1>4 DEF v, G
<1>6. complement_ranges(cfg, ranges, n) = WithRest(C[Len(merge_ranges(cfg, ranges))], n)
  BY DEF complement_ranges, WithRest
<1> HIDE DEF C
<1> QED BY <1>5, <1>6 DEF Leaving

\* Position p comes behind the first k ranges and is not behind the others.
Between(m, k, p) ==
    /\ \A j \in 1..k : m[j].last < p
    /\ \A j \in k + 1..Len(m) : p <= m[j].first

\* Before pos a position is left if no range names it, and nothing else is left.
LeftSoFar(m, n, k, s) ==
    /\ s.pos \in Nat \ {0}
    /\ s.out \in Seq(CutRange)
    /\ \A j \in 1..Len(s.out) : s.out[j].last <= n
    /\ \A i : is_selected(i, s.out) => i \in Int /\ i < s.pos /\ ~is_selected(i, m)
    /\ \A i \in 1..n : i < s.pos => is_selected(i, s.out) \/ is_selected(i, m)
    /\ (k > 0 /\ s.pos > n) \/ Between(m, k, s.pos)

\* A piece more is what is left so far.
LEMMA LeftAppend ==
    ASSUME NEW m, NEW n \in Nat, NEW parts \in Seq(CutRange), \A j \in 1..Len(parts) : parts[j].last <= n,
           NEW p \in Nat \ {0}, NEW e \in Nat, p <= e + 1, e <= n
    PROVE  LET t == Append(parts, [first |-> p, last |-> e])
           IN  /\ t \in Seq(CutRange)
               /\ \A j \in 1..Len(t) : t[j].last <= n
               /\ \A i : is_selected(i, t) <=> is_selected(i, parts) \/ i \in p..e
<1> DEFINE x == [first |-> p, last |-> e]
           t == Append(parts, x)
           l == Len(parts)
<1>1. x \in CutRange /\ x.first = p /\ x.last = e BY DEF CutRange
<1> HIDE DEF x
<1>2. t \in Seq(CutRange) /\ Len(t) = l + 1 /\ t[l + 1] = x /\ \A j \in 1..l : t[j] = parts[j]
  BY <1>1, AppendFacts
<1>3. l \in Nat BY LenProperties
<1>4. ASSUME NEW i PROVE is_selected(i, t) <=> is_selected(i, parts) \/ i \in p..e
  BY <1>1, SelectedAppend
<1> HIDE DEF t, l
<1>5. ASSUME NEW j \in 1..Len(t) PROVE t[j].last <= n
  <2>1. CASE j = l + 1 BY <1>1, <1>2, <2>1
  <2>2. CASE j \in 1..l BY <1>2, <2>2 DEF l
  <2> QED BY <1>2, <1>3, <2>1, <2>2
<1> QED BY <1>2, <1>4, <1>5 DEF t, x

\* No range names a position between two of them.
LEMMA NoneBetween ==
    ASSUME NEW m, Apart(m), NEW k \in Nat, k + 1 <= Len(m), NEW p, Between(m, k, p), p \in Nat,
           NEW i, i \in p..m[k + 1].first - 1
    PROVE  ~is_selected(i, m)
<1> DEFINE l == k + 1
           f == m[l].first
<1>1. /\ m \in Seq(CutRange) /\ Len(m) \in Nat /\ DOMAIN m = 1..Len(m)
      /\ \A j \in 1..Len(m) : m[j] \in CutRange
      /\ l \in 1..Len(m)
  BY LenProperties, ElementOfSeq DEF Apart
<1>2. \A j \in 1..Len(m) : m[j].first \in Nat /\ m[j].last \in Nat /\ m[j].first <= m[j].last + 1
  BY <1>1 DEF CutRange
<1>3. f \in Nat /\ i \in p..f - 1 /\ i \in Int /\ p <= i /\ i < f
  BY <1>1, <1>2
<1>4. ASSUME NEW j \in 1..Len(m), i \in m[j].first..m[j].last PROVE FALSE
  <2> DEFINE a == m[j].first
             b == m[j].last
  <2>1. a \in Nat /\ b \in Nat /\ a <= i /\ i <= b BY <1>2, <1>4
  <2>2. CASE j <= k
    <3>1. j \in 1..k BY <2>2
    <3>2. b < p BY <3>1 DEF Between
    <3> HIDE DEF b
    <3> QED BY <1>3, <2>1, <3>2
  <2>3. CASE j = l BY <1>3, <2>1, <2>3
  <2>4. CASE j > l
    <3> DEFINE c == m[l].last
    <3>1. c + 1 < a BY <1>1, <2>4 DEF Apart
    <3>2. c \in Nat /\ f <= c + 1 BY <1>1, <1>2
    <3> HIDE DEF a, b, c, f
    <3> QED BY <1>3, <2>1, <3>1, <3>2
  <2> QED BY <2>2, <2>3, <2>4
<1> QED BY <1>1, <1>4 DEF is_selected

\* From one range to the next.
LEMMA LeftBefore ==
    ASSUME NEW cfg, NEW m, Apart(m), NEW n \in Nat, NEW k \in Nat, k + 1 <= Len(m),
           Next1(cfg, m[k + 1].last) = m[k + 1].last + 1,
           NEW s, LeftSoFar(m, n, k, s), Between(m, k, s.pos), s.pos <= n + 1
    PROVE  LeftSoFar(m, n, k + 1, BeforeRange(cfg, s, m[k + 1], n))
<1> DEFINE l == k + 1
           r == m[l]
           f == r.first
           b == r.last
           p == s.pos
           e == AtMost(f - 1, n)
           t == BeforeRange(cfg, s, r, n)
<1>1. /\ m \in Seq(CutRange) /\ Len(m) \in Nat /\ DOMAIN m = 1..Len(m)
      /\ \A j \in 1..Len(m) : m[j] \in CutRange
      /\ l \in 1..Len(m)
  BY LenProperties, ElementOfSeq DEF Apart
<1>2. \A j \in 1..Len(m) : m[j].first \in Nat /\ m[j].last \in Nat /\ m[j].first <= m[j].last + 1
  BY <1>1 DEF CutRange
<1>3. f \in Nat /\ b \in Nat /\ f <= b + 1 BY <1>1, <1>2
<1>4. p \in Nat /\ p > 0 /\ p <= n + 1 BY DEF LeftSoFar
<1>5. p <= f BY <1>1 DEF Between
<1>6. t.pos = b + 1 /\ t.out = IF p < f THEN Append(s.out, [first |-> p, last |-> e]) ELSE s.out
  BY DEF BeforeRange
<1>7. p < f => /\ e \in Nat /\ p <= e + 1 /\ e <= n /\ e <= f - 1
               /\ \A i : i \in p..f - 1 /\ i <= n => i \in p..e
  <2> HIDE DEF p, f
  <2> QED BY <1>3, <1>4 DEF AtMost
<1> HIDE DEF t, e
<1>8. /\ t.out \in Seq(CutRange)
      /\ \A j \in 1..Len(t.out) : t.out[j].last <= n
      /\ \A i : is_selected(i, t.out) <=> is_selected(i, s.out) \/ (p < f /\ i \in p..e)
  <2>1. s.out \in Seq(CutRange) /\ \A j \in 1..Len(s.out) : s.out[j].last <= n
    BY DEF LeftSoFar
  <2> HIDE DEF f, p
  <2>2. CASE p < f
    <3> DEFINE u == Append(s.out, [first |-> p, last |-> e])
    <3>1. p \in Nat \ {0} /\ e \in Nat /\ p <= e + 1 /\ e <= n
      BY <1>4, <1>7, <2>2
    <3>2. /\ u \in Seq(CutRange)
          /\ \A j \in 1..Len(u) : u[j].last <= n
          /\ \A i : is_selected(i, u) <=> is_selected(i, s.out) \/ i \in p..e
      BY <2>1, <3>1, LeftAppend
    <3> QED BY <1>6, <2>2, <3>2
  <2>3. CASE ~(p < f) BY <1>6, <2>1, <2>3
  <2> QED BY <2>2, <2>3
<1>9. ASSUME NEW i, is_selected(i, t.out) PROVE i \in Int /\ i < t.pos /\ ~is_selected(i, m)
  <2>1. CASE is_selected(i, s.out)
    <3>1. i \in Int /\ i < p /\ ~is_selected(i, m) BY <2>1 DEF LeftSoFar
    <3>2. i < b + 1
      <4> HIDE DEF p, f, b
      <4> QED BY <1>3, <1>4, <1>5, <3>1
    <3> QED BY <1>6, <3>1, <3>2
  <2>2. CASE p < f /\ i \in p..e
    <3>1. i \in Int /\ i < b + 1 /\ i \in p..f - 1
      <4>1. e \in Nat /\ e <= f - 1 BY <1>7, <2>2
      <4> HIDE DEF p, f, b
      <4> QED BY <1>3, <1>4, <2>2, <4>1
    <3>2. ~is_selected(i, m) BY <1>4, <3>1, NoneBetween
    <3> QED BY <1>6, <3>1, <3>2
  <2> QED BY <1>8, <1>9, <2>1, <2>2
<1>10. ASSUME NEW i \in 1..n, i < t.pos PROVE is_selected(i, t.out) \/ is_selected(i, m)
  <2>1. CASE i < p BY <1>8, <2>1 DEF LeftSoFar
  <2>2. CASE i >= p /\ i < f
    <3>1. p < f /\ i \in p..f - 1 /\ i <= n
      <4> HIDE DEF p, f
      <4> QED BY <1>3, <1>4, <2>2
    <3>2. i \in p..e BY <1>7, <3>1
    <3> QED BY <1>8, <3>1, <3>2
  <2>3. CASE i >= f
    <3>1. i \in f..b
      <4>1. i < b + 1 BY <1>6, <1>10
      <4> HIDE DEF p, f, b
      <4> QED BY <1>3, <2>3, <4>1
    <3> QED BY <1>1, <3>1 DEF is_selected
  <2> QED BY <1>3, <1>4, <2>1, <2>2, <2>3
<1>11. Between(m, l, t.pos)
  <2>1. ASSUME NEW j \in 1..l PROVE m[j].last < b + 1
    <3>1. CASE j = l BY <1>3, <3>1
    <3>2. CASE j # l
      <4> DEFINE c == m[j].last
      <4>1. j \in 1..Len(m) /\ j < l BY <1>1, <3>2
      <4>2. c + 1 < f /\ c \in Nat BY <1>1, <1>2, <4>1 DEF Apart
      <4> HIDE DEF c, f, b
      <4> QED BY <1>3, <4>2 DEF c
    <3> QED BY <3>1, <3>2
  <2>2. ASSUME NEW j \in l + 1..Len(m) PROVE b + 1 <= m[j].first
    <3> DEFINE c == m[j].first
    <3>1. j \in 1..Len(m) /\ l < j BY <1>1
    <3>2. b + 1 < c /\ c \in Nat BY <1>1, <1>2, <3>1 DEF Apart
    <3> HIDE DEF c, b
    <3> QED BY <1>3, <3>2 DEF c
  <2> QED BY <1>6, <2>1, <2>2 DEF Between
<1>12. t.pos \in Nat \ {0} BY <1>3, <1>6
<1> HIDE DEF l
<1>13. LeftSoFar(m, n, l, t)
  BY <1>8, <1>9, <1>10, <1>11, <1>12 DEF LeftSoFar
<1> QED BY <1>13 DEF l, t

\* What --complement takes instead of the ranges: the positions they do not name.
LEMMA ComplementRight ==
    ASSUME NEW cfg, NEW ranges \in Seq(CutRange), EndsInRange(cfg, ranges), NEW n \in Nat, n < IntMax
    PROVE  LET c == complement_ranges(cfg, ranges, n)
           IN  /\ c \in Seq(CutRange) /\ EndsInRange(cfg, c)
               /\ \A i \in 1..n : is_selected(i, c) <=> ~is_selected(i, ranges)
<1> DEFINE m == merge_ranges(cfg, ranges)
           l == Len(m)
           c == complement_ranges(cfg, ranges, n)
<1>1. Apart(m) /\ (\A i : is_selected(i, m) <=> is_selected(i, ranges)) /\ EndsInRange(cfg, m)
  BY MergedApart
<1>2. /\ m \in Seq(CutRange) /\ l \in Nat /\ DOMAIN m = 1..l
      /\ \A j \in 1..l : m[j] \in CutRange
  BY <1>1, LenProperties, ElementOfSeq DEF Apart
<1>3. PICK h : Leaving(h, cfg, m, n) /\ c = WithRest(h[l], n)
  BY <1>2, ComplementIs
<1> HIDE DEF m, c
<1>4. /\ h[0] = [pos |-> 1, out |-> <<>>]
      /\ \A k \in 1..l : h[k] = IF k > 1 /\ h[k - 1].pos > n THEN h[k - 1]
                                ELSE BeforeRange(cfg, h[k - 1], m[k], n)
  <2>1. ASSUME NEW k \in 0..l
        PROVE h[k] = IF k = 0 THEN [pos |-> 1, out |-> <<>>]
                     ELSE IF k > 1 /\ h[k - 1].pos > n THEN h[k - 1] ELSE BeforeRange(cfg, h[k - 1], m[k], n)
    BY <1>3 DEF Leaving
  <2> QED BY <1>2, <2>1
<1> HIDE DEF l
<1> DEFINE Good(k) == LeftSoFar(m, n, k, h[k]) /\ (k = 0 => h[k].pos = 1)
           T == {k \in Nat : k <= l => Good(k)}
<1>5. 0 \in T
  <2> DEFINE s == h[0]
  <2>1. s.pos = 1 /\ s.out = <<>> BY <1>4
  <2>2. <<>> \in Seq(CutRange) /\ Len(<<>>) = 0 /\ DOMAIN <<>> = {} /\ 1..0 = {}
    BY EmptySeq
  <2>3. Between(m, 0, 1)
    <3>1. ASSUME NEW j \in 1..l PROVE 1 <= m[j].first
      BY <1>2, <3>1 DEF CutRange
    <3> QED BY <2>2, <3>1 DEF Between, l
  <2> HIDE DEF s
  <2>4. LeftSoFar(m, n, 0, s)
    BY <2>1, <2>2, <2>3 DEF LeftSoFar, is_selected
  <2>5. Good(0) BY <2>1, <2>4 DEF s
  <2> HIDE DEF Good
  <2> QED BY <2>5
<1>6. ASSUME NEW k \in Nat, k \in T PROVE k + 1 \in T
  <2> SUFFICES ASSUME k + 1 <= l PROVE Good(k + 1) OBVIOUS
  <2> DEFINE j == k + 1
             s == h[k]
  <2>1. Good(k) /\ j \in 1..l /\ j - 1 = k /\ (j > 1 <=> k > 0) /\ j # 0 /\ j > 0
    BY <1>2, <1>6
  <2>2. h[j] = IF j > 1 /\ s.pos > n THEN s ELSE BeforeRange(cfg, s, m[j], n)
    BY <1>4, <2>1
  <2>3. LeftSoFar(m, n, k, s) /\ (k = 0 => s.pos = 1) /\ s.pos \in Nat
    BY <2>1 DEF LeftSoFar
  <2> HIDE DEF s
  <2>4. CASE j > 1 /\ s.pos > n
    <3>1. h[j] = s BY <2>2, <2>4
    <3> HIDE DEF j
    <3>2. LeftSoFar(m, n, j, s) BY <2>1, <2>3, <2>4 DEF LeftSoFar
    <3> QED BY <2>1, <3>1, <3>2 DEF j
  <2>5. CASE ~(j > 1 /\ s.pos > n)
    <3>1. h[j] = BeforeRange(cfg, s, m[j], n) BY <2>2, <2>5
    <3>2. Between(m, k, s.pos) BY <2>1, <2>3, <2>5 DEF LeftSoFar
    <3>3. s.pos <= n + 1 BY <2>1, <2>3, <2>5
    <3>4. Next1(cfg, m[j].last) = m[j].last + 1
      BY <1>1, <2>1 DEF EndsInRange, l
    <3>5. LeftSoFar(m, n, k + 1, BeforeRange(cfg, s, m[k + 1], n))
      <4>1. k + 1 <= Len(m) BY DEF l
      <4> QED BY <1>1, <2>3, <3>2, <3>3, <3>4, <4>1, LeftBefore
    <3> QED BY <2>1, <3>1, <3>5
  <2> QED BY <2>4, <2>5
<1>7. Good(l)
  <2>1. Nat \subseteq T
    <3> HIDE DEF T
    <3> QED BY <1>5, <1>6, SetInduction
  <2>2. l \in T /\ l <= l
    <3> HIDE DEF T
    <3> QED BY <1>2, <2>1
  <2> HIDE DEF Good
  <2> QED BY <2>2
<1> DEFINE s == h[l]
<1>8. LeftSoFar(m, n, l, s) BY <1>7
<1> HIDE DEF s
<1>9. /\ s.pos \in Nat \ {0} /\ s.out \in Seq(CutRange)
      /\ \A j \in 1..Len(s.out) : s.out[j].last <= n
      /\ \A i \in 1..n : is_selected(i, s.out) => i < s.pos /\ ~is_selected(i, m)
      /\ \A i \in 1..n : i < s.pos => is_selected(i, s.out) \/ is_selected(i, m)
  BY <1>8 DEF LeftSoFar
<1>10. s.pos <= n => \A j \in 1..l : m[j].last < s.pos
  BY <1>8, <1>9 DEF LeftSoFar, Between
<1>11. /\ c \in Seq(CutRange) /\ \A j \in 1..Len(c) : c[j].last <= n
       /\ \A i \in 1..n : is_selected(i, c) <=> ~is_selected(i, m)
  <2>1. CASE s.pos <= n
    <3> DEFINE p == s.pos
               u == Append(s.out, [first |-> p, last |-> n])
    <3>1. c = u BY <1>3, <2>1 DEF WithRest, s
    <3>2. p \in Nat \ {0} /\ p <= n + 1 /\ n <= n BY <1>9, <2>1
    <3> HIDE DEF p
    <3>3. /\ u \in Seq(CutRange)
          /\ \A j \in 1..Len(u) : u[j].last <= n
          /\ \A i : is_selected(i, u) <=> is_selected(i, s.out) \/ i \in p..n
      BY <1>9, <3>2, LeftAppend
    <3>4. ASSUME NEW i \in 1..n PROVE is_selected(i, u) <=> ~is_selected(i, m)
      <4>1. CASE i < p
        <5>1. is_selected(i, s.out) <=> ~is_selected(i, m)
          BY <1>9, <4>1 DEF p
        <5>2. i \notin p..n BY <3>2, <4>1
        <5> QED BY <3>3, <5>1, <5>2
      <4>2. CASE ~(i < p)
        <5>1. i \in p..n BY <3>2, <4>2
        <5>2. ASSUME is_selected(i, m) PROVE FALSE
          <6>1. PICK j \in 1..l : i \in m[j].first..m[j].last
            BY <1>2, <5>2 DEF is_selected
          <6> DEFINE b == m[j].last
                     f == m[j].first
          <6>2. b < p /\ b \in Nat /\ f \in Nat /\ i \in f..b
            BY <1>2, <1>10, <2>1, <6>1 DEF p, CutRange
          <6> HIDE DEF b, f
          <6> QED BY <3>2, <4>2, <6>2
        <5> QED BY <3>3, <5>1, <5>2
      <4> QED BY <4>1, <4>2
    <3> QED BY <3>1, <3>3, <3>4
  <2>2. CASE ~(s.pos <= n)
    <3>1. c = s.out BY <1>3, <2>2 DEF WithRest, s
    <3>2. \A i \in 1..n : i < s.pos BY <1>9, <2>2
    <3> QED BY <1>9, <3>1, <3>2
  <2> QED BY <2>1, <2>2
<1>12. EndsInRange(cfg, c)
  <2> SUFFICES ASSUME NEW j \in 1..Len(c) PROVE Next1(cfg, c[j].last) = c[j].last + 1
    BY DEF EndsInRange
  <2> DEFINE b == c[j].last
  <2>1. b \in Nat /\ b <= n
    <3>1. c[j] \in CutRange BY <1>11, ElementOfSeq, LenProperties
    <3> QED BY <1>11, <3>1 DEF CutRange
  <2> HIDE DEF b
  <2>2. b # IntMax BY <2>1, PiecesAssumption
  <2>3. Next1(cfg, b) = b + 1 BY <2>2 DEF Next1
  <2> QED BY <2>3 DEF b
<1> QED BY <1>1, <1>11, <1>12 DEF c, m

\* A delimiter is not shown, so a piece of the output shows its range.
LEMMA PieceShown ==
    ASSUME NEW n \in Nat, NEW A, NEW d \in BOOLEAN
    PROVE  LET p == (IF d THEN <<0>> ELSE <<>>) \o Listed(n, A)
           IN  p \in Seq(Nat) /\ In(p, Nat \ {0}) = Listed(n, A)
<1> DEFINE q == IF d THEN <<0>> ELSE <<>>
           s == Listed(n, A)
           N == Nat \ {0}
<1>1. q \in Seq(Nat) /\ \A k \in DOMAIN q : q[k] = 0 OBVIOUS
<1>2. s \in Seq(Nat)
  <2>1. s \in Seq(1..n) BY ListedType
  <2> HIDE DEF s
  <2> QED BY <2>1
<1>3. In(q, N) = <<>>
  <2> HIDE DEF q
  <2>1. \A k \in DOMAIN q : q[k] \notin N BY <1>1
  <2> HIDE DEF N
  <2> QED BY <1>1, <2>1, InNone
<1>4. In(s, N) = s
  <2> DEFINE keep == {k \in DOMAIN s : s[k] # 0}
             in == {k \in DOMAIN s : s[k] \in N}
  <2>1. Those(s, keep) = s BY ListedShown
  <2>2. in = keep
    <3> HIDE DEF s
    <3>1. \A k \in DOMAIN s : s[k] \in Nat
      BY <1>2, ElementOfSeq, LenProperties
    <3> QED BY <3>1
  <2> QED BY <2>1, <2>2 DEF In
<1> HIDE DEF q, s, N
<1>5. q \o s \in Seq(Nat) BY <1>1, <1>2, ConcatProperties
<1>6. In(q \o s, N) = In(q, N) \o In(s, N) BY <1>1, <1>2, InConcat
<1>7. <<>> \o s = s BY <1>2, ConcatEmptySeq
<1> QED BY <1>3, <1>4, <1>5, <1>6, <1>7 DEF q, s, N

\* What cut prints of bytes or characters are the positions the merged ranges name.
LEMMA BytesShown ==
    ASSUME NEW cfg, NEW n \in Nat, NEW m, Apart(m), m = merge_ranges(cfg, effective_ranges(cfg, n))
    PROVE  LET printed == cut_bytes_or_chars(cfg, n)
           IN  /\ printed \in Seq(Nat)
               /\ In(printed, Nat \ {0}) = Listed(n, {i \in 1..n : is_selected(i, m)})
<1> DEFINE l == Len(m)
           delim(k) == IF k > 1 /\ cfg.delimiter THEN <<0>> ELSE <<>>
           P == [k \in DOMAIN m |-> delim(k) \o Listed(n, m[k].first..m[k].last)]
           N == Nat \ {0}
           printed == cut_bytes_or_chars(cfg, n)
           All(k) == FlattenSeq(SubSeq(P, 1, k))
           U(k) == {i \in Int : \E j \in 1..k : i \in m[j].first..m[j].last}
           T == {k \in Nat : k <= l => In(All(k), N) = Listed(n, U(k))}
<1>1. /\ m \in Seq(CutRange) /\ l \in Nat /\ DOMAIN m = 1..l
      /\ \A j \in 1..l : m[j].first \in Nat /\ m[j].last \in Nat /\ m[j].first <= m[j].last + 1
  <2>1. m \in Seq(CutRange) /\ l \in Nat /\ DOMAIN m = 1..l /\ \A j \in 1..l : m[j] \in CutRange
    BY LenProperties, ElementOfSeq DEF Apart
  <2> QED BY <2>1 DEF CutRange
<1>2. printed = FlattenSeq(P) BY DEF cut_bytes_or_chars
<1>3. P = [k \in 1..l |-> P[k]] /\ \A k \in 1..l : P[k] = delim(k) \o Listed(n, m[k].first..m[k].last)
  BY <1>1
<1> HIDE DEF P, printed
<1>4. ASSUME NEW k \in 1..l PROVE P[k] \in Seq(Nat) /\ In(P[k], N) = Listed(n, m[k].first..m[k].last)
  <2> DEFINE d == k > 1 /\ cfg.delimiter
             A == m[k].first..m[k].last
             p == (IF (d = TRUE) THEN <<0>> ELSE <<>>) \o Listed(n, A)
  <2>1. P[k] = p BY <1>3
  <2> HIDE DEF A
  <2>2. p \in Seq(Nat) /\ In(p, N) = Listed(n, A) BY PieceShown
  <2> HIDE DEF p
  <2> QED BY <2>1, <2>2 DEF A
<1>5. P \in Seq(Seq(Nat)) /\ Len(P) = l
  <2> DEFINE S == Seq(Nat)
  <2>1. \A k \in 1..l : P[k] \in S BY <1>4
  <2>2. l \in Nat /\ P = [k \in 1..l |-> P[k]] BY <1>1, <1>3
  <2> HIDE DEF S, l
  <2>3. P \in Seq(S) /\ Len(P) = l BY ONLY <2>1, <2>2, SeqOfFunction
  <2> QED BY <2>3 DEF S
<1>6. /\ SubSeq(P, 1, 0) = <<>> /\ SubSeq(P, 1, l) = P
      /\ \A k \in 1..l : SubSeq(P, 1, k - 1) \in Seq(Seq(Nat)) /\ SubSeq(P, 1, k) = Append(SubSeq(P, 1, k - 1), P[k])
  <2> DEFINE S == Seq(Nat)
  <2>1. P \in Seq(S) /\ Len(P) = l BY <1>5
  <2> HIDE DEF S, l
  <2>2. /\ SubSeq(P, 1, 0) = <<>> /\ SubSeq(P, 1, Len(P)) = P
        /\ \A k \in 1..Len(P) : SubSeq(P, 1, k - 1) \in Seq(S) /\ SubSeq(P, 1, k) = Append(SubSeq(P, 1, k - 1), P[k])
    BY <2>1, Beginnings
  <2> QED BY <2>1, <2>2 DEF S
<1>7. 0 \in T
  <2>1. All(0) = <<>> /\ <<>> \in Seq(Nat) /\ DOMAIN <<>> = {}
    <3>1. All(0) = <<>> BY <1>6, FlattenEmpty
    <3> QED BY <3>1
  <2>2. In(<<>>, N) = <<>>
    <3> HIDE DEF N
    <3> QED BY <2>1, InNone
  <2>3. Listed(n, U(0)) = Listed(n, {})
    <3>1. U(0) = {} OBVIOUS
    <3> QED BY <3>1
  <2>4. Listed(n, {}) = <<>>
    <3> DEFINE S == 1..n
               s == [i \in 1..n |-> i]
    <3>1. s \in Seq(S) BY ListedIs
    <3> HIDE DEF S, s
    <3>2. Those(s, {}) = <<>> BY <3>1, ThoseNone
    <3> QED BY <3>2 DEF Listed, s
  <2> QED BY <2>1, <2>2, <2>3, <2>4
<1>8. ASSUME NEW k \in Nat, k \in T PROVE k + 1 \in T
  <2> SUFFICES ASSUME k + 1 <= l PROVE In(All(k + 1), N) = Listed(n, U(k + 1))
    <3> HIDE DEF All, U, N
    <3> QED OBVIOUS
  <2> DEFINE j == k + 1
             before == SubSeq(P, 1, k)
             A == m[j].first..m[j].last
  <2>1. j \in 1..l /\ j - 1 = k /\ k <= l BY <1>1
  <2>2. In(All(k), N) = Listed(n, U(k)) BY <1>8, <2>1
  <2>3. before \in Seq(Seq(Nat)) /\ SubSeq(P, 1, j) = Append(before, P[j])
    <3> HIDE DEF j
    <3>1. SubSeq(P, 1, j - 1) \in Seq(Seq(Nat)) /\ SubSeq(P, 1, j) = Append(SubSeq(P, 1, j - 1), P[j])
      BY <1>6, <2>1
    <3> QED BY <2>1, <3>1
  <2>4. P[j] \in Seq(Nat) /\ In(P[j], N) = Listed(n, A)
    <3> HIDE DEF j, N
    <3> QED BY <1>4, <2>1
  <2>5. All(j) = All(k) \o P[j] /\ All(k) \in Seq(Nat)
    <3>1. FlattenSeq(Append(before, P[j])) = FlattenSeq(before) \o P[j]
      <4> HIDE DEF before, j
      <4> QED BY <2>3, <2>4, FlattenAppend
    <3>2. FlattenSeq(before) \in Seq(Nat)
      <4> HIDE DEF before
      <4> QED BY <2>3, FlattenType
    <3> HIDE DEF j
    <3> QED BY <2>3, <3>1, <3>2
  <2>6. In(All(j), N) = Listed(n, U(k)) \o Listed(n, A)
    <3> DEFINE a == All(k)
               b == P[j]
    <3>1. a \in Seq(Nat) /\ b \in Seq(Nat) BY <2>4, <2>5
    <3> HIDE DEF a, b, N
    <3>2. In(a \o b, N) = In(a, N) \o In(b, N) BY <3>1, InConcat
    <3> QED BY <2>2, <2>4, <2>5, <3>2 DEF a, b
  <2>7. ASSUME NEW x \in U(k), NEW y \in A PROVE x < y
    <3>1. PICK i \in 1..k : x \in m[i].first..m[i].last OBVIOUS
    <3> DEFINE b == m[i].last
               f == m[j].first
    <3>2. i \in 1..l /\ i < j BY <1>1, <2>1
    <3>3. b + 1 < f BY <2>1, <3>2 DEF Apart
    <3>4. b \in Nat /\ f \in Nat /\ m[i].first \in Nat /\ m[j].last \in Nat
      BY <1>1, <2>1, <3>2
    <3>5. x \in m[i].first..b /\ y \in f..m[j].last BY <2>7, <3>1
    <3>6. x <= b /\ f <= y /\ x \in Int /\ y \in Int BY ONLY <3>4, <3>5
    <3> HIDE DEF b, f
    <3> QED BY ONLY <3>3, <3>4, <3>6
  <2>8. U(k) \in SUBSET Int /\ A \in SUBSET Int BY <1>1, <2>1
  <2>9. U(j) = U(k) \cup A
    <3>1. \A i : i \in 1..j <=> i \in 1..k \/ i = j BY <2>1
    <3>2. \A i : i \in U(j) <=> i \in Int /\ \E x \in 1..j : i \in m[x].first..m[x].last
      OBVIOUS
    <3>3. \A i : i \in U(k) <=> i \in Int /\ \E x \in 1..k : i \in m[x].first..m[x].last
      OBVIOUS
    <3>4. \A i : i \in A => i \in Int BY <2>8
    <3> HIDE DEF j, U
    <3>5. \A i : i \in U(j) <=> i \in U(k) \/ i \in A
      BY <3>1, <3>2, <3>3, <3>4
    <3> HIDE DEF A
    <3> QED BY <3>5
  <2>10. Listed(n, U(k) \cup A) = Listed(n, U(k)) \o Listed(n, A)
    <3> DEFINE B == U(k)
    <3>1. B \in SUBSET Int /\ A \in SUBSET Int /\ \A x \in B, y \in A : x < y
      BY <2>7, <2>8
    <3> HIDE DEF A, B
    <3>2. Listed(n, B \cup A) = Listed(n, B) \o Listed(n, A)
      BY <3>1, ListedConcat
    <3> QED BY <3>2 DEF B
  <2> QED BY <2>6, <2>9, <2>10
<1>9. In(All(l), N) = Listed(n, U(l))
  <2>1. Nat \subseteq T
    <3> HIDE DEF T
    <3> QED BY <1>7, <1>8, SetInduction
  <2>2. l \in T /\ l <= l
    <3> HIDE DEF T
    <3> QED BY <1>1, <2>1
  <2> HIDE DEF All, U, N
  <2> QED BY <2>2
<1>10. Listed(n, U(l)) = Listed(n, {i \in 1..n : is_selected(i, m)})
  <2> DEFINE A == U(l)
             B == {i \in 1..n : is_selected(i, m)}
  <2>1. \A i \in 1..n : i \in A <=> i \in B
    <3> SUFFICES ASSUME NEW i \in 1..n PROVE i \in A <=> is_selected(i, m)
      OBVIOUS
    <3>1. i \in Int /\ (i \in A <=> \E j \in 1..l : i \in m[j].first..m[j].last)
      OBVIOUS
    <3>2. is_selected(i, m) <=> \E j \in 1..l : i \in m[j].first..m[j].last
      BY <1>1 DEF is_selected
    <3> HIDE DEF A
    <3> QED BY <3>1, <3>2
  <2> HIDE DEF A, B
  <2>2. Listed(n, A) = Listed(n, B) BY <2>1, ListedAgree
  <2> QED BY <2>2 DEF A, B
<1>11. printed \in Seq(Nat) BY <1>2, <1>5, FlattenType
<1>12. All(l) = printed BY <1>2, <1>6
<1> HIDE DEF N, U, All
<1> QED BY <1>9, <1>10, <1>11, <1>12 DEF N, printed

\* What cut has to print of a record (CutSelects).
CutRight(cfg, n, printed) ==
    LET overflows == /\ \E k \in DOMAIN cfg.ranges : cfg.ranges[k].last = IntMax
                     /\ cfg.wraps /\ (cfg.complement \/ Len(cfg.ranges) > 1)
    IN  (~overflows /\ (cfg.fields => n > 1)) =>
          Those(printed, {k \in DOMAIN printed : printed[k] # 0})
            = Listed(n, {i \in 1..n : is_selected(i, cfg.ranges) # cfg.complement})

\* The ranges cut goes by name the positions it has to print.
LEMMA EffectiveRight ==
    ASSUME NEW cfg, cfg.ranges \in Seq(CutRange), cfg.complement \in BOOLEAN,
           cfg.complement \/ Len(cfg.ranges) > 1 => EndsInRange(cfg, cfg.ranges),
           NEW n \in Nat, n < IntMax
    PROVE  LET e == effective_ranges(cfg, n)
           IN  /\ e \in Seq(CutRange)
               /\ Len(e) > 1 => EndsInRange(cfg, e)
               /\ \A i \in 1..n : is_selected(i, e) <=> is_selected(i, cfg.ranges) # cfg.complement
<1>1. CASE cfg.complement
  <2> DEFINE c == complement_ranges(cfg, cfg.ranges, n)
  <2>1. effective_ranges(cfg, n) = c BY <1>1 DEF effective_ranges
  <2>2. /\ c \in Seq(CutRange) /\ EndsInRange(cfg, c)
        /\ \A i \in 1..n : is_selected(i, c) <=> ~is_selected(i, cfg.ranges)
    <3>1. EndsInRange(cfg, cfg.ranges) BY <1>1
    <3> DEFINE ranges == cfg.ranges
    <3>2. ranges \in Seq(CutRange) /\ EndsInRange(cfg, ranges) BY <3>1
    <3> HIDE DEF ranges
    <3>3. LET d == complement_ranges(cfg, ranges, n)
          IN  /\ d \in Seq(CutRange) /\ EndsInRange(cfg, d)
              /\ \A i \in 1..n : is_selected(i, d) <=> ~is_selected(i, ranges)
      BY <3>2, ComplementRight
    <3> QED BY <3>3 DEF ranges
  <2> HIDE DEF c
  <2>3. ASSUME NEW i \in 1..n PROVE is_selected(i, c) <=> is_selected(i, cfg.ranges) # cfg.complement
    <3>1. is_selected(i, c) <=> ~is_selected(i, cfg.ranges) BY <2>2
    <3>2. cfg.complement = TRUE /\ is_selected(i, cfg.ranges) \in BOOLEAN
      BY <1>1 DEF is_selected
    <3> QED BY <3>1, <3>2
  <2> QED BY <2>1, <2>2, <2>3
<1>2. CASE ~cfg.complement
  <2>1. effective_ranges(cfg, n) = cfg.ranges
    BY <1>2 DEF effective_ranges
  <2>2. ASSUME NEW i PROVE is_selected(i, cfg.ranges) <=> is_selected(i, cfg.ranges) # cfg.complement
    <3>1. cfg.complement = FALSE /\ is_selected(i, cfg.ranges) \in BOOLEAN
      BY <1>2 DEF is_selected
    <3> QED BY <3>1
  <2> QED BY <2>1, <2>2
<1> QED BY <1>1, <1>2

\* cut prints that.
LEMMA CutHolds ==
    ASSUME NEW cfg, cfg.ranges \in Seq([first : Nat \ {0}, last : Nat]),
           \A k \in DOMAIN cfg.ranges : cfg.ranges[k].first <= cfg.ranges[k].last,
           cfg.complement \in BOOLEAN, NEW n \in 0..IntMax - 1
    PROVE  CutRight(cfg, n, cut(cfg, n))
<1> DEFINE ranges == cfg.ranges
           open == \E k \in DOMAIN ranges : ranges[k].last = IntMax
           overflows == open /\ cfg.wraps /\ (cfg.complement \/ Len(ranges) > 1)
           printed == cut(cfg, n)
           shown == Those(printed, {k \in DOMAIN printed : printed[k] # 0})
           wanted == {i \in 1..n : is_selected(i, ranges) # cfg.complement}
<1> SUFFICES ASSUME ~overflows, cfg.fields => n > 1 PROVE shown = Listed(n, wanted)
  BY DEF CutRight
<1>1. n \in Nat /\ n < IntMax BY PiecesAssumption
<1>2. ranges \in Seq(CutRange)
  <2> DEFINE R == [first : Nat \ {0}, last : Nat]
             l == Len(ranges)
  <2>1. ranges \in Seq(R) /\ l \in Nat /\ DOMAIN ranges = 1..l /\ ranges = [k \in 1..l |-> ranges[k]]
    BY LenProperties
  <2>2. ASSUME NEW k \in 1..l PROVE ranges[k] \in CutRange
    <3> DEFINE r == ranges[k]
    <3>1. r \in R /\ r.first <= r.last
      <4> HIDE DEF R
      <4>1. r \in R BY <2>1, ElementOfSeq
      <4> QED BY <2>1, <4>1
    <3> HIDE DEF r
    <3>2. r.first <= r.last + 1 BY <3>1
    <3>3. r \in CutRange BY <3>1, <3>2 DEF CutRange
    <3> QED BY <3>3 DEF r
  <2> HIDE DEF ranges, l
  <2> QED BY ONLY <2>1, <2>2, SeqOfFunction
<1>3. ASSUME cfg.complement \/ Len(ranges) > 1 PROVE EndsInRange(cfg, ranges)
  <2>1. DOMAIN ranges = 1..Len(ranges) BY <1>2, LenProperties
  <2>2. ~open \/ ~cfg.wraps BY <1>3
  <2> HIDE DEF ranges
  <2> QED BY <2>1, <2>2 DEF EndsInRange, Next1
<1> DEFINE e == effective_ranges(cfg, n)
<1>4. /\ e \in Seq(CutRange)
      /\ Len(e) > 1 => EndsInRange(cfg, e)
      /\ \A i \in 1..n : is_selected(i, e) <=> i \in wanted
  <2>1. /\ e \in Seq(CutRange)
        /\ Len(e) > 1 => EndsInRange(cfg, e)
        /\ \A i \in 1..n : is_selected(i, e) <=> is_selected(i, cfg.ranges) # cfg.complement
    BY <1>1, <1>2, <1>3, EffectiveRight
  <2> HIDE DEF e
  <2> QED BY <2>1
<1> HIDE DEF wanted, e
<1>5. CASE cfg.fields
  <2> DEFINE A == {i \in 1..n : is_selected(i, e)}
  <2>1. printed = Listed(n, A) BY <1>1, <1>5 DEF cut, cut_line, e
  <2>2. Listed(n, A) = Listed(n, wanted)
    <3>1. \A i \in 1..n : i \in A <=> i \in wanted BY <1>4
    <3> HIDE DEF A
    <3> QED BY <1>1, <3>1, ListedAgree
  <2> DEFINE s == Listed(n, wanted)
  <2>3. Those(s, {k \in DOMAIN s : s[k] # 0}) = s BY <1>1, ListedShown
  <2>4. printed = s BY <2>1, <2>2
  <2> HIDE DEF printed, s
  <2> QED BY <2>3, <2>4 DEF s
<1>6. CASE ~cfg.fields
  <2> DEFINE m == merge_ranges(cfg, e)
             A == {i \in 1..n : is_selected(i, m)}
             N == Nat \ {0}
  <2>1. Apart(m) /\ \A i : is_selected(i, m) <=> is_selected(i, e)
    BY <1>4, MergedApart
  <2>2. printed = cut_bytes_or_chars(cfg, n) BY <1>6 DEF cut
  <2>3. printed \in Seq(Nat) /\ In(printed, N) = Listed(n, A)
    <3>1. m = merge_ranges(cfg, effective_ranges(cfg, n)) BY DEF e
    <3> HIDE DEF m
    <3>2. LET o == cut_bytes_or_chars(cfg, n)
          IN  o \in Seq(Nat) /\ In(o, Nat \ {0}) = Listed(n, {i \in 1..n : is_selected(i, m)})
      BY <1>1, <2>1, <3>1, BytesShown
    <3> QED BY <2>2, <3>2
  <2>4. Listed(n, A) = Listed(n, wanted)
    <3>1. \A i \in 1..n : i \in A <=> i \in wanted
      <4> HIDE DEF m
      <4> QED BY <1>4, <2>1
    <3> HIDE DEF A
    <3> QED BY <1>1, <3>1, ListedAgree
  <2> HIDE DEF printed
  <2>5. {k \in DOMAIN printed : printed[k] # 0} = {k \in DOMAIN printed : printed[k] \in N}
    <3>1. \A k \in DOMAIN printed : printed[k] \in Nat
      BY <2>3, ElementOfSeq, LenProperties
    <3> QED BY <3>1
  <2> QED BY <2>3, <2>4, <2>5 DEF In
<1> QED BY <1>5, <1>6

------------------------------------------------------------------------------
(***************************************************************************)
(* LinesAccountedFor for any files.  comm: the columns so far are the two  *)
(* beginnings read so far, and of sorted files column 3 is what both have  *)
(* (MergeHolds).  uniq: the turns keep what the runs of equal lines decide *)
(* (UniqTurnKeeps), whatever the options.  join: a line that is cut into   *)
(* all its fields and one from which a single field is taken agree on that *)
(* field (FieldsMeet), and the rows grow by the matches of one line        *)
(* (RowsGrow).  grep: the ranges around the matches are apart and hold     *)
(* the lines near a match (GroupsAre), what is printed is those lines with *)
(* separators where lines are left out (GroupsPrinted), and a file adds    *)
(* what is about it and nothing about another (GrepNext).                  *)
(***************************************************************************)
\* The turns of comm's merge.
LEMMA CommColumnsIs ==
    ASSUME NEW a, NEW b, Len(a) + Len(b) \in Nat
    PROVE  \E h : h = [k \in 0..Len(a) + Len(b) |-> IF k = 0 THEN [i |-> 1, j |-> 1, rows |-> <<>>] ELSE MergeTurn(a, b, h[k - 1])] /\ commColumns(a, b) = h[Len(a) + Len(b)].rows
<1> DEFINE v == [i |-> 1, j |-> 1, rows |-> <<>>]
           G(s, k) == MergeTurn(a, b, s)
           T == {m \in Nat : \E h : h = [k \in 0..m |-> IF k = 0 THEN v ELSE G(h[k - 1], k)]}
<1> HIDE DEF v, G
<1>1. 0 \in T
  <2> DEFINE h == [k \in 0..0 |-> v]
  <2>1. h = [k \in 0..0 |-> IF k = 0 THEN v ELSE G(h[k - 1], k)] OBVIOUS
  <2> HIDE DEF h
  <2> QED BY <2>1
<1>2. ASSUME NEW m \in Nat, m \in T PROVE m + 1 \in T
  <2>1. PICK h : h = [k \in 0..m |-> IF k = 0 THEN v ELSE G(h[k - 1], k)]
    BY <1>2
  <2> DEFINE g == [k \in 0..m + 1 |-> IF k \in 0..m THEN h[k] ELSE G(h[m], k)]
  <2>2. ASSUME NEW k \in 0..m + 1 PROVE g[k] = IF k = 0 THEN v ELSE G(g[k - 1], k)
    <3>1. CASE k = 0 BY <2>1, <3>1
    <3>2. CASE k \in 1..m
      <4>1. k \in 0..m /\ k - 1 \in 0..m /\ k # 0 /\ k - 1 \in 0..m + 1
        BY <3>2
      <4>2. g[k] = h[k] /\ g[k - 1] = h[k - 1] BY <4>1
      <4> HIDE DEF g
      <4> QED BY <2>1, <4>1, <4>2
    <3>3. CASE k = m + 1
      <4>1. k \notin 0..m /\ k - 1 = m /\ m \in 0..m /\ k # 0 /\ m \in 0..m + 1
        BY <3>3
      <4>2. g[k] = G(h[m], k) /\ g[m] = h[m] BY <4>1
      <4> HIDE DEF g
      <4> QED BY <4>1, <4>2
    <3> QED BY <3>1, <3>2, <3>3
  <2>3. g = [k \in 0..m + 1 |-> IF k = 0 THEN v ELSE G(g[k - 1], k)]
    <3>1. g = [k \in 0..m + 1 |-> g[k]] OBVIOUS
    <3> HIDE DEF g
    <3> QED BY <2>2, <3>1
  <2> HIDE DEF g
  <2> QED BY <2>3
<1>3. Nat \subseteq T
  <2> HIDE DEF T
  <2> QED BY <1>1, <1>2, SetInduction
<1>4. \E h : h = [k \in 0..Len(a) + Len(b) |-> IF k = 0 THEN v ELSE G(h[k - 1], k)]
  BY <1>3
<1> DEFINE C == CHOOSE h : h = [k \in 0..Len(a) + Len(b) |-> IF k = 0 THEN [i |-> 1, j |-> 1, rows |-> <<>>] ELSE MergeTurn(a, b, h[k - 1])]
<1>5. C = [k \in 0..Len(a) + Len(b) |-> IF k = 0 THEN [i |-> 1, j |-> 1, rows |-> <<>>] ELSE MergeTurn(a, b, C[k - 1])]
  BY <1>4 DEF v, G
<1>6. commColumns(a, b) = C[Len(a) + Len(b)].rows BY DEF commColumns
<1> HIDE DEF C
<1> QED BY <1>5, <1>6

\* A line in its column.
CommRow == [col : 1..3, line : Int]
CommLine(c, x) == [col |-> c, line |-> x]

\* The lines of some of the columns.
ColumnLines(rows, cols) == LET s == OfColumns(rows, cols) IN [k \in DOMAIN s |-> s[k].line]

\* The rows of a column are those with its number.
LEMMA OfColumnsIn ==
    ASSUME NEW rows \in Seq(CommRow), NEW cols
    PROVE  /\ OfColumns(rows, cols) = In(rows, {r \in CommRow : r.col \in cols})
           /\ OfColumns(rows, cols) \in Seq(CommRow)
<1> DEFINE R == {r \in CommRow : r.col \in cols}
           S == CommRow
<1>1. \A k \in DOMAIN rows : rows[k] \in CommRow
  BY ElementOfSeq, LenProperties
<1>2. {k \in DOMAIN rows : rows[k].col \in cols} = {k \in DOMAIN rows : rows[k] \in R}
  BY <1>1
<1>3. In(rows, R) \in Seq(S)
  <2>1. rows \in Seq(S) OBVIOUS
  <2> HIDE DEF R, S
  <2> QED BY <2>1, InType
<1> HIDE DEF R
<1>4. OfColumns(rows, cols) = In(rows, R) BY <1>2 DEF OfColumns, In
<1> QED BY <1>3, <1>4 DEF R

\* The lines of the rows are as many as these.
LEMMA ColumnLinesAre ==
    ASSUME NEW rows \in Seq(CommRow), NEW cols
    PROVE  /\ ColumnLines(rows, cols) \in Seq(Int)
           /\ Len(ColumnLines(rows, cols)) = Len(OfColumns(rows, cols))
           /\ \A k \in 1..Len(OfColumns(rows, cols)) : ColumnLines(rows, cols)[k] = OfColumns(rows, cols)[k].line
<1> DEFINE s == OfColumns(rows, cols)
           t == [k \in 1..Len(s) |-> s[k].line]
<1>1. s \in Seq(CommRow) /\ Len(s) \in Nat /\ DOMAIN s = 1..Len(s)
  BY OfColumnsIn, LenProperties
<1>2. ColumnLines(rows, cols) = t BY <1>1 DEF ColumnLines
<1> HIDE DEF s
<1>3. \A k \in 1..Len(s) : s[k].line \in Int
  <2> TAKE k \in 1..Len(s)
  <2>1. s[k] \in CommRow BY <1>1, ElementOfSeq
  <2> QED BY <2>1 DEF CommRow
<1>4. t = [k \in 1..Len(s) |-> t[k]] /\ \A k \in 1..Len(s) : t[k] \in Int
  BY <1>3
<1>5. \A k \in 1..Len(s) : t[k] = s[k].line OBVIOUS
<1> HIDE DEF t
<1>6. t \in Seq(Int) /\ Len(t) = Len(s)
  BY ONLY <1>1, <1>4, SeqOfFunction
<1> QED BY <1>2, <1>5, <1>6 DEF s

\* u has line x of column c behind the rows.
OneRowMore(u, rows, c, x, cols) ==
    /\ u \in Seq(CommRow)
    /\ ColumnLines(u, cols) = IF c \in cols THEN Append(ColumnLines(rows, cols), x) ELSE ColumnLines(rows, cols)

\* One row more is one line more of its column.
LEMMA ColumnLinesGrow ==
    ASSUME NEW rows \in Seq(CommRow), NEW c \in 1..3, NEW x \in Int, NEW cols
    PROVE  OneRowMore(Append(rows, CommLine(c, x)), rows, c, x, cols)
<1> DEFINE r == CommLine(c, x)
           R == {e \in CommRow : e.col \in cols}
           u == Append(rows, r)
           p == OfColumns(rows, cols)
           q == OfColumns(u, cols)
<1>1. r \in CommRow /\ r.col = c /\ r.line = x /\ (r \in R <=> c \in cols)
  BY DEF CommRow, CommLine
<1> HIDE DEF r
<1>2. u \in Seq(CommRow) BY <1>1, AppendFacts
<1>3. q = IF r \in R THEN Append(p, r) ELSE p
  <2>1. p = In(rows, R) /\ q = In(u, R) BY <1>2, OfColumnsIn
  <2>2. In(u, R) = IF r \in R THEN Append(In(rows, R), r) ELSE In(rows, R)
    <3> HIDE DEF R
    <3> QED BY <1>1, InAppend
  <2> HIDE DEF p, q, u, R
  <2> QED BY ONLY <2>1, <2>2
<1>4. p \in Seq(CommRow) /\ q \in Seq(CommRow) BY <1>2, OfColumnsIn
<1>5. CASE c \in cols
  <2> DEFINE s == ColumnLines(rows, cols)
             t == ColumnLines(u, cols)
  <2>1. q = Append(p, r) BY <1>1, <1>3, <1>5
  <2>2. s \in Seq(Int) /\ Len(s) = Len(p) /\ \A k \in 1..Len(p) : s[k] = p[k].line
    BY ColumnLinesAre
  <2>3. t \in Seq(Int) /\ Len(t) = Len(q) /\ \A k \in 1..Len(q) : t[k] = q[k].line
    BY <1>2, ColumnLinesAre
  <2> HIDE DEF p, q, s, t
  <2>4. Len(q) = Len(p) + 1 /\ q[Len(p) + 1] = r /\ \A k \in 1..Len(p) : q[k] = p[k]
    BY <1>1, <1>4, <2>1, AppendFacts
  <2>5. /\ Append(s, x) \in Seq(Int) /\ Len(Append(s, x)) = Len(s) + 1
        /\ Append(s, x)[Len(s) + 1] = x /\ \A k \in 1..Len(s) : Append(s, x)[k] = s[k]
    BY <2>2, AppendFacts
  <2>6. Len(p) \in Nat BY <1>4, LenProperties
  <2>7. \A k \in 1..Len(t) : t[k] = Append(s, x)[k]
    <3> TAKE k \in 1..Len(t)
    <3>1. CASE k = Len(p) + 1 BY <1>1, <2>2, <2>3, <2>4, <2>5, <3>1
    <3>2. CASE k # Len(p) + 1
      <4>1. k \in 1..Len(p) /\ k \in 1..Len(q) /\ k \in 1..Len(s)
        BY <2>2, <2>3, <2>4, <2>6, <3>2
      <4> QED BY <4>1, <2>2, <2>3, <2>4, <2>5
    <3> QED BY <3>1, <3>2
  <2>8. t = Append(s, x) BY <2>2, <2>3, <2>4, <2>5, <2>7, SeqEqual
  <2> QED BY <1>2, <1>5, <2>8 DEF s, t, r, OneRowMore
<1>6. CASE c \notin cols
  <2>1. q = p BY <1>1, <1>3, <1>6
  <2> QED BY <1>2, <1>6, <2>1 DEF ColumnLines, r, OneRowMore
<1> QED BY <1>5, <1>6

\* A sorted file rises to its end.
LEMMA SortedRises ==
    ASSUME NEW b \in Seq(Int), Sorted(b), NEW j \in 1..Len(b)
    PROVE  \A k \in j..Len(b) : b[j] <= b[k]
<1> DEFINE T == {n \in Nat : j + n <= Len(b) => b[j] <= b[j + n]}
<1>0. Len(b) \in Nat /\ \A k \in 1..Len(b) : b[k] \in Int
  BY LenProperties, ElementOfSeq
<1>1. 0 \in T BY <1>0
<1>2. ASSUME NEW n \in Nat, n \in T PROVE n + 1 \in T
  <2> SUFFICES ASSUME j + (n + 1) <= Len(b) PROVE b[j] <= b[j + (n + 1)]
    OBVIOUS
  <2>1. j + n \in 1..Len(b) - 1 /\ j + n \in 1..Len(b) /\ j + (n + 1) \in 1..Len(b) /\ (j + n) + 1 = j + (n + 1)
    BY <1>0
  <2>2. b[j] <= b[j + n] BY <1>2, <2>1, <1>0
  <2>3. b[j + n] <= b[j + (n + 1)] BY <2>1 DEF Sorted
  <2>4. b[j] \in Int /\ b[j + n] \in Int /\ b[j + (n + 1)] \in Int
    BY <2>1, <1>0
  <2> QED BY <2>2, <2>3, <2>4
<1>3. Nat \subseteq T
  <2> HIDE DEF T
  <2> QED BY <1>1, <1>2, SetInduction
<1> TAKE k \in j..Len(b)
<1>4. k - j \in Nat /\ j + (k - j) = k /\ k <= Len(b) BY <1>0
<1>5. k - j \in T BY <1>3, <1>4
<1> QED BY <1>4, <1>5

\* Where the merge stands: s.i and s.j are the next lines.
MergeState(a, b, s) ==
    /\ s = [i |-> s.i, j |-> s.j, rows |-> s.rows]
    /\ s.i \in 1..Len(a) + 1 /\ s.j \in 1..Len(b) + 1 /\ s.rows \in Seq(CommRow)
    /\ ColumnLines(s.rows, {1, 3}) = SubSeq(a, 1, s.i - 1)
    /\ ColumnLines(s.rows, {2, 3}) = SubSeq(b, 1, s.j - 1)

\* A line that only the first file has in front.
LEMMA MergeFirst ==
    ASSUME NEW a \in Seq(Int), NEW b \in Seq(Int), NEW s, MergeState(a, b, s), s.i <= Len(a),
           NEW t, t = [s EXCEPT !.i = @ + 1, !.rows = Append(@, [col |-> 1, line |-> a[s.i]])]
    PROVE  MergeState(a, b, t)
<1>0. Len(a) \in Nat /\ Len(b) \in Nat /\ \A k \in 1..Len(a) : a[k] \in Int
  BY LenProperties, ElementOfSeq
<1> DEFINE x == a[s.i]
           r == s.rows
           u == Append(r, CommLine(1, x))
<1>1. t = [i |-> s.i + 1, j |-> s.j, rows |-> u] /\ r = s.rows
  BY DEF MergeState, CommLine
<1>2. s.i \in 1..Len(a) /\ x \in Int /\ r \in Seq(CommRow)
  BY <1>0 DEF MergeState
<1> HIDE DEF x, r
<1>3. /\ u \in Seq(CommRow)
      /\ ColumnLines(u, {1, 3}) = Append(ColumnLines(r, {1, 3}), x)
      /\ ColumnLines(u, {2, 3}) = ColumnLines(r, {2, 3})
  <2>1. u \in Seq(CommRow) /\ ColumnLines(u, {1, 3}) = IF 1 \in {1, 3} THEN Append(ColumnLines(r, {1, 3}), x) ELSE ColumnLines(r, {1, 3})
    <3> DEFINE cols == {1, 3}
               c == 1
    <3>0. r \in Seq(CommRow) /\ x \in Int BY <1>2
    <3>1. c \in 1..3 OBVIOUS
    <3> HIDE DEF cols, c
    <3>2. OneRowMore(Append(r, CommLine(c, x)), r, c, x, cols)
      BY ONLY <3>0, <3>1, ColumnLinesGrow
    <3> QED BY <3>2 DEF OneRowMore, cols, c, u
  <2>2. u \in Seq(CommRow) /\ ColumnLines(u, {2, 3}) = IF 1 \in {2, 3} THEN Append(ColumnLines(r, {2, 3}), x) ELSE ColumnLines(r, {2, 3})
    <3> DEFINE cols == {2, 3}
               c == 1
    <3>0. r \in Seq(CommRow) /\ x \in Int BY <1>2
    <3>1. c \in 1..3 OBVIOUS
    <3> HIDE DEF cols, c
    <3>2. OneRowMore(Append(r, CommLine(c, x)), r, c, x, cols)
      BY ONLY <3>0, <3>1, ColumnLinesGrow
    <3> QED BY <3>2 DEF OneRowMore, cols, c, u
  <2>3. 1 \in {1, 3} /\ 1 \notin {2, 3} /\ 2 \in {2, 3} /\ 2 \notin {1, 3} /\ 3 \in {1, 3} /\ 3 \in {2, 3}
    OBVIOUS
  <2> HIDE DEF u
  <2> QED BY <2>1, <2>2, <2>3
<1>4. SubSeq(a, 1, s.i) = Append(SubSeq(a, 1, s.i - 1), a[s.i])
  BY ONLY <1>2, a \in Seq(Int), BeginningGrows
<1>5. t.i = s.i + 1 /\ t.j = s.j /\ t.rows = u /\ t.i - 1 = s.i
  <2> HIDE DEF u
  <2>1. s.i \in Int /\ s.j \in Int BY <1>0 DEF MergeState
  <2>2. t.i = s.i + 1 /\ t.j = s.j /\ t.rows = u BY ONLY <1>1
  <2> QED BY ONLY <2>1, <2>2
<1>6. SubSeq(a, 1, t.i - 1) = ColumnLines(u, {1, 3})
  BY <1>3, <1>4, <1>5 DEF MergeState, x, r
<1>7. SubSeq(b, 1, t.j - 1) = ColumnLines(u, {2, 3})
  BY <1>3, <1>5 DEF MergeState, r
<1>8. t.i \in 1..Len(a) + 1 /\ t.j \in 1..Len(b) + 1
  <2> HIDE DEF u
  <2>1. s.i \in 1..Len(a) + 1 /\ s.j \in 1..Len(b) + 1 BY DEF MergeState
  <2>2. s.i + 1 \in 1..Len(a) + 1 \/ ~(s.i \in 1..Len(a)) BY ONLY <1>0
  <2>3. s.j + 1 \in 1..Len(b) + 1 \/ ~(s.j \in 1..Len(b)) BY ONLY <1>0
  <2> QED BY ONLY <1>2, <1>5, <2>1, <2>2, <2>3
<1> HIDE DEF u
<1> QED BY <1>1, <1>3, <1>5, <1>6, <1>7, <1>8 DEF MergeState

\* A line that only the second file has in front.
LEMMA MergeSecond ==
    ASSUME NEW a \in Seq(Int), NEW b \in Seq(Int), NEW s, MergeState(a, b, s), s.j <= Len(b),
           NEW t, t = [s EXCEPT !.j = @ + 1, !.rows = Append(@, [col |-> 2, line |-> b[s.j]])]
    PROVE  MergeState(a, b, t)
<1>0. Len(a) \in Nat /\ Len(b) \in Nat /\ \A k \in 1..Len(b) : b[k] \in Int
  BY LenProperties, ElementOfSeq
<1> DEFINE x == b[s.j]
           r == s.rows
           u == Append(r, CommLine(2, x))
<1>1. t = [i |-> s.i, j |-> s.j + 1, rows |-> u] /\ r = s.rows
  BY DEF MergeState, CommLine
<1>2. s.j \in 1..Len(b) /\ x \in Int /\ r \in Seq(CommRow)
  BY <1>0 DEF MergeState
<1> HIDE DEF x, r
<1>3. /\ u \in Seq(CommRow)
      /\ ColumnLines(u, {2, 3}) = Append(ColumnLines(r, {2, 3}), x)
      /\ ColumnLines(u, {1, 3}) = ColumnLines(r, {1, 3})
  <2>1. u \in Seq(CommRow) /\ ColumnLines(u, {1, 3}) = IF 2 \in {1, 3} THEN Append(ColumnLines(r, {1, 3}), x) ELSE ColumnLines(r, {1, 3})
    <3> DEFINE cols == {1, 3}
               c == 2
    <3>0. r \in Seq(CommRow) /\ x \in Int BY <1>2
    <3>1. c \in 1..3 OBVIOUS
    <3> HIDE DEF cols, c
    <3>2. OneRowMore(Append(r, CommLine(c, x)), r, c, x, cols)
      BY ONLY <3>0, <3>1, ColumnLinesGrow
    <3> QED BY <3>2 DEF OneRowMore, cols, c, u
  <2>2. u \in Seq(CommRow) /\ ColumnLines(u, {2, 3}) = IF 2 \in {2, 3} THEN Append(ColumnLines(r, {2, 3}), x) ELSE ColumnLines(r, {2, 3})
    <3> DEFINE cols == {2, 3}
               c == 2
    <3>0. r \in Seq(CommRow) /\ x \in Int BY <1>2
    <3>1. c \in 1..3 OBVIOUS
    <3> HIDE DEF cols, c
    <3>2. OneRowMore(Append(r, CommLine(c, x)), r, c, x, cols)
      BY ONLY <3>0, <3>1, ColumnLinesGrow
    <3> QED BY <3>2 DEF OneRowMore, cols, c, u
  <2>3. 1 \in {1, 3} /\ 1 \notin {2, 3} /\ 2 \in {2, 3} /\ 2 \notin {1, 3} /\ 3 \in {1, 3} /\ 3 \in {2, 3}
    OBVIOUS
  <2> HIDE DEF u
  <2> QED BY <2>1, <2>2, <2>3
<1>4. SubSeq(b, 1, s.j) = Append(SubSeq(b, 1, s.j - 1), b[s.j])
  BY ONLY <1>2, b \in Seq(Int), BeginningGrows
<1>5. t.i = s.i /\ t.j = s.j + 1 /\ t.rows = u /\ t.j - 1 = s.j
  <2> HIDE DEF u
  <2>1. s.i \in Int /\ s.j \in Int BY <1>0 DEF MergeState
  <2>2. t.i = s.i /\ t.j = s.j + 1 /\ t.rows = u BY ONLY <1>1
  <2> QED BY ONLY <2>1, <2>2
<1>6. SubSeq(b, 1, t.j - 1) = ColumnLines(u, {2, 3})
  BY <1>3, <1>4, <1>5 DEF MergeState, x, r
<1>7. SubSeq(a, 1, t.i - 1) = ColumnLines(u, {1, 3})
  BY <1>3, <1>5 DEF MergeState, r
<1>8. t.i \in 1..Len(a) + 1 /\ t.j \in 1..Len(b) + 1
  <2> HIDE DEF u
  <2>1. s.i \in 1..Len(a) + 1 /\ s.j \in 1..Len(b) + 1 BY DEF MergeState
  <2>2. s.i + 1 \in 1..Len(a) + 1 \/ ~(s.i \in 1..Len(a)) BY ONLY <1>0
  <2>3. s.j + 1 \in 1..Len(b) + 1 \/ ~(s.j \in 1..Len(b)) BY ONLY <1>0
  <2> QED BY ONLY <1>2, <1>5, <2>1, <2>2, <2>3
<1> HIDE DEF u
<1> QED BY <1>1, <1>3, <1>5, <1>6, <1>7, <1>8 DEF MergeState

\* A line both files have in front.
LEMMA MergeBoth ==
    ASSUME NEW a \in Seq(Int), NEW b \in Seq(Int), NEW s, MergeState(a, b, s),
           s.i <= Len(a), s.j <= Len(b), a[s.i] = b[s.j],
           NEW t, t = [i |-> s.i + 1, j |-> s.j + 1, rows |-> Append(s.rows, [col |-> 3, line |-> a[s.i]])]
    PROVE  MergeState(a, b, t)
<1>0. Len(a) \in Nat /\ Len(b) \in Nat /\ \A k \in 1..Len(a) : a[k] \in Int
  BY LenProperties, ElementOfSeq
<1> DEFINE x == a[s.i]
           r == s.rows
           u == Append(r, CommLine(3, x))
<1>1. t = [i |-> s.i + 1, j |-> s.j + 1, rows |-> u] /\ r = s.rows
  BY DEF MergeState, CommLine
<1>2. s.i \in 1..Len(a) /\ s.j \in 1..Len(b) /\ x \in Int /\ r \in Seq(CommRow)
  <2>1. s.i \in 1..Len(a) + 1 /\ s.j \in 1..Len(b) + 1 /\ r \in Seq(CommRow)
    BY DEF MergeState
  <2>2. s.i \in 1..Len(a) BY <1>0, <2>1
  <2>3. s.j \in 1..Len(b) BY <1>0, <2>1
  <2> QED BY <1>0, <2>1, <2>2, <2>3
<1> HIDE DEF x, r
<1>3. /\ u \in Seq(CommRow)
      /\ ColumnLines(u, {2, 3}) = Append(ColumnLines(r, {2, 3}), x)
      /\ ColumnLines(u, {1, 3}) = Append(ColumnLines(r, {1, 3}), x)
  <2>1. u \in Seq(CommRow) /\ ColumnLines(u, {1, 3}) = IF 3 \in {1, 3} THEN Append(ColumnLines(r, {1, 3}), x) ELSE ColumnLines(r, {1, 3})
    <3> DEFINE cols == {1, 3}
               c == 3
    <3>0. r \in Seq(CommRow) /\ x \in Int BY <1>2
    <3>1. c \in 1..3 OBVIOUS
    <3> HIDE DEF cols, c
    <3>2. OneRowMore(Append(r, CommLine(c, x)), r, c, x, cols)
      BY ONLY <3>0, <3>1, ColumnLinesGrow
    <3> QED BY <3>2 DEF OneRowMore, cols, c, u
  <2>2. u \in Seq(CommRow) /\ ColumnLines(u, {2, 3}) = IF 3 \in {2, 3} THEN Append(ColumnLines(r, {2, 3}), x) ELSE ColumnLines(r, {2, 3})
    <3> DEFINE cols == {2, 3}
               c == 3
    <3>0. r \in Seq(CommRow) /\ x \in Int BY <1>2
    <3>1. c \in 1..3 OBVIOUS
    <3> HIDE DEF cols, c
    <3>2. OneRowMore(Append(r, CommLine(c, x)), r, c, x, cols)
      BY ONLY <3>0, <3>1, ColumnLinesGrow
    <3> QED BY <3>2 DEF OneRowMore, cols, c, u
  <2>3. 1 \in {1, 3} /\ 1 \notin {2, 3} /\ 2 \in {2, 3} /\ 2 \notin {1, 3} /\ 3 \in {1, 3} /\ 3 \in {2, 3}
    OBVIOUS
  <2> HIDE DEF u
  <2> QED BY <2>1, <2>2, <2>3
<1>4. SubSeq(b, 1, s.j) = Append(SubSeq(b, 1, s.j - 1), b[s.j])
  BY ONLY <1>2, b \in Seq(Int), BeginningGrows
<1>9. SubSeq(a, 1, s.i) = Append(SubSeq(a, 1, s.i - 1), a[s.i])
  BY ONLY <1>2, a \in Seq(Int), BeginningGrows
<1>5. t.i = s.i + 1 /\ t.j = s.j + 1 /\ t.rows = u /\ t.j - 1 = s.j /\ t.i - 1 = s.i
  <2> HIDE DEF u
  <2>1. s.i \in Int /\ s.j \in Int BY <1>0 DEF MergeState
  <2>2. t.i = s.i + 1 /\ t.j = s.j + 1 /\ t.rows = u BY ONLY <1>1
  <2> QED BY ONLY <2>1, <2>2
<1>6. SubSeq(b, 1, t.j - 1) = ColumnLines(u, {2, 3})
  BY <1>3, <1>4, <1>5 DEF MergeState, x, r
<1>7. SubSeq(a, 1, t.i - 1) = ColumnLines(u, {1, 3})
  BY <1>3, <1>9, <1>5 DEF MergeState, x, r
<1>8. t.i \in 1..Len(a) + 1 /\ t.j \in 1..Len(b) + 1
  <2> HIDE DEF u
  <2>1. s.i \in 1..Len(a) + 1 /\ s.j \in 1..Len(b) + 1 BY DEF MergeState
  <2>2. s.i + 1 \in 1..Len(a) + 1 \/ ~(s.i \in 1..Len(a)) BY ONLY <1>0
  <2>3. s.j + 1 \in 1..Len(b) + 1 \/ ~(s.j \in 1..Len(b)) BY ONLY <1>0
  <2> QED BY ONLY <1>2, <1>5, <2>1, <2>2, <2>3
<1> HIDE DEF u
<1> QED BY <1>1, <1>3, <1>5, <1>6, <1>7, <1>8 DEF MergeState

\* How often a line is in column 3.
SharedTimes(rows, x) == HowMany(ColumnLines(rows, {3}), {x})

\* The lines of both files so far that are x, and those of column 3.
SharedSoFar(a, b, s, x) ==
    LET A == HowMany(SubSeq(a, 1, s.i - 1), {x})
        B == HowMany(SubSeq(b, 1, s.j - 1), {x})
        C == SharedTimes(s.rows, x)
    IN  /\ A \in Nat /\ B \in Nat /\ C = AtMost(A, B)
        /\ (\E k \in s.i..Len(a) : a[k] = x) => B <= A
        /\ (\E k \in s.j..Len(b) : b[k] = x) => A <= B

\* The line at i is counted once more up to i.
OneMoreCounted(s, i, x) ==
    /\ HowMany(SubSeq(s, 1, i - 1), {x}) \in Nat
    /\ HowMany(SubSeq(s, 1, i), {x}) = HowMany(SubSeq(s, 1, i - 1), {x}) + (IF s[i] = x THEN 1 ELSE 0)

\* One line more of a beginning is counted.
LEMMA BeginningCounts ==
    ASSUME NEW S, NEW s \in Seq(S), NEW i \in 1..Len(s), NEW x
    PROVE  OneMoreCounted(s, i, x)
<1> DEFINE b == SubSeq(s, 1, i - 1)
           A == {x}
<1>1. b \in Seq(S) /\ SubSeq(s, 1, i) = Append(b, s[i]) BY Beginnings
<1>2. s[i] \in S /\ (s[i] \in A <=> s[i] = x) BY ElementOfSeq
<1> HIDE DEF b, A
<1>3. HowMany(Append(b, s[i]), A) = HowMany(b, A) + (IF s[i] \in A THEN 1 ELSE 0)
  BY ONLY <1>1, <1>2, CountAppend
<1>4. HowMany(b, A) \in Nat BY ONLY <1>1, CountConcat
<1> QED BY <1>1, <1>2, <1>3, <1>4 DEF b, A, OneMoreCounted

\* One line more of column 3, or of another one.
LEMMA SharedCounts ==
    ASSUME NEW rows \in Seq(CommRow), NEW c \in 1..3, NEW y \in Int, NEW x
    PROVE  SharedTimes(Append(rows, CommLine(c, y)), x) = SharedTimes(rows, x) + (IF c = 3 /\ y = x THEN 1 ELSE 0)
<1> DEFINE l == ColumnLines(rows, {3})
           u == ColumnLines(Append(rows, CommLine(c, y)), {3})
           A == {x}
           cols == {3}
<1>1. c \in cols <=> c = 3 OBVIOUS
<1>2. y \in A <=> y = x OBVIOUS
<1> HIDE DEF cols
<1>3. ColumnLines(Append(rows, CommLine(c, y)), cols) = IF c \in cols THEN Append(ColumnLines(rows, cols), y) ELSE ColumnLines(rows, cols)
  <2>1. OneRowMore(Append(rows, CommLine(c, y)), rows, c, y, cols)
    BY ColumnLinesGrow
  <2> QED BY <2>1 DEF OneRowMore
<1>4. ColumnLines(rows, cols) \in Seq(Int) BY ColumnLinesAre
<1>5. l \in Seq(Int) /\ u = IF c = 3 THEN Append(l, y) ELSE l
  BY <1>1, <1>3, <1>4 DEF cols
<1> HIDE DEF l, u, A
<1>6. HowMany(Append(l, y), A) = HowMany(l, A) + (IF y \in A THEN 1 ELSE 0)
  BY ONLY <1>5, y \in Int, CountAppend
<1>7. HowMany(l, A) \in Nat BY ONLY <1>5, CountConcat
<1>8. HowMany(u, A) = HowMany(l, A) + (IF c = 3 /\ y = x THEN 1 ELSE 0)
  <2>1. CASE c = 3 BY <2>1, <1>2, <1>5, <1>6, <1>7
  <2>2. CASE c # 3 BY <2>2, <1>5, <1>7
  <2> QED BY <2>1, <2>2
<1> QED BY <1>8 DEF l, u, A, SharedTimes

\* A line of the first file is not to come in the second.
LEMMA SharedFirst ==
    ASSUME NEW a \in Seq(Int), NEW b \in Seq(Int), Sorted(a), Sorted(b), NEW s, MergeState(a, b, s),
           s.i <= Len(a), s.j > Len(b) \/ a[s.i] < b[s.j], NEW x \in Int, SharedSoFar(a, b, s, x),
           NEW t, t = [s EXCEPT !.i = @ + 1, !.rows = Append(@, [col |-> 1, line |-> a[s.i]])]
    PROVE  SharedSoFar(a, b, t, x)
<1>0. /\ Len(a) \in Nat /\ Len(b) \in Nat /\ (\A k \in 1..Len(a) : a[k] \in Int)
      /\ \A k \in 1..Len(b) : b[k] \in Int
  BY LenProperties, ElementOfSeq
<1> DEFINE A == HowMany(SubSeq(a, 1, s.i - 1), {x})
           B == HowMany(SubSeq(b, 1, s.j - 1), {x})
           C == SharedTimes(s.rows, x)
           D == HowMany(SubSeq(a, 1, t.i - 1), {x})
           E == HowMany(SubSeq(b, 1, t.j - 1), {x})
           F == SharedTimes(t.rows, x)
           y == a[s.i]
<1>1. t = [i |-> s.i + 1, j |-> s.j, rows |-> Append(s.rows, CommLine(1, y))]
  BY DEF MergeState, CommLine
<1>2. t.i = s.i + 1 /\ t.j = s.j /\ t.rows = Append(s.rows, CommLine(1, y))
  <2> HIDE DEF y
  <2> QED BY ONLY <1>1
<1>3. s.i \in 1..Len(a) + 1 /\ s.j \in 1..Len(b) + 1 /\ s.rows \in Seq(CommRow)
  BY DEF MergeState
<1>4. y \in Int BY <1>0, <1>3
<1>5. D = A + (IF a[s.i] = x THEN 1 ELSE 0)
  <2>1. s.i \in 1..Len(a) /\ t.i - 1 = s.i
    <3>1. s.i \in 1..Len(a) BY <1>0, <1>3
    <3> QED BY ONLY <3>1, <1>2
  <2> DEFINE i == s.i
  <2>2. i \in 1..Len(a) /\ D = HowMany(SubSeq(a, 1, i), {x}) /\ A = HowMany(SubSeq(a, 1, i - 1), {x})
    BY <2>1
  <2> HIDE DEF i, A, B, D, E
  <2>3. OneMoreCounted(a, i, x)
    BY ONLY <2>2, a \in Seq(Int), BeginningCounts
  <2> QED BY <2>2, <2>3 DEF i, OneMoreCounted
<1>6. E = B BY <1>2
<1>7. F = C + (IF 1 = 3 /\ y = x THEN 1 ELSE 0)
  <2> DEFINE rows == s.rows
             c == 1
  <2>1. rows \in Seq(CommRow) /\ c \in 1..3 BY <1>3
  <2> HIDE DEF rows, c, y
  <2>2. SharedTimes(Append(rows, CommLine(c, y)), x) = SharedTimes(rows, x) + (IF c = 3 /\ y = x THEN 1 ELSE 0)
    BY ONLY <1>4, <2>1, SharedCounts
  <2> QED BY <1>2, <2>2 DEF rows, c
<1>8. /\ A \in Nat /\ B \in Nat /\ C = AtMost(A, B)
      /\ (\E k \in s.i..Len(a) : a[k] = x) => B <= A
      /\ (\E k \in s.j..Len(b) : b[k] = x) => A <= B
  BY DEF SharedSoFar
<1> HIDE DEF A, B, C, D, E, F
<1>9. a[s.i] = x => B <= A BY <1>0, <1>3, <1>8
<1>10. a[s.i] = x => ~\E k \in s.j..Len(b) : b[k] = x
  <2> SUFFICES ASSUME a[s.i] = x, NEW k \in s.j..Len(b), b[k] = x PROVE FALSE
    OBVIOUS
  <2>1. s.j \in 1..Len(b)
    <3>1. s.j \in 1..Len(b) + 1 /\ Len(b) \in Nat /\ k \in s.j..Len(b)
      BY <1>0, <1>3
    <3> QED BY ONLY <3>1
  <2>2. b[s.j] <= b[k]
    <3> DEFINE j == s.j
    <3>1. j \in 1..Len(b) /\ k \in j..Len(b) BY <2>1
    <3> HIDE DEF j
    <3>2. b[j] <= b[k]
      BY ONLY <3>1, b \in Seq(Int), Sorted(b), SortedRises
    <3> QED BY <3>2 DEF j
  <2>3. b[s.j] \in Int BY <2>1, <1>0
  <2> QED BY <2>1, <2>2, <2>3
<1>11. D \in Nat /\ E \in Nat /\ F = AtMost(D, E)
  BY <1>5, <1>6, <1>7, <1>8, <1>9 DEF AtMost
<1>12. (\E k \in t.i..Len(a) : a[k] = x) => E <= D
  <2> SUFFICES ASSUME NEW k \in t.i..Len(a), a[k] = x PROVE E <= D
    OBVIOUS
  <2>1. k \in s.i..Len(a) BY <1>0, <1>2, <1>3
  <2> QED BY <2>1, <1>5, <1>6, <1>8
<1>13. (\E k \in t.j..Len(b) : b[k] = x) => D <= E
  BY <1>2, <1>5, <1>6, <1>8, <1>10
<1> QED BY <1>11, <1>12, <1>13 DEF SharedSoFar, D, E, F

\* A line of the second file is not to come in the first.
LEMMA SharedSecond ==
    ASSUME NEW a \in Seq(Int), NEW b \in Seq(Int), Sorted(a), Sorted(b), NEW s, MergeState(a, b, s),
           s.j <= Len(b), s.i > Len(a) \/ a[s.i] > b[s.j], NEW x \in Int, SharedSoFar(a, b, s, x),
           NEW t, t = [s EXCEPT !.j = @ + 1, !.rows = Append(@, [col |-> 2, line |-> b[s.j]])]
    PROVE  SharedSoFar(a, b, t, x)
<1>0. /\ Len(a) \in Nat /\ Len(b) \in Nat /\ (\A k \in 1..Len(a) : a[k] \in Int)
      /\ \A k \in 1..Len(b) : b[k] \in Int
  BY LenProperties, ElementOfSeq
<1> DEFINE A == HowMany(SubSeq(a, 1, s.i - 1), {x})
           B == HowMany(SubSeq(b, 1, s.j - 1), {x})
           C == SharedTimes(s.rows, x)
           D == HowMany(SubSeq(a, 1, t.i - 1), {x})
           E == HowMany(SubSeq(b, 1, t.j - 1), {x})
           F == SharedTimes(t.rows, x)
           y == b[s.j]
<1>1. t = [i |-> s.i, j |-> s.j + 1, rows |-> Append(s.rows, CommLine(2, y))]
  BY DEF MergeState, CommLine
<1>2. t.i = s.i /\ t.j = s.j + 1 /\ t.rows = Append(s.rows, CommLine(2, y))
  <2> HIDE DEF y
  <2> QED BY ONLY <1>1
<1>3. s.i \in 1..Len(a) + 1 /\ s.j \in 1..Len(b) + 1 /\ s.rows \in Seq(CommRow)
  BY DEF MergeState
<1>4. y \in Int BY <1>0, <1>3
<1>5. D = A BY <1>2
<1>6. E = B + (IF b[s.j] = x THEN 1 ELSE 0)
  <2>1. s.j \in 1..Len(b) /\ t.j - 1 = s.j
    <3>1. s.j \in 1..Len(b) BY <1>0, <1>3
    <3> QED BY ONLY <3>1, <1>2
  <2> DEFINE i == s.j
  <2>2. i \in 1..Len(b) /\ E = HowMany(SubSeq(b, 1, i), {x}) /\ B = HowMany(SubSeq(b, 1, i - 1), {x})
    BY <2>1
  <2> HIDE DEF i, A, B, D, E
  <2>3. OneMoreCounted(b, i, x)
    BY ONLY <2>2, b \in Seq(Int), BeginningCounts
  <2> QED BY <2>2, <2>3 DEF i, OneMoreCounted
<1>7. F = C + (IF 2 = 3 /\ y = x THEN 1 ELSE 0)
  <2> DEFINE rows == s.rows
             c == 2
  <2>1. rows \in Seq(CommRow) /\ c \in 1..3 BY <1>3
  <2> HIDE DEF rows, c, y
  <2>2. SharedTimes(Append(rows, CommLine(c, y)), x) = SharedTimes(rows, x) + (IF c = 3 /\ y = x THEN 1 ELSE 0)
    BY ONLY <1>4, <2>1, SharedCounts
  <2> QED BY <1>2, <2>2 DEF rows, c
<1>8. /\ A \in Nat /\ B \in Nat /\ C = AtMost(A, B)
      /\ (\E k \in s.i..Len(a) : a[k] = x) => B <= A
      /\ (\E k \in s.j..Len(b) : b[k] = x) => A <= B
  BY DEF SharedSoFar
<1> HIDE DEF A, B, C, D, E, F
<1>9. b[s.j] = x => A <= B BY <1>0, <1>3, <1>8
<1>10. b[s.j] = x => ~\E k \in s.i..Len(a) : a[k] = x
  <2> SUFFICES ASSUME b[s.j] = x, NEW k \in s.i..Len(a), a[k] = x PROVE FALSE
    OBVIOUS
  <2>1. s.i \in 1..Len(a)
    <3>1. s.i \in 1..Len(a) + 1 /\ Len(a) \in Nat /\ k \in s.i..Len(a)
      BY <1>0, <1>3
    <3> QED BY ONLY <3>1
  <2>2. a[s.i] <= a[k]
    <3> DEFINE i == s.i
    <3>1. i \in 1..Len(a) /\ k \in i..Len(a) BY <2>1
    <3> HIDE DEF i
    <3>2. a[i] <= a[k]
      BY ONLY <3>1, a \in Seq(Int), Sorted(a), SortedRises
    <3> QED BY <3>2 DEF i
  <2>3. a[s.i] \in Int BY <2>1, <1>0
  <2> QED BY <2>1, <2>2, <2>3
<1>11. D \in Nat /\ E \in Nat /\ F = AtMost(D, E)
  BY <1>5, <1>6, <1>7, <1>8, <1>9 DEF AtMost
<1>12. (\E k \in t.j..Len(b) : b[k] = x) => D <= E
  <2> SUFFICES ASSUME NEW k \in t.j..Len(b), b[k] = x PROVE D <= E
    OBVIOUS
  <2>1. k \in s.j..Len(b)
    <3>1. s.j \in 1..Len(b) + 1 /\ Len(b) \in Nat /\ k \in s.j + 1..Len(b)
      BY <1>0, <1>2, <1>3
    <3> QED BY ONLY <3>1
  <2> QED BY <2>1, <1>5, <1>6, <1>8
<1>13. (\E k \in t.i..Len(a) : a[k] = x) => E <= D
  BY <1>2, <1>5, <1>6, <1>8, <1>10
<1> QED BY <1>11, <1>12, <1>13 DEF SharedSoFar, D, E, F

\* A line in both files is in column 3.
LEMMA SharedBoth ==
    ASSUME NEW a \in Seq(Int), NEW b \in Seq(Int), Sorted(a), Sorted(b), NEW s, MergeState(a, b, s),
           s.i <= Len(a), s.j <= Len(b), a[s.i] = b[s.j], NEW x \in Int, SharedSoFar(a, b, s, x),
           NEW t, t = [i |-> s.i + 1, j |-> s.j + 1, rows |-> Append(s.rows, [col |-> 3, line |-> a[s.i]])]
    PROVE  SharedSoFar(a, b, t, x)
<1>0. /\ Len(a) \in Nat /\ Len(b) \in Nat /\ (\A k \in 1..Len(a) : a[k] \in Int)
      /\ \A k \in 1..Len(b) : b[k] \in Int
  BY LenProperties, ElementOfSeq
<1> DEFINE A == HowMany(SubSeq(a, 1, s.i - 1), {x})
           B == HowMany(SubSeq(b, 1, s.j - 1), {x})
           C == SharedTimes(s.rows, x)
           D == HowMany(SubSeq(a, 1, t.i - 1), {x})
           E == HowMany(SubSeq(b, 1, t.j - 1), {x})
           F == SharedTimes(t.rows, x)
           y == a[s.i]
<1>1. t = [i |-> s.i + 1, j |-> s.j + 1, rows |-> Append(s.rows, CommLine(3, y))]
  BY DEF MergeState, CommLine
<1>2. t.i = s.i + 1 /\ t.j = s.j + 1 /\ t.rows = Append(s.rows, CommLine(3, y))
  <2> HIDE DEF y
  <2> QED BY ONLY <1>1
<1>3. s.i \in 1..Len(a) + 1 /\ s.j \in 1..Len(b) + 1 /\ s.rows \in Seq(CommRow)
  BY DEF MergeState
<1>4. y \in Int BY <1>0, <1>3
<1>5. D = A + (IF a[s.i] = x THEN 1 ELSE 0)
  <2>1. s.i \in 1..Len(a) /\ t.i - 1 = s.i
    <3>1. s.i \in 1..Len(a) BY <1>0, <1>3
    <3> QED BY ONLY <3>1, <1>2
  <2> DEFINE i == s.i
  <2>2. i \in 1..Len(a) /\ D = HowMany(SubSeq(a, 1, i), {x}) /\ A = HowMany(SubSeq(a, 1, i - 1), {x})
    BY <2>1
  <2> HIDE DEF i, A, B, D, E
  <2>3. OneMoreCounted(a, i, x)
    BY ONLY <2>2, a \in Seq(Int), BeginningCounts
  <2> QED BY <2>2, <2>3 DEF i, OneMoreCounted
<1>6. E = B + (IF b[s.j] = x THEN 1 ELSE 0)
  <2>1. s.j \in 1..Len(b) /\ t.j - 1 = s.j
    <3>1. s.j \in 1..Len(b) BY <1>0, <1>3
    <3> QED BY ONLY <3>1, <1>2
  <2> DEFINE i == s.j
  <2>2. i \in 1..Len(b) /\ E = HowMany(SubSeq(b, 1, i), {x}) /\ B = HowMany(SubSeq(b, 1, i - 1), {x})
    BY <2>1
  <2> HIDE DEF i, A, B, D, E
  <2>3. OneMoreCounted(b, i, x)
    BY ONLY <2>2, b \in Seq(Int), BeginningCounts
  <2> QED BY <2>2, <2>3 DEF i, OneMoreCounted
<1>7. F = C + (IF 3 = 3 /\ y = x THEN 1 ELSE 0)
  <2> DEFINE rows == s.rows
             c == 3
  <2>1. rows \in Seq(CommRow) /\ c \in 1..3 BY <1>3
  <2> HIDE DEF rows, c, y
  <2>2. SharedTimes(Append(rows, CommLine(c, y)), x) = SharedTimes(rows, x) + (IF c = 3 /\ y = x THEN 1 ELSE 0)
    BY ONLY <1>4, <2>1, SharedCounts
  <2> QED BY <1>2, <2>2 DEF rows, c
<1>8. /\ A \in Nat /\ B \in Nat /\ C = AtMost(A, B)
      /\ (\E k \in s.i..Len(a) : a[k] = x) => B <= A
      /\ (\E k \in s.j..Len(b) : b[k] = x) => A <= B
  BY DEF SharedSoFar
<1> HIDE DEF A, B, C, D, E, F
<1>9. a[s.i] = x => A = B
  <2>0. s.i \in s.i..Len(a) BY <1>0, <1>3
  <2>1. a[s.i] = x => B <= A BY <1>8, <2>0
  <2>2. b[s.j] = x => A <= B BY <1>0, <1>3, <1>8
  <2> QED BY <2>1, <2>2, <1>8
<1>11. D \in Nat /\ E \in Nat /\ F = AtMost(D, E)
  BY <1>5, <1>6, <1>7, <1>8, <1>9 DEF AtMost
<1>12. (\E k \in t.j..Len(b) : b[k] = x) => D <= E
  <2> SUFFICES ASSUME NEW k \in t.j..Len(b), b[k] = x PROVE D <= E
    OBVIOUS
  <2>1. k \in s.j..Len(b)
    <3>1. s.j \in 1..Len(b) + 1 /\ Len(b) \in Nat /\ k \in s.j + 1..Len(b)
      BY <1>0, <1>2, <1>3
    <3> QED BY ONLY <3>1
  <2> QED BY <2>1, <1>5, <1>6, <1>8
<1>13. (\E k \in t.i..Len(a) : a[k] = x) => E <= D
  <2> SUFFICES ASSUME NEW k \in t.i..Len(a), a[k] = x PROVE E <= D
    OBVIOUS
  <2>1. k \in s.i..Len(a) BY <1>0, <1>2, <1>3
  <2> QED BY <2>1, <1>5, <1>6, <1>8
<1> QED BY <1>11, <1>12, <1>13 DEF SharedSoFar, D, E, F

\* What holds after k turns of the merge.
MergeHolds(a, b, s, k) ==
    /\ MergeState(a, b, s)
    /\ s.i + s.j >= k + 2 \/ (s.i > Len(a) /\ s.j > Len(b))
    /\ Sorted(a) /\ Sorted(b) => \A x \in Int : SharedSoFar(a, b, s, x)

\* A turn keeps it.
LEMMA MergeTurnHolds ==
    ASSUME NEW a \in Seq(Int), NEW b \in Seq(Int), NEW s, NEW k \in Nat, MergeHolds(a, b, s, k)
    PROVE  MergeHolds(a, b, MergeTurn(a, b, s), k + 1)
<1> DEFINE t == MergeTurn(a, b, s)
           only1 == s.i <= Len(a) /\ (s.j > Len(b) \/ a[s.i] < b[s.j])
           only2 == s.j <= Len(b) /\ (s.i > Len(a) \/ a[s.i] > b[s.j])
<1>0. /\ Len(a) \in Nat /\ Len(b) \in Nat /\ (\A n \in 1..Len(a) : a[n] \in Int)
      /\ \A n \in 1..Len(b) : b[n] \in Int
  BY LenProperties, ElementOfSeq
<1>1. s.i \in 1..Len(a) + 1 /\ s.j \in 1..Len(b) + 1 /\ s = [i |-> s.i, j |-> s.j, rows |-> s.rows]
  BY DEF MergeHolds, MergeState
<1>2. MergeState(a, b, s) BY DEF MergeHolds
<1>3. CASE s.i > Len(a) /\ s.j > Len(b)
  <2>1. t = s BY <1>3 DEF MergeTurn
  <2> HIDE DEF t
  <2> QED BY <2>1, <1>3 DEF MergeHolds, t
<1>4. CASE ~(s.i > Len(a) /\ s.j > Len(b)) /\ only1
  <2>1. t = [s EXCEPT !.i = @ + 1, !.rows = Append(@, [col |-> 1, line |-> a[s.i]])]
    BY <1>4 DEF MergeTurn
  <2>2. s.i <= Len(a) BY <1>4
  <2> HIDE DEF t
  <2>3. MergeState(a, b, t) BY <1>2, <2>1, <2>2, MergeFirst
  <2>4. t.i = s.i + 1 /\ t.j = s.j BY <1>1, <2>1
  <2>5. ASSUME Sorted(a), Sorted(b), NEW x \in Int PROVE SharedSoFar(a, b, t, x)
    <3>1. SharedSoFar(a, b, s, x) /\ (s.j > Len(b) \/ a[s.i] < b[s.j])
      BY <1>4, <2>5 DEF MergeHolds
    <3> QED
      BY ONLY <1>2, <2>1, <2>2, <2>5, <3>1, a \in Seq(Int), b \in Seq(Int), SharedFirst
  <2>6. t.i + t.j >= k + 1 + 2
    <3>1. s.i + s.j >= k + 2 BY <1>4 DEF MergeHolds
    <3> QED BY ONLY <1>0, <1>1, <2>4, <3>1, k \in Nat
  <2> QED BY <2>3, <2>5, <2>6 DEF MergeHolds, t
<1>5. CASE ~(s.i > Len(a) /\ s.j > Len(b)) /\ ~only1 /\ only2
  <2>1. t = [s EXCEPT !.j = @ + 1, !.rows = Append(@, [col |-> 2, line |-> b[s.j]])]
    BY <1>5 DEF MergeTurn
  <2>2. s.j <= Len(b) BY <1>5
  <2> HIDE DEF t
  <2>3. MergeState(a, b, t) BY <1>2, <2>1, <2>2, MergeSecond
  <2>4. t.i = s.i /\ t.j = s.j + 1 BY <1>1, <2>1
  <2>5. ASSUME Sorted(a), Sorted(b), NEW x \in Int PROVE SharedSoFar(a, b, t, x)
    <3>1. SharedSoFar(a, b, s, x) /\ (s.i > Len(a) \/ a[s.i] > b[s.j])
      BY <1>5, <2>5 DEF MergeHolds
    <3> QED
      BY ONLY <1>2, <2>1, <2>2, <2>5, <3>1, a \in Seq(Int), b \in Seq(Int), SharedSecond
  <2>6. t.i + t.j >= k + 1 + 2
    <3>1. s.i + s.j >= k + 2 BY <1>5 DEF MergeHolds
    <3> QED BY ONLY <1>0, <1>1, <2>4, <3>1, k \in Nat
  <2> QED BY <2>3, <2>5, <2>6 DEF MergeHolds, t
<1>6. CASE ~(s.i > Len(a) /\ s.j > Len(b)) /\ ~only1 /\ ~only2
  <2>1. t = [i |-> s.i + 1, j |-> s.j + 1, rows |-> Append(s.rows, [col |-> 3, line |-> a[s.i]])]
    BY <1>6 DEF MergeTurn
  <2>2. s.i <= Len(a) /\ s.j <= Len(b) /\ a[s.i] = b[s.j]
    <3>1. s.i \in 1..Len(a) BY <1>0, <1>1, <1>6
    <3>2. s.j \in 1..Len(b) BY <1>0, <1>1, <1>6
    <3>3. a[s.i] \in Int /\ b[s.j] \in Int BY <1>0, <3>1, <3>2
    <3>4. s.i <= Len(a) /\ s.j <= Len(b) BY ONLY <1>0, <3>1, <3>2
    <3>5. ~(a[s.i] < b[s.j]) /\ ~(a[s.i] > b[s.j]) BY <1>6, <3>4
    <3> QED BY ONLY <3>3, <3>4, <3>5
  <2> HIDE DEF t
  <2>3. MergeState(a, b, t) BY <1>2, <2>1, <2>2, MergeBoth
  <2>4. t.i = s.i + 1 /\ t.j = s.j + 1 BY <2>1
  <2>5. ASSUME Sorted(a), Sorted(b), NEW x \in Int PROVE SharedSoFar(a, b, t, x)
    <3>1. SharedSoFar(a, b, s, x) BY <2>5 DEF MergeHolds
    <3> QED
      BY ONLY <1>2, <2>1, <2>2, <2>5, <3>1, a \in Seq(Int), b \in Seq(Int), SharedBoth
  <2>6. t.i + t.j >= k + 1 + 2
    <3>1. s.i + s.j >= k + 2 BY <1>6 DEF MergeHolds
    <3> QED BY ONLY <1>0, <1>1, <2>4, <3>1, k \in Nat
  <2> QED BY <2>3, <2>5, <2>6 DEF MergeHolds, t
<1> QED BY <1>3, <1>4, <1>5, <1>6

\* Before the first turn it holds.
LEMMA MergeBegins ==
    ASSUME NEW a \in Seq(Int), NEW b \in Seq(Int)
    PROVE  MergeHolds(a, b, [i |-> 1, j |-> 1, rows |-> <<>>], 0)
<1> DEFINE s == [i |-> 1, j |-> 1, rows |-> <<>>]
           e == <<>>
<1>1. s.i = 1 /\ s.j = 1 /\ s.rows = e /\ s = [i |-> s.i, j |-> s.j, rows |-> s.rows]
  OBVIOUS
<1>2. Len(a) \in Nat /\ Len(b) \in Nat BY LenProperties
<1>3. e \in Seq(CommRow) /\ Len(e) = 0 /\ e \in Seq(Int) BY EmptySeq
<1>4. \A cols : ColumnLines(e, cols) = e
  <2> TAKE cols
  <2>1. OfColumns(e, cols) = e BY ThoseEmpty DEF OfColumns
  <2>2. Len(ColumnLines(e, cols)) = Len(OfColumns(e, cols)) /\ ColumnLines(e, cols) \in Seq(Int)
    <3> HIDE DEF e
    <3> QED BY <1>3, ColumnLinesAre
  <2> QED BY <2>1, <2>2, <1>3, EmptySeq
<1>5. SubSeq(a, 1, 0) = e /\ SubSeq(b, 1, 0) = e BY Beginnings
<1>6. \A x : HowMany(e, {x}) = 0
  <2> TAKE x
  <2>1. In(e, {x}) = e BY ThoseEmpty DEF In
  <2> QED BY <2>1, <1>3 DEF HowMany
<1> HIDE DEF e, s
<1>7. MergeState(a, b, s)
  <2>1. s.i - 1 = 0 /\ s.j - 1 = 0 BY <1>1
  <2>2. s.i \in 1..Len(a) + 1 /\ s.j \in 1..Len(b) + 1 BY <1>1, <1>2
  <2>3. s.rows \in Seq(CommRow) BY <1>1, <1>3
  <2>4. ColumnLines(s.rows, {1, 3}) = SubSeq(a, 1, s.i - 1)
    BY <1>1, <1>4, <1>5, <2>1
  <2>5. ColumnLines(s.rows, {2, 3}) = SubSeq(b, 1, s.j - 1)
    BY <1>1, <1>4, <1>5, <2>1
  <2> QED BY <1>1, <2>2, <2>3, <2>4, <2>5 DEF MergeState
<1>8. \A x \in Int : SharedSoFar(a, b, s, x)
  <2> TAKE x \in Int
  <2>1. s.i - 1 = 0 /\ s.j - 1 = 0 BY <1>1
  <2>2. HowMany(SubSeq(a, 1, s.i - 1), {x}) = 0 /\ HowMany(SubSeq(b, 1, s.j - 1), {x}) = 0
    BY <1>5, <1>6, <2>1
  <2>3. SharedTimes(s.rows, x) = 0 BY <1>1, <1>4, <1>6 DEF SharedTimes
  <2>4. AtMost(0, 0) = 0 BY DEF AtMost
  <2> QED BY <2>2, <2>3, <2>4 DEF SharedSoFar
<1>9. s.i + s.j >= 0 + 2 BY <1>1
<1> QED BY <1>7, <1>8, <1>9 DEF MergeHolds, s

\* The columns hold what both files do.
LEMMA CommColumnsRight ==
    ASSUME NEW a \in Seq(Int), NEW b \in Seq(Int)
    PROVE  /\ commColumns(a, b) \in Seq(CommRow)
           /\ ColumnLines(commColumns(a, b), {1, 3}) = a
           /\ ColumnLines(commColumns(a, b), {2, 3}) = b
           /\ Sorted(a) /\ Sorted(b) =>
                \A x \in Int : SharedTimes(commColumns(a, b), x) = AtMost(HowMany(a, {x}), HowMany(b, {x}))
<1> DEFINE n == Len(a) + Len(b)
<1>1. Len(a) \in Nat /\ Len(b) \in Nat /\ n \in Nat BY LenProperties
<1>2. PICK h : /\ h = [k \in 0..n |-> IF k = 0 THEN [i |-> 1, j |-> 1, rows |-> <<>>] ELSE MergeTurn(a, b, h[k - 1])]
               /\ commColumns(a, b) = h[n].rows
  BY <1>1, CommColumnsIs
<1> DEFINE T == {k \in Nat : k <= n => MergeHolds(a, b, h[k], k)}
<1>3. 0 \in T
  <2>1. h[0] = [i |-> 1, j |-> 1, rows |-> <<>>] BY <1>1, <1>2
  <2>2. MergeHolds(a, b, [i |-> 1, j |-> 1, rows |-> <<>>], 0)
    BY MergeBegins
  <2> QED BY <2>1, <2>2
<1>4. ASSUME NEW k \in Nat, k \in T PROVE k + 1 \in T
  <2> SUFFICES ASSUME k + 1 <= n PROVE MergeHolds(a, b, h[k + 1], k + 1)
    OBVIOUS
  <2>1. MergeHolds(a, b, h[k], k) BY <1>1, <1>4
  <2>2. h[k + 1] = MergeTurn(a, b, h[k])
    <3>1. k + 1 \in 0..n /\ k + 1 # 0 /\ (k + 1) - 1 = k BY <1>1
    <3> HIDE DEF n
    <3> QED BY <1>2, <3>1
  <2> DEFINE s == h[k]
  <2>3. MergeHolds(a, b, s, k) /\ k \in Nat BY <2>1
  <2> HIDE DEF s
  <2>4. MergeHolds(a, b, MergeTurn(a, b, s), k + 1)
    BY ONLY <2>3, a \in Seq(Int), b \in Seq(Int), MergeTurnHolds
  <2> QED BY <2>2, <2>4 DEF s
<1>5. Nat \subseteq T
  <2> HIDE DEF T
  <2> QED BY <1>3, <1>4, SetInduction
<1> DEFINE s == h[n]
<1>6. MergeHolds(a, b, s, n)
  <2>1. n \in T /\ n <= n BY <1>1, <1>5
  <2> QED BY <2>1
<1> HIDE DEF s
<1>7. s.i \in 1..Len(a) + 1 /\ s.j \in 1..Len(b) + 1 /\ MergeState(a, b, s)
  BY <1>6 DEF MergeHolds, MergeState
<1>8. s.i = Len(a) + 1 /\ s.j = Len(b) + 1
  <2>1. s.i + s.j >= n + 2 \/ (s.i > Len(a) /\ s.j > Len(b))
    BY <1>6 DEF MergeHolds
  <2>2. Len(a) \in Nat /\ Len(b) \in Nat /\ n = Len(a) + Len(b) BY <1>1
  <2>3. s.i \in 1..Len(a) + 1 /\ s.j \in 1..Len(b) + 1 BY <1>7
  <2> HIDE DEF n
  <2> DEFINE i == s.i
             j == s.j
             p == Len(a)
             q == Len(b)
  <2>4. i + j >= p + q + 2 \/ (i > p /\ j > q) BY <2>1, <2>2
  <2>5. i \in 1..p + 1 /\ j \in 1..q + 1 /\ p \in Nat /\ q \in Nat
    BY <2>2, <2>3
  <2> HIDE DEF i, j, p, q
  <2>6. i = p + 1 /\ j = q + 1 BY ONLY <2>4, <2>5
  <2> QED BY <2>6 DEF i, j, p, q
<1>9. s.i - 1 = Len(a) /\ s.j - 1 = Len(b) BY <1>1, <1>8
<1>10. SubSeq(a, 1, Len(a)) = a /\ SubSeq(b, 1, Len(b)) = b
  BY Beginnings
<1>11. commColumns(a, b) = s.rows BY <1>2 DEF s
<1>12. Sorted(a) /\ Sorted(b) =>
                \A x \in Int : SharedTimes(s.rows, x) = AtMost(HowMany(a, {x}), HowMany(b, {x}))
  <2> SUFFICES ASSUME Sorted(a), Sorted(b), NEW x \in Int
               PROVE  SharedTimes(s.rows, x) = AtMost(HowMany(a, {x}), HowMany(b, {x}))
    OBVIOUS
  <2>1. SharedSoFar(a, b, s, x) BY <1>6 DEF MergeHolds
  <2> QED BY <2>1, <1>9, <1>10 DEF SharedSoFar
<1> QED BY <1>7, <1>9, <1>10, <1>11, <1>12 DEF MergeState

\* What the property says of a run of comm.
CommRight(cfg, a, b, o) ==
    LET all == commColumns(a, b)
        col(set) == LET s == OfColumns(all, set) IN [k \in DOMAIN s |-> s[k].line]
        least(x) == AtMost(Mentions(a, x), Mentions(b, x))
    IN  o.status = 0 =>
          /\ col({1, 3}) = a /\ col({2, 3}) = b
          /\ Len(o.out) = Cardinality({k \in DOMAIN all : all[k].col \notin cfg.hide})
          /\ (Sorted(a) /\ Sorted(b)) =>
               \A x \in ToSet(a) : Mentions(col({3}), x) = least(x)
          /\ (cfg.checkOrder => Sorted(a) /\ Sorted(b))

\* Mentions counts as HowMany does.
LEMMA MentionsIs ==
    ASSUME NEW S, NEW s \in Seq(S), NEW x
    PROVE  Mentions(s, x) = HowMany(s, {x})
<1> DEFINE A == {x}
<1>1. {k \in DOMAIN s : s[k] = x} = {k \in DOMAIN s : s[k] \in A}
  OBVIOUS
<1> HIDE DEF A
<1>2. HowMany(s, A) = Cardinality({k \in DOMAIN s : s[k] \in A})
  BY HowManyIs
<1> QED BY <1>1, <1>2 DEF A, Mentions

\* comm loses and invents no line.
LEMMA CommHolds ==
    ASSUME NEW cfg, cfg.hide \subseteq 1..3, cfg.checkOrder \in BOOLEAN, NEW a \in Seq(Int), NEW b \in Seq(Int)
    PROVE  CommRight(cfg, a, b, comm(cfg, a, b))
<1> DEFINE o == comm(cfg, a, b)
           all == commColumns(a, b)
<1> SUFFICES ASSUME o.status = 0
             PROVE  /\ ColumnLines(all, {1, 3}) = a /\ ColumnLines(all, {2, 3}) = b
                    /\ Len(o.out) = Cardinality({k \in DOMAIN all : all[k].col \notin cfg.hide})
                    /\ (Sorted(a) /\ Sorted(b)) =>
                         \A x \in ToSet(a) : Mentions(ColumnLines(all, {3}), x) = AtMost(Mentions(a, x), Mentions(b, x))
                    /\ (cfg.checkOrder => Sorted(a) /\ Sorted(b))
  BY DEF CommRight, ColumnLines
<1>1. /\ all \in Seq(CommRow) /\ ColumnLines(all, {1, 3}) = a /\ ColumnLines(all, {2, 3}) = b
      /\ Sorted(a) /\ Sorted(b) =>
           \A x \in Int : SharedTimes(all, x) = AtMost(HowMany(a, {x}), HowMany(b, {x}))
  BY CommColumnsRight
<1>2. ~(cfg.checkOrder /\ ~(Sorted(a) /\ Sorted(b)))
  BY DEF comm, check_sorted
<1> DEFINE shown == OfColumns(all, 1..3 \ cfg.hide)
<1>3. o.out = [i \in DOMAIN shown |->
                 [indent |-> column_prefix(cfg.hide, shown[i].col), line |-> shown[i].line]]
  BY <1>2 DEF comm, check_sorted
<1> HIDE DEF o, all
<1>4. Len(o.out) = Len(shown)
  <2>1. shown \in Seq(CommRow) BY <1>1, OfColumnsIn
  <2>2. DOMAIN shown = 1..Len(shown) /\ Len(shown) \in Nat
    BY <2>1, LenProperties
  <2> DEFINE f == [i \in 1..Len(shown) |-> [indent |-> column_prefix(cfg.hide, shown[i].col), line |-> shown[i].line]]
             R == {f[i] : i \in 1..Len(shown)}
  <2>3. o.out = f BY <1>3, <2>2
  <2>4. f = [i \in 1..Len(shown) |-> f[i]] /\ \A i \in 1..Len(shown) : f[i] \in R
    OBVIOUS
  <2> HIDE DEF f, R, shown
  <2>5. Len(f) = Len(shown) BY ONLY <2>2, <2>4, SeqOfFunction
  <2> QED BY <2>3, <2>5
<1>5. Len(shown) = Cardinality({k \in DOMAIN all : all[k].col \notin cfg.hide})
  <2> DEFINE keep == {k \in DOMAIN all : all[k].col \in 1..3 \ cfg.hide}
  <2>1. keep \subseteq 1..Len(all) BY <1>1
  <2>2. keep = {k \in DOMAIN all : all[k].col \notin cfg.hide}
    <3>1. \A k \in DOMAIN all : all[k].col \in 1..3
      <4> TAKE k \in DOMAIN all
      <4>1. all[k] \in CommRow BY <1>1, ElementOfSeq, LenProperties
      <4> QED BY <4>1 DEF CommRow
    <3> QED BY <3>1
  <2>3. shown = Those(all, keep) BY DEF OfColumns
  <2> HIDE DEF keep, shown
  <2>4. Len(Those(all, keep)) = Cardinality(keep)
    BY <1>1, <2>1, ThoseLength
  <2> QED BY <2>2, <2>3, <2>4
<1>6. ASSUME Sorted(a), Sorted(b), NEW x \in ToSet(a)
      PROVE  Mentions(ColumnLines(all, {3}), x) = AtMost(Mentions(a, x), Mentions(b, x))
  <2>1. x \in Int BY <1>6, ElementOfSeq, LenProperties DEF ToSet
  <2>2. ColumnLines(all, {3}) \in Seq(Int) BY <1>1, ColumnLinesAre
  <2>3. Mentions(ColumnLines(all, {3}), x) = SharedTimes(all, x)
    BY <2>2, MentionsIs DEF SharedTimes
  <2>4. Mentions(a, x) = HowMany(a, {x}) /\ Mentions(b, x) = HowMany(b, {x})
    BY MentionsIs
  <2> QED BY <1>1, <1>6, <2>1, <2>3, <2>4
<1> QED BY <1>1, <1>2, <1>4, <1>5, <1>6

\* The turns of uniq over the runs.
LEMMA UniqTurnsAre ==
    ASSUME NEW cfg, NEW records, Len(records) \in Nat
    PROVE  \E h : h = [k \in 0..Len(records) |-> IF k = 0 THEN [i |-> 1, emitted |-> <<>>] ELSE UniqTurn(cfg, records, h[k - 1])] /\ uniq(cfg, records) = h[Len(records)].emitted
<1> DEFINE v == [i |-> 1, emitted |-> <<>>]
           G(s, k) == UniqTurn(cfg, records, s)
           T == {m \in Nat : \E h : h = [k \in 0..m |-> IF k = 0 THEN v ELSE G(h[k - 1], k)]}
<1> HIDE DEF v, G
<1>1. 0 \in T
  <2> DEFINE h == [k \in 0..0 |-> v]
  <2>1. h = [k \in 0..0 |-> IF k = 0 THEN v ELSE G(h[k - 1], k)] OBVIOUS
  <2> HIDE DEF h
  <2> QED BY <2>1
<1>2. ASSUME NEW m \in Nat, m \in T PROVE m + 1 \in T
  <2>1. PICK h : h = [k \in 0..m |-> IF k = 0 THEN v ELSE G(h[k - 1], k)]
    BY <1>2
  <2> DEFINE g == [k \in 0..m + 1 |-> IF k \in 0..m THEN h[k] ELSE G(h[m], k)]
  <2>2. ASSUME NEW k \in 0..m + 1 PROVE g[k] = IF k = 0 THEN v ELSE G(g[k - 1], k)
    <3>1. CASE k = 0 BY <2>1, <3>1
    <3>2. CASE k \in 1..m
      <4>1. k \in 0..m /\ k - 1 \in 0..m /\ k # 0 /\ k - 1 \in 0..m + 1
        BY <3>2
      <4>2. g[k] = h[k] /\ g[k - 1] = h[k - 1] BY <4>1
      <4> HIDE DEF g
      <4> QED BY <2>1, <4>1, <4>2
    <3>3. CASE k = m + 1
      <4>1. k \notin 0..m /\ k - 1 = m /\ m \in 0..m /\ k # 0 /\ m \in 0..m + 1
        BY <3>3
      <4>2. g[k] = G(h[m], k) /\ g[m] = h[m] BY <4>1
      <4> HIDE DEF g
      <4> QED BY <4>1, <4>2
    <3> QED BY <3>1, <3>2, <3>3
  <2>3. g = [k \in 0..m + 1 |-> IF k = 0 THEN v ELSE G(g[k - 1], k)]
    <3>1. g = [k \in 0..m + 1 |-> g[k]] OBVIOUS
    <3> HIDE DEF g
    <3> QED BY <2>2, <3>1
  <2> HIDE DEF g
  <2> QED BY <2>3
<1>3. Nat \subseteq T
  <2> HIDE DEF T
  <2> QED BY <1>1, <1>2, SetInduction
<1>4. \E h : h = [k \in 0..Len(records) |-> IF k = 0 THEN v ELSE G(h[k - 1], k)]
  BY <1>3
<1> DEFINE C == CHOOSE h : h = [k \in 0..Len(records) |-> IF k = 0 THEN [i |-> 1, emitted |-> <<>>] ELSE UniqTurn(cfg, records, h[k - 1])]
<1>5. C = [k \in 0..Len(records) |-> IF k = 0 THEN [i |-> 1, emitted |-> <<>>] ELSE UniqTurn(cfg, records, C[k - 1])]
  BY <1>4 DEF v, G
<1>6. uniq(cfg, records) = C[Len(records)].emitted BY DEF uniq
<1> HIDE DEF C
<1> QED BY <1>5, <1>6

\* A record begins a run, or ends one.
RunBegins(records, i) == i = 1 \/ comparison_key(records[i]) # comparison_key(records[i - 1])
RunCloses(records, i) == i = Len(records) \/ comparison_key(records[i + 1]) # comparison_key(records[i])

\* A run ends before the next record with another key.
LEMMA RunEndIs ==
    ASSUME NEW S, NEW records \in Seq(S), NEW i \in 1..Len(records)
    PROVE  /\ runEnd(records, i) \in i + 1..Len(records) + 1
           /\ \A k \in i..runEnd(records, i) - 1 : comparison_key(records[k]) = comparison_key(records[i])
           /\ runEnd(records, i) <= Len(records) =>
                comparison_key(records[runEnd(records, i)]) # comparison_key(records[i])
<1> DEFINE n == Len(records)
           K(k) == comparison_key(records[k])
           T == {j \in i + 1..n + 1 : j <= n => K(j) # K(i)}
<1>0. n \in Nat /\ i \in Nat BY LenProperties
<1> HIDE DEF n, K
<1>1. n + 1 \in T /\ T \subseteq Nat /\ i <= n BY <1>0 DEF n
<1>2. PICK j \in T : \A m \in T : j <= m
  <2>1. T # {} /\ T \subseteq Nat BY <1>1
  <2> HIDE DEF T
  <2> QED BY <2>1, LeastNat
<1>3. j \in i + 1..n + 1 /\ (j <= n => K(j) # K(i)) OBVIOUS
<1>4. \A k \in i..j - 1 : K(k) = K(i)
  <2> TAKE k \in i..j - 1
  <2>1. CASE k = i BY <2>1
  <2>2. CASE k # i
    <3>1. k \in i + 1..n + 1 /\ k < j /\ k <= n BY <1>0, <1>3, <2>2
    <3>2. k \notin T BY <1>2, <3>1
    <3> QED BY <3>1, <3>2
  <2> QED BY <2>1, <2>2
<1> DEFINE E(m) == /\ \A k \in i..m - 1 : K(k) = K(i)
                   /\ m <= n => K(m) # K(i)
<1>5. runEnd(records, i) = CHOOSE m \in i + 1..n + 1 : E(m)
  BY DEF runEnd, n, K
<1>6. \E m \in i + 1..n + 1 : E(m) BY <1>3, <1>4
<1> DEFINE e == runEnd(records, i)
<1>7. e \in i + 1..n + 1 /\ E(e)
  <2> HIDE DEF E
  <2> QED BY <1>5, <1>6
<1> QED BY <1>7 DEF n, K

\* Of a run only its first record begins one and only its last ends one.
LEMMA RunIs ==
    ASSUME NEW S, NEW records \in Seq(S), NEW i \in 1..Len(records), RunBegins(records, i)
    PROVE  LET j == runEnd(records, i)
           IN  /\ j \in i + 1..Len(records) + 1
               /\ \A k \in i..j - 1 : RunBegins(records, k) <=> k = i
               /\ \A k \in i..j - 1 : RunCloses(records, k) <=> k = j - 1
               /\ j <= Len(records) => RunBegins(records, j)
<1> DEFINE j == runEnd(records, i)
           n == Len(records)
           K(k) == comparison_key(records[k])
<1>0. n \in Nat BY LenProperties
<1>1. j \in i + 1..n + 1 /\ (\A k \in i..j - 1 : K(k) = K(i)) /\ (j <= n => K(j) # K(i))
  BY RunEndIs
<1> HIDE DEF j
<1>2. ASSUME NEW k \in i..j - 1 PROVE RunBegins(records, k) <=> k = i
  <2>1. CASE k = i BY <2>1
  <2>2. CASE k # i
    <3>1. k - 1 \in i..j - 1 /\ k # 1 BY <1>0, <1>1, <2>2
    <3>2. K(k) = K(i) /\ K(k - 1) = K(i) BY <1>1, <3>1
    <3> QED BY <2>2, <3>1, <3>2 DEF RunBegins
  <2> QED BY <2>1, <2>2
<1>3. ASSUME NEW k \in i..j - 1 PROVE RunCloses(records, k) <=> k = j - 1
  <2>1. CASE k = j - 1
    <3>1. k + 1 = j /\ k \in i..j - 1 /\ j - 1 \in i..j - 1 /\ (j <= n \/ k = n)
      BY <1>0, <1>1, <2>1
    <3>2. K(k) = K(i) BY <1>1, <3>1
    <3> QED BY <2>1, <3>1, <3>2, <1>1 DEF RunCloses
  <2>2. CASE k # j - 1
    <3>1. k + 1 \in i..j - 1 /\ k # n BY <1>0, <1>1, <2>2
    <3>2. K(k) = K(i) /\ K(k + 1) = K(i) BY <1>1, <3>1
    <3> QED BY <2>2, <3>1, <3>2 DEF RunCloses
  <2> QED BY <2>1, <2>2
<1>4. ASSUME j <= n PROVE RunBegins(records, j)
  <2>1. j - 1 \in i..j - 1 BY <1>0, <1>1
  <2>2. K(j - 1) = K(i) /\ K(j) # K(i) BY <1>1, <1>4, <2>1
  <2> QED BY <2>2 DEF RunBegins
<1> QED BY <1>1, <1>2, <1>3, <1>4 DEF j

\* Of each run what is printed are the positions in keep.
KeepsOfRuns(cfg, records, keep) ==
    \A i \in 1..Len(records) :
      RunBegins(records, i) =>
        LET j == runEnd(records, i)
        IN  (IF should_emit(cfg, j - i) THEN uniqGroup(cfg, records, i, j) ELSE <<>>)
              = Those(records, keep \cap (i..j - 1))

\* Where uniq stands after some turns.
UniqState(records, keep, s, k) ==
    /\ s = [i |-> s.i, emitted |-> s.emitted]
    /\ s.i \in 1..Len(records) + 1
    /\ s.i <= Len(records) => RunBegins(records, s.i) /\ s.i > k
    /\ s.emitted = Those(records, keep \cap (1..s.i - 1))

\* A turn prints what is kept of one run.
LEMMA UniqTurnKeeps ==
    ASSUME NEW S, NEW records \in Seq(S), NEW cfg, NEW keep, keep \subseteq 1..Len(records),
           KeepsOfRuns(cfg, records, keep), NEW s, NEW k \in Nat, UniqState(records, keep, s, k)
    PROVE  UniqState(records, keep, UniqTurn(cfg, records, s), k + 1)
<1> DEFINE n == Len(records)
           t == UniqTurn(cfg, records, s)
           i == s.i
           j == runEnd(records, i)
<1>0. n \in Nat /\ i \in 1..n + 1 /\ (i <= n => RunBegins(records, i) /\ i > k)
      /\ s.emitted = Those(records, keep \cap (1..i - 1))
  BY LenProperties DEF UniqState
<1>1. CASE i > n
  <2>1. t = s BY <1>1 DEF UniqTurn
  <2>2. ~(s.i <= n) BY <1>0, <1>1
  <2> HIDE DEF t
  <2> QED BY <2>1, <2>2 DEF UniqState, t
<1>2. CASE ~(i > n)
  <2> DEFINE g == IF should_emit(cfg, j - i) THEN uniqGroup(cfg, records, i, j) ELSE <<>>
             e == s.emitted
             A == keep \cap (1..i - 1)
             B == keep \cap (i..j - 1)
  <2>1. i \in 1..n /\ RunBegins(records, i) BY <1>0, <1>2
  <2>2. j \in i + 1..n + 1 /\ (j <= n => RunBegins(records, j))
    <3> HIDE DEF i
    <3> QED BY <2>1, RunIs
  <2>3. g = Those(records, B)
    <3> HIDE DEF i
    <3> QED BY <2>1 DEF KeepsOfRuns
  <2>4. e = Those(records, A) BY <1>0
  <2>5. Those(records, A \cup B) = Those(records, A) \o Those(records, B)
    <3>1. A \in SUBSET Int /\ B \in SUBSET Int /\ \A x \in A, y \in B : x < y
      BY <1>0, <2>2
    <3> HIDE DEF A, B
    <3> QED BY <3>1, ThoseConcat
  <2>6. A \cup B = keep \cap (1..j - 1) BY <1>0, <2>1, <2>2
  <2>7. t = [i |-> j, emitted |-> IF should_emit(cfg, j - i) THEN e \o uniqGroup(cfg, records, i, j) ELSE e]
    BY <1>2 DEF UniqTurn
  <2>8. Those(records, A) \in Seq(S)
    <3> HIDE DEF A
    <3> QED BY ThoseType
  <2> HIDE DEF e, A, B, j
  <2>9. (IF should_emit(cfg, j - i) THEN e \o uniqGroup(cfg, records, i, j) ELSE e) = Those(records, keep \cap (1..j - 1))
    <3>1. CASE should_emit(cfg, j - i) BY <3>1, <2>3, <2>4, <2>5, <2>6
    <3>2. CASE ~should_emit(cfg, j - i)
      <4>1. g = <<>> BY <3>2
      <4>2. e \o <<>> = e BY <2>4, <2>8, ConcatEmptySeq
      <4> QED BY <3>2, <4>1, <4>2, <2>3, <2>4, <2>5, <2>6
    <3> QED BY <3>1, <3>2
  <2>10. t.i = j /\ t.emitted = Those(records, keep \cap (1..j - 1)) /\ t = [i |-> t.i, emitted |-> t.emitted]
    BY <2>7, <2>9
  <2>11. j > k + 1 BY <1>0, <2>1, <2>2
  <2>12. j \in 1..n + 1 BY <1>0, <2>1, <2>2
  <2> HIDE DEF t, i, g
  <2> QED BY ONLY <2>2, <2>10, <2>11, <2>12 DEF UniqState, t
<1> QED BY <1>1, <1>2

\* So does uniq of all of them.
LEMMA UniqIs ==
    ASSUME NEW S, NEW records \in Seq(S), NEW cfg, NEW keep, keep \subseteq 1..Len(records),
           KeepsOfRuns(cfg, records, keep)
    PROVE  uniq(cfg, records) = Those(records, keep)
<1> DEFINE n == Len(records)
<1>1. n \in Nat BY LenProperties
<1>2. PICK h : /\ h = [k \in 0..n |-> IF k = 0 THEN [i |-> 1, emitted |-> <<>>] ELSE UniqTurn(cfg, records, h[k - 1])]
               /\ uniq(cfg, records) = h[n].emitted
  BY <1>1, UniqTurnsAre
<1> DEFINE T == {k \in Nat : k <= n => UniqState(records, keep, h[k], k)}
<1>3. 0 \in T
  <2> DEFINE s == h[0]
  <2>1. s = [i |-> 1, emitted |-> <<>>] BY <1>1, <1>2
  <2> HIDE DEF s
  <2>2. s.i = 1 /\ s.emitted = <<>> /\ s = [i |-> s.i, emitted |-> s.emitted]
    BY <2>1
  <2>3. keep \cap (1..s.i - 1) = {} BY <2>2
  <2>4. Those(records, {}) = <<>> BY ThoseNone
  <2>5. s.i \in 1..n + 1 /\ RunBegins(records, s.i) /\ s.i > 0
    BY <1>1, <2>2 DEF RunBegins
  <2>6. UniqState(records, keep, s, 0)
    BY <2>2, <2>3, <2>4, <2>5 DEF UniqState
  <2> QED BY <2>6 DEF s
<1>4. ASSUME NEW k \in Nat, k \in T PROVE k + 1 \in T
  <2> SUFFICES ASSUME k + 1 <= n PROVE UniqState(records, keep, h[k + 1], k + 1)
    OBVIOUS
  <2> DEFINE s == h[k]
  <2>1. UniqState(records, keep, s, k) /\ k \in Nat BY <1>1, <1>4
  <2>2. h[k + 1] = UniqTurn(cfg, records, h[k])
    <3>1. k + 1 \in 0..n /\ k + 1 # 0 /\ (k + 1) - 1 = k BY <1>1
    <3> HIDE DEF n
    <3> QED BY <1>2, <3>1
  <2> HIDE DEF s
  <2>3. UniqState(records, keep, UniqTurn(cfg, records, s), k + 1)
    BY <2>1, UniqTurnKeeps
  <2> QED BY <2>2, <2>3 DEF s
<1>5. Nat \subseteq T
  <2> HIDE DEF T
  <2> QED BY <1>3, <1>4, SetInduction
<1> DEFINE s == h[n]
<1>6. UniqState(records, keep, s, n)
  <2>1. n \in T /\ n <= n BY <1>1, <1>5
  <2> QED BY <2>1
<1> HIDE DEF s
<1>7. s.i = n + 1 /\ s.emitted = Those(records, keep \cap (1..s.i - 1))
  <2>1. s.i \in 1..n + 1 /\ (s.i <= n => s.i > n) /\ s.emitted = Those(records, keep \cap (1..s.i - 1))
    BY <1>6 DEF UniqState
  <2> QED BY <1>1, <2>1
<1>8. keep \cap (1..s.i - 1) = keep
  <2>1. s.i - 1 = n BY <1>1, <1>7
  <2> QED BY <2>1
<1> QED BY <1>2, <1>7, <1>8 DEF s

\* The options of plain uniq.
UniqPlain == [repeated |-> FALSE, allRepeated |-> FALSE, unique |-> FALSE,
              groupAll |-> FALSE, method |-> "none"]

\* The records that begin a run, are one, or are in a longer one.
Firsts(records) == {k \in 1..Len(records) : RunBegins(records, k)}
Singles(records) == {k \in Firsts(records) : RunCloses(records, k)}

\* What uniq prints of the run from i on, which ends before j, and where the
\* firsts and the runs of one are in it.
RunPrints(cfg, records, i, j) ==
    /\ j - i \in Nat /\ j - i >= 1 /\ i..j - 1 \subseteq 1..Len(records)
    /\ j - i = 1 => i..j - 1 = {i}
    /\ uniqGroup(cfg, records, i, j) = Those(records, IF cfg.allRepeated /\ j - i > 1 THEN i..j - 1 ELSE {i})
    /\ Firsts(records) \cap (i..j - 1) = {i}
    /\ Singles(records) \cap (i..j - 1) = IF j - i = 1 THEN {i} ELSE {}

LEMMA UniqGroupIs ==
    ASSUME NEW S, NEW records \in Seq(S), NEW cfg, cfg.method = "none",
           NEW i \in 1..Len(records), RunBegins(records, i),
           NEW j, j = runEnd(records, i)
    PROVE  RunPrints(cfg, records, i, j)
<1> DEFINE n == Len(records)
           g == (IF cfg.allRepeated /\ j - i > 1 THEN SubSeq(records, i, j - 1) ELSE <<records[i]>>)
<1>1. n \in Nat BY LenProperties
<1>2. /\ j \in i + 1..n + 1
      /\ \A m \in i..j - 1 : RunBegins(records, m) <=> m = i
      /\ \A m \in i..j - 1 : RunCloses(records, m) <=> m = j - 1
  BY RunIs
<1>3. j - i \in Nat /\ j - i >= 1 /\ i..j - 1 \subseteq 1..n /\ (j - i = 1 => i..j - 1 = {i} /\ j - 1 = i)
      /\ i \in i..j - 1 /\ (j - i > 1 => j - 1 # i)
  BY <1>1, <1>2
<1>4. g \in Seq(S)
  <2>1. SubSeq(records, i, j - 1) \in Seq(S)
    <3>1. i - 1 \in 0..n /\ j - 1 \in i - 1..n /\ (i - 1) + 1 = i
      BY <1>1, <1>2
    <3>2. SubSeq(records, (i - 1) + 1, j - 1) \in Seq(S)
      BY ONLY <3>1, records \in Seq(S), BeginningJoins
    <3> QED BY <3>1, <3>2
  <2>2. <<records[i]>> \in Seq(S) BY ElementOfSeq
  <2> QED BY <2>1, <2>2
<1>5. uniqGroup(cfg, records, i, j) = g
  <2>1. ~(cfg.method = "separate") /\ ~(cfg.method \in {"prepend", "both"}) /\ ~(cfg.method \in {"append", "both"})
    OBVIOUS
  <2>2. uniqGroup(cfg, records, i, j) = (<<>> \o g) \o <<>>
    BY <2>1 DEF uniqGroup
  <2> HIDE DEF g
  <2>3. <<>> \o g = g /\ g \o <<>> = g BY <1>4, ConcatEmptySeq
  <2> QED BY <2>2, <2>3
<1>6. Those(records, i..j - 1) = SubSeq(records, i, j - 1)
  <2> DEFINE e == j - 1
  <2>1. e \in i..n BY <1>1, <1>2
  <2> HIDE DEF e
  <2>2. Those(records, i..e) = SubSeq(records, i, e)
    BY <2>1, ThoseStretch
  <2> QED BY <2>2 DEF e
<1>7. Those(records, {i}) = <<records[i]>> BY ThoseOne
<1>8. g = Those(records, IF cfg.allRepeated /\ j - i > 1 THEN i..j - 1 ELSE {i})
  BY <1>6, <1>7
<1>9. Firsts(records) \cap (i..j - 1) = {i} BY <1>2, <1>3 DEF Firsts
<1>10. Singles(records) \cap (i..j - 1) = IF j - i = 1 THEN {i} ELSE {}
  <2>1. CASE j - i = 1 BY <1>2, <1>3, <2>1 DEF Firsts, Singles
  <2>2. CASE j - i > 1 BY <1>2, <1>3, <2>2 DEF Firsts, Singles
  <2> QED BY <1>3, <2>1, <2>2
<1> HIDE DEF g
<1> QED BY <1>3, <1>5, <1>8, <1>9, <1>10 DEF RunPrints

\* uniq -u keeps the runs of one.
LEMMA UniqUniqueIs ==
    ASSUME NEW S, NEW records \in Seq(S)
    PROVE  uniq([UniqPlain EXCEPT !.unique = TRUE], records) = Those(records, Singles(records))
<1> DEFINE cfg == [UniqPlain EXCEPT !.unique = TRUE]
           keep == Singles(records)
<1>1. keep \subseteq 1..Len(records) BY DEF Firsts, Singles
<1>2. /\ cfg.method = "none" /\ cfg.allRepeated = FALSE
      /\ \A c \in Nat : should_emit(cfg, c) <=> c = 1
  BY DEF UniqPlain, should_emit
<1>3. ASSUME NEW i \in 1..Len(records), RunBegins(records, i), NEW j, j = runEnd(records, i)
      PROVE  (IF should_emit(cfg, j - i) THEN uniqGroup(cfg, records, i, j) ELSE <<>>)
               = Those(records, keep \cap (i..j - 1))
  <2> HIDE DEF cfg
  <2>0. records \in Seq(S) /\ cfg.method = "none" /\ i \in 1..Len(records) /\ RunBegins(records, i) /\ j = runEnd(records, i)
    BY <1>2, <1>3
  <2>1. RunPrints(cfg, records, i, j) BY ONLY <2>0, UniqGroupIs
  <2>2. keep \cap (i..j - 1) = IF j - i = 1 THEN {i} ELSE {}
    BY <2>1 DEF RunPrints
  <2> HIDE DEF keep
  <2>3. CASE j - i = 1
    <3>1. should_emit(cfg, j - i) /\ uniqGroup(cfg, records, i, j) = Those(records, {i}) /\ keep \cap (i..j - 1) = {i}
      BY <1>2, <2>1, <2>2, <2>3 DEF RunPrints
    <3> QED BY ONLY <3>1
  <2>4. CASE j - i > 1
    <3>1. ~(j - i = 1) BY <2>4
    <3>2. ~should_emit(cfg, j - i) /\ keep \cap (i..j - 1) = {}
      BY <1>2, <2>1, <2>2, <2>4, <3>1 DEF RunPrints
    <3> QED BY <3>2, ThoseNone
  <2> QED BY <2>1, <2>3, <2>4 DEF RunPrints
<1> HIDE DEF cfg, keep
<1>4. KeepsOfRuns(cfg, records, keep) BY <1>3 DEF KeepsOfRuns
<1>5. uniq(cfg, records) = Those(records, keep) BY <1>1, <1>4, UniqIs
<1> QED BY <1>5 DEF cfg, keep

\* uniq -D keeps the other runs, whole.
LEMMA UniqAllIs ==
    ASSUME NEW S, NEW records \in Seq(S)
    PROVE  uniq([UniqPlain EXCEPT !.allRepeated = TRUE], records) = Those(records, (1..Len(records)) \ Singles(records))
<1> DEFINE cfg == [UniqPlain EXCEPT !.allRepeated = TRUE]
           keep == (1..Len(records)) \ Singles(records)
<1>1. keep \subseteq 1..Len(records) BY DEF Firsts, Singles
<1>2. /\ cfg.method = "none" /\ cfg.allRepeated = TRUE
      /\ \A c \in Nat : should_emit(cfg, c) <=> c > 1
  BY DEF UniqPlain, should_emit
<1>3. ASSUME NEW i \in 1..Len(records), RunBegins(records, i), NEW j, j = runEnd(records, i)
      PROVE  (IF should_emit(cfg, j - i) THEN uniqGroup(cfg, records, i, j) ELSE <<>>)
               = Those(records, keep \cap (i..j - 1))
  <2> HIDE DEF cfg
  <2>0. records \in Seq(S) /\ cfg.method = "none" /\ i \in 1..Len(records) /\ RunBegins(records, i) /\ j = runEnd(records, i)
    BY <1>2, <1>3
  <2>1. RunPrints(cfg, records, i, j) BY ONLY <2>0, UniqGroupIs
  <2>2. keep \cap (i..j - 1) = IF j - i = 1 THEN {} ELSE i..j - 1
    BY <2>1 DEF RunPrints
  <2> HIDE DEF keep
  <2>3. CASE j - i = 1
    <3>1. ~should_emit(cfg, j - i) /\ keep \cap (i..j - 1) = {}
      BY <1>2, <2>1, <2>2, <2>3 DEF RunPrints
    <3> QED BY <3>1, ThoseNone
  <2>4. CASE j - i > 1
    <3>1. ~(j - i = 1) BY <2>4
    <3>2. should_emit(cfg, j - i) /\ uniqGroup(cfg, records, i, j) = Those(records, i..j - 1) /\ keep \cap (i..j - 1) = i..j - 1
      BY <1>2, <2>1, <2>2, <2>4, <3>1 DEF RunPrints
    <3> QED BY ONLY <3>2
  <2> QED BY <2>1, <2>3, <2>4 DEF RunPrints
<1> HIDE DEF cfg, keep
<1>4. KeepsOfRuns(cfg, records, keep) BY <1>3 DEF KeepsOfRuns
<1>5. uniq(cfg, records) = Those(records, keep) BY <1>1, <1>4, UniqIs
<1> QED BY <1>5 DEF cfg, keep

\* uniq -d keeps the first of each of those.
LEMMA UniqRepeatedIs ==
    ASSUME NEW S, NEW records \in Seq(S)
    PROVE  uniq([UniqPlain EXCEPT !.repeated = TRUE], records) = Those(records, Firsts(records) \ Singles(records))
<1> DEFINE cfg == [UniqPlain EXCEPT !.repeated = TRUE]
           keep == Firsts(records) \ Singles(records)
<1>1. keep \subseteq 1..Len(records) BY DEF Firsts, Singles
<1>2. /\ cfg.method = "none" /\ cfg.allRepeated = FALSE
      /\ \A c \in Nat : should_emit(cfg, c) <=> c > 1
  BY DEF UniqPlain, should_emit
<1>3. ASSUME NEW i \in 1..Len(records), RunBegins(records, i), NEW j, j = runEnd(records, i)
      PROVE  (IF should_emit(cfg, j - i) THEN uniqGroup(cfg, records, i, j) ELSE <<>>)
               = Those(records, keep \cap (i..j - 1))
  <2> HIDE DEF cfg
  <2>0. records \in Seq(S) /\ cfg.method = "none" /\ i \in 1..Len(records) /\ RunBegins(records, i) /\ j = runEnd(records, i)
    BY <1>2, <1>3
  <2>1. RunPrints(cfg, records, i, j) BY ONLY <2>0, UniqGroupIs
  <2>2. keep \cap (i..j - 1) = IF j - i = 1 THEN {} ELSE {i}
    BY <2>1 DEF RunPrints
  <2> HIDE DEF keep
  <2>3. CASE j - i = 1
    <3>1. ~should_emit(cfg, j - i) /\ keep \cap (i..j - 1) = {}
      BY <1>2, <2>1, <2>2, <2>3 DEF RunPrints
    <3> QED BY <3>1, ThoseNone
  <2>4. CASE j - i > 1
    <3>1. ~(j - i = 1) BY <2>4
    <3>2. should_emit(cfg, j - i) /\ uniqGroup(cfg, records, i, j) = Those(records, {i}) /\ keep \cap (i..j - 1) = {i}
      BY <1>2, <2>1, <2>2, <2>4, <3>1 DEF RunPrints
    <3> QED BY ONLY <3>2
  <2> QED BY <2>1, <2>3, <2>4 DEF RunPrints
<1> HIDE DEF cfg, keep
<1>4. KeepsOfRuns(cfg, records, keep) BY <1>3 DEF KeepsOfRuns
<1>5. uniq(cfg, records) = Those(records, keep) BY <1>1, <1>4, UniqIs
<1> QED BY <1>5 DEF cfg, keep

\* uniq keeps the first of each run.
LEMMA UniqPlainIs ==
    ASSUME NEW S, NEW records \in Seq(S)
    PROVE  uniq(UniqPlain, records) = Those(records, Firsts(records))
<1> DEFINE cfg == UniqPlain
           keep == Firsts(records)
<1>1. keep \subseteq 1..Len(records) BY DEF Firsts, Singles
<1>2. /\ cfg.method = "none" /\ cfg.allRepeated = FALSE
      /\ \A c \in Nat : should_emit(cfg, c) <=> TRUE
  BY DEF UniqPlain, should_emit
<1>3. ASSUME NEW i \in 1..Len(records), RunBegins(records, i), NEW j, j = runEnd(records, i)
      PROVE  (IF should_emit(cfg, j - i) THEN uniqGroup(cfg, records, i, j) ELSE <<>>)
               = Those(records, keep \cap (i..j - 1))
  <2> HIDE DEF cfg
  <2>0. records \in Seq(S) /\ cfg.method = "none" /\ i \in 1..Len(records) /\ RunBegins(records, i) /\ j = runEnd(records, i)
    BY <1>2, <1>3
  <2>1. RunPrints(cfg, records, i, j) BY ONLY <2>0, UniqGroupIs
  <2>2. keep \cap (i..j - 1) = {i} BY <2>1 DEF RunPrints
  <2> HIDE DEF keep
  <2>3. should_emit(cfg, j - i) /\ uniqGroup(cfg, records, i, j) = Those(records, {i}) /\ keep \cap (i..j - 1) = {i}
    BY <1>2, <2>1, <2>2, <1>3 DEF RunPrints
  <2> QED BY ONLY <2>3
<1> HIDE DEF cfg, keep
<1>4. KeepsOfRuns(cfg, records, keep) BY <1>3 DEF KeepsOfRuns
<1>5. uniq(cfg, records) = Those(records, keep) BY <1>1, <1>4, UniqIs
<1> QED BY <1>5 DEF cfg, keep

\* What the property says of a run of uniq.
UniqRight(records) ==
    LET plain == [repeated |-> FALSE, allRepeated |-> FALSE, unique |-> FALSE,
                  groupAll |-> FALSE, method |-> "none"]
        one   == uniq([plain EXCEPT !.unique = TRUE], records)
        many  == uniq([plain EXCEPT !.allRepeated = TRUE], records)
        firsts == uniq([plain EXCEPT !.repeated = TRUE], records)
        merge(s, t) == Those(records, {k \in DOMAIN records :
                                              records[k] \in ToSet(s) \cup ToSet(t)})
    IN  /\ ToSet(one) \cap ToSet(many) = {}
        /\ Len(one) + Len(many) = Len(records)
        /\ merge(one, many) = records
        /\ merge(one, firsts) = uniq(plain, records)
        /\ \A i \in 2..Len(records) :
             comparison_key(records[i]) = comparison_key(records[i - 1])
               => records[i] \in ToSet(many)

\* Of records that differ, one is chosen when its position is.
LEMMA PickedOnce ==
    ASSUME NEW S, NEW s \in Seq(S), \A i, j \in DOMAIN s : i # j => s[i] # s[j],
           NEW keep, keep \subseteq 1..Len(s), NEW k \in 1..Len(s)
    PROVE  s[k] \in ToSet(Those(s, keep)) <=> k \in keep
<1> DEFINE x == s[k]
<1> HIDE DEF x
<1>1. x \in ToSet(Those(s, keep)) <=> Picked(s, keep, x)
  BY ONLY s \in Seq(S), keep \subseteq 1..Len(s), ThoseSet
<1>2. Picked(s, keep, x) <=> k \in keep
  <2>1. \A i \in keep : i \in DOMAIN s /\ k \in DOMAIN s
    BY LenProperties
  <2> QED BY <2>1 DEF Picked, x
<1> QED BY <1>1, <1>2 DEF x

\* uniq divides its input.
LEMMA UniqHolds ==
    ASSUME NEW S, NEW records \in Seq(S), \A i, j \in DOMAIN records : i # j => records[i] # records[j]
    PROVE  UniqRight(records)
<1> DEFINE n == Len(records)
           A == Singles(records)
           F == Firsts(records)
           B == (1..n) \ A
           D == F \ A
           one == Those(records, A)
           many == Those(records, B)
           firsts == Those(records, D)
           all == Those(records, F)
<1>1. /\ uniq([UniqPlain EXCEPT !.unique = TRUE], records) = one
      /\ uniq([UniqPlain EXCEPT !.allRepeated = TRUE], records) = many
      /\ uniq([UniqPlain EXCEPT !.repeated = TRUE], records) = firsts
      /\ uniq(UniqPlain, records) = all
  BY UniqUniqueIs, UniqAllIs, UniqRepeatedIs, UniqPlainIs
<1>2. n \in Nat /\ DOMAIN records = 1..n /\ F \subseteq 1..n /\ A \subseteq F
  BY LenProperties DEF Firsts, Singles
<1>3. A \subseteq 1..n /\ B \subseteq 1..n /\ D \subseteq 1..n
  <2> HIDE DEF A, F
  <2> QED BY <1>2
<1>4. \A k \in 1..n : k \in B <=> k \notin A OBVIOUS
<1>5. \A k \in 1..n : k \in D <=> k \in F /\ k \notin A OBVIOUS
<1> HIDE DEF A, B, D, F
<1>6. ASSUME NEW k \in 1..n
      PROVE  /\ records[k] \in ToSet(one) <=> k \in A
             /\ records[k] \in ToSet(many) <=> k \in B
             /\ records[k] \in ToSet(firsts) <=> k \in D
  <2>1. records[k] \in ToSet(one) <=> k \in A BY <1>3, PickedOnce
  <2>2. records[k] \in ToSet(many) <=> k \in B BY <1>3, PickedOnce
  <2>3. records[k] \in ToSet(firsts) <=> k \in D BY <1>3, PickedOnce
  <2> QED BY <2>1, <2>2, <2>3
<1>7. ToSet(one) \cap ToSet(many) = {}
  <2> SUFFICES ASSUME NEW x, x \in ToSet(one), x \in ToSet(many) PROVE FALSE
    OBVIOUS
  <2>1. Picked(records, A, x) BY <1>3, ThoseSet
  <2>2. PICK k \in A : x = records[k] BY <2>1 DEF Picked
  <2>3. k \in 1..n BY <1>3
  <2> QED BY <1>4, <1>6, <2>2, <2>3
<1>8. Len(one) + Len(many) = n
  <2>1. Len(one) = Cardinality(A) /\ IsFiniteSet(A) /\ Cardinality(A) \in Nat
    BY <1>3, ThoseLength
  <2>2. Len(many) = Cardinality(B) /\ IsFiniteSet(B) /\ Cardinality(B) \in Nat
    BY <1>3, ThoseLength
  <2>3. A \cup B = 1..n /\ A \cap B = {} BY <1>3, <1>4
  <2>4. Cardinality(A \cup B) = Cardinality(A) + Cardinality(B) - Cardinality(A \cap B)
    BY <2>1, <2>2, FS_Union
  <2>5. Cardinality({}) = 0 BY FS_EmptySet
  <2>6. Cardinality(1..n) = n
    <3>1. Cardinality(1..n) = IF 1 > n THEN 0 ELSE n - 1 + 1
      <4>1. n \in Int /\ 1 \in Int BY <1>2
      <4> HIDE DEF n
      <4> QED BY ONLY <4>1, FS_Interval
    <3> QED BY <1>2, <3>1
  <2>7. Cardinality(A \cup B) = n /\ Cardinality(A \cap B) = 0
    BY <2>3, <2>5, <2>6
  <2> HIDE DEF one, many
  <2> QED BY ONLY <2>1, <2>2, <2>4, <2>7, <1>2
<1>9. Those(records, {k \in DOMAIN records : records[k] \in ToSet(one) \cup ToSet(many)}) = records
  <2> DEFINE K == {k \in DOMAIN records : records[k] \in ToSet(one) \cup ToSet(many)}
  <2>1. DOMAIN records \subseteq K
    <3> HIDE DEF one, many
    <3> QED BY <1>2, <1>4, <1>6
  <2> HIDE DEF K
  <2>2. Those(records, K) = records BY <2>1, ThoseAll
  <2> QED BY <2>2 DEF K
<1>10. Those(records, {k \in DOMAIN records : records[k] \in ToSet(one) \cup ToSet(firsts)}) = all
  <2> DEFINE K == {k \in DOMAIN records : records[k] \in ToSet(one) \cup ToSet(firsts)}
  <2>1. \A k \in DOMAIN records : k \in K <=> k \in F
    <3> HIDE DEF one, firsts
    <3> QED BY <1>2, <1>5, <1>6
  <2> HIDE DEF K
  <2>2. Those(records, K) = Those(records, F) BY <2>1, ThoseAgree
  <2> QED BY <2>2 DEF K
<1>11. ASSUME NEW i \in 2..n, comparison_key(records[i]) = comparison_key(records[i - 1])
       PROVE  records[i] \in ToSet(many)
  <2>1. ~RunBegins(records, i) /\ i \in 1..n
    BY <1>2, <1>11 DEF RunBegins
  <2>2. i \in B BY <2>1, <1>4 DEF A, Singles, Firsts
  <2> QED BY <1>6, <2>1, <2>2
<1> HIDE DEF one, many, firsts, all
<1> QED BY <1>1, <1>7, <1>8, <1>9, <1>10, <1>11 DEF UniqRight, UniqPlain

\* The states of the scan of a line for its field n.
LineStates(h, line, sep, n) ==
    h = [k \in 0..Len(line) |-> IF k = 0 THEN [field |-> 1, gap |-> TRUE, taken |-> <<>>]
                                ELSE LineCharacter(h[k - 1], line[k], sep, n)]

\* The characters of a line, for one of its fields.
LEMMA LineCharactersAre ==
    ASSUME NEW line, NEW sep, NEW n, Len(line) \in Nat
    PROVE  \E h : LineStates(h, line, sep, n) /\ split_line(line, sep, n) = h[Len(line)].taken
<1> DEFINE v == [field |-> 1, gap |-> TRUE, taken |-> <<>>]
           G(s, k) == LineCharacter(s, line[k], sep, n)
           T == {m \in Nat : \E h : h = [k \in 0..m |-> IF k = 0 THEN v ELSE G(h[k - 1], k)]}
<1> HIDE DEF v, G
<1>1. 0 \in T
  <2> DEFINE h == [k \in 0..0 |-> v]
  <2>1. h = [k \in 0..0 |-> IF k = 0 THEN v ELSE G(h[k - 1], k)] OBVIOUS
  <2> HIDE DEF h
  <2> QED BY <2>1
<1>2. ASSUME NEW m \in Nat, m \in T PROVE m + 1 \in T
  <2>1. PICK h : h = [k \in 0..m |-> IF k = 0 THEN v ELSE G(h[k - 1], k)]
    BY <1>2
  <2> DEFINE g == [k \in 0..m + 1 |-> IF k \in 0..m THEN h[k] ELSE G(h[m], k)]
  <2>2. ASSUME NEW k \in 0..m + 1 PROVE g[k] = IF k = 0 THEN v ELSE G(g[k - 1], k)
    <3>1. CASE k = 0 BY <2>1, <3>1
    <3>2. CASE k \in 1..m
      <4>1. k \in 0..m /\ k - 1 \in 0..m /\ k # 0 /\ k - 1 \in 0..m + 1
        BY <3>2
      <4>2. g[k] = h[k] /\ g[k - 1] = h[k - 1] BY <4>1
      <4> HIDE DEF g
      <4> QED BY <2>1, <4>1, <4>2
    <3>3. CASE k = m + 1
      <4>1. k \notin 0..m /\ k - 1 = m /\ m \in 0..m /\ k # 0 /\ m \in 0..m + 1
        BY <3>3
      <4>2. g[k] = G(h[m], k) /\ g[m] = h[m] BY <4>1
      <4> HIDE DEF g
      <4> QED BY <4>1, <4>2
    <3> QED BY <3>1, <3>2, <3>3
  <2>3. g = [k \in 0..m + 1 |-> IF k = 0 THEN v ELSE G(g[k - 1], k)]
    <3>1. g = [k \in 0..m + 1 |-> g[k]] OBVIOUS
    <3> HIDE DEF g
    <3> QED BY <2>2, <3>1
  <2> HIDE DEF g
  <2> QED BY <2>3
<1>3. Nat \subseteq T
  <2> HIDE DEF T
  <2> QED BY <1>1, <1>2, SetInduction
<1>4. \E h : h = [k \in 0..Len(line) |-> IF k = 0 THEN v ELSE G(h[k - 1], k)]
  BY <1>3
<1> DEFINE C == CHOOSE h : h = [k \in 0..Len(line) |-> IF k = 0 THEN [field |-> 1, gap |-> TRUE, taken |-> <<>>] ELSE LineCharacter(h[k - 1], line[k], sep, n)]
<1>5. C = [k \in 0..Len(line) |-> IF k = 0 THEN [field |-> 1, gap |-> TRUE, taken |-> <<>>] ELSE LineCharacter(C[k - 1], line[k], sep, n)]
  BY <1>4 DEF v, G
<1>6. split_line(line, sep, n) = C[Len(line)].taken BY DEF split_line
<1> HIDE DEF C
<1> QED BY <1>5, <1>6 DEF LineStates

\* What split_all_fields makes of the last state.
FieldsEnd(s, sep) == IF s.gap /\ sep = " " THEN s.fields ELSE Append(s.fields, s.current)

\* The characters of a line, for all of its fields.
LEMMA FieldsCharactersAre ==
    ASSUME NEW line, NEW sep, Len(line) \in Nat
    PROVE  \E h : h = [k \in 0..Len(line) |-> IF k = 0 THEN [gap |-> TRUE, current |-> <<>>, fields |-> <<>>] ELSE FieldsCharacter(h[k - 1], line[k], sep)] /\ split_all_fields(line, sep) = FieldsEnd(h[Len(line)], sep)
<1> DEFINE v == [gap |-> TRUE, current |-> <<>>, fields |-> <<>>]
           G(s, k) == FieldsCharacter(s, line[k], sep)
           T == {m \in Nat : \E h : h = [k \in 0..m |-> IF k = 0 THEN v ELSE G(h[k - 1], k)]}
<1> HIDE DEF v, G
<1>1. 0 \in T
  <2> DEFINE h == [k \in 0..0 |-> v]
  <2>1. h = [k \in 0..0 |-> IF k = 0 THEN v ELSE G(h[k - 1], k)] OBVIOUS
  <2> HIDE DEF h
  <2> QED BY <2>1
<1>2. ASSUME NEW m \in Nat, m \in T PROVE m + 1 \in T
  <2>1. PICK h : h = [k \in 0..m |-> IF k = 0 THEN v ELSE G(h[k - 1], k)]
    BY <1>2
  <2> DEFINE g == [k \in 0..m + 1 |-> IF k \in 0..m THEN h[k] ELSE G(h[m], k)]
  <2>2. ASSUME NEW k \in 0..m + 1 PROVE g[k] = IF k = 0 THEN v ELSE G(g[k - 1], k)
    <3>1. CASE k = 0 BY <2>1, <3>1
    <3>2. CASE k \in 1..m
      <4>1. k \in 0..m /\ k - 1 \in 0..m /\ k # 0 /\ k - 1 \in 0..m + 1
        BY <3>2
      <4>2. g[k] = h[k] /\ g[k - 1] = h[k - 1] BY <4>1
      <4> HIDE DEF g
      <4> QED BY <2>1, <4>1, <4>2
    <3>3. CASE k = m + 1
      <4>1. k \notin 0..m /\ k - 1 = m /\ m \in 0..m /\ k # 0 /\ m \in 0..m + 1
        BY <3>3
      <4>2. g[k] = G(h[m], k) /\ g[m] = h[m] BY <4>1
      <4> HIDE DEF g
      <4> QED BY <4>1, <4>2
    <3> QED BY <3>1, <3>2, <3>3
  <2>3. g = [k \in 0..m + 1 |-> IF k = 0 THEN v ELSE G(g[k - 1], k)]
    <3>1. g = [k \in 0..m + 1 |-> g[k]] OBVIOUS
    <3> HIDE DEF g
    <3> QED BY <2>2, <3>1
  <2> HIDE DEF g
  <2> QED BY <2>3
<1>3. Nat \subseteq T
  <2> HIDE DEF T
  <2> QED BY <1>1, <1>2, SetInduction
<1>4. \E h : h = [k \in 0..Len(line) |-> IF k = 0 THEN v ELSE G(h[k - 1], k)]
  BY <1>3
<1> DEFINE C == CHOOSE h : h = [k \in 0..Len(line) |-> IF k = 0 THEN [gap |-> TRUE, current |-> <<>>, fields |-> <<>>] ELSE FieldsCharacter(h[k - 1], line[k], sep)]
<1>5. C = [k \in 0..Len(line) |-> IF k = 0 THEN [gap |-> TRUE, current |-> <<>>, fields |-> <<>>] ELSE FieldsCharacter(C[k - 1], line[k], sep)]
  BY <1>4 DEF v, G
<1>6. split_all_fields(line, sep) = FieldsEnd(C[Len(line)], sep)
  BY DEF split_all_fields, FieldsEnd
<1> HIDE DEF C
<1> QED BY <1>5, <1>6

\* No field is empty.
AllFull(fields) == \A m \in 1..Len(fields) : fields[m] # <<>>

\* The n-th field, of those that are complete and the one being read.
FieldSoFar(s, n) == IF n \in 1..Len(s.fields) THEN s.fields[n]
                    ELSE IF n = Len(s.fields) + 1 THEN s.current ELSE <<>>

FieldsState(S, s) ==
    /\ s = [gap |-> s.gap, current |-> s.current, fields |-> s.fields]
    /\ s.gap \in BOOLEAN /\ s.current \in Seq(S) /\ s.fields \in Seq(Seq(S))
    /\ s.gap => s.current = <<>>

\* l reads the n-th field and s all of them, and they agree unless a field is empty.
FieldsMeet(S, l, s, n) ==
    /\ l = [field |-> l.field, gap |-> l.gap, taken |-> l.taken]
    /\ FieldsState(S, s)
    /\ l.taken \in Seq(S)
    /\ AllFull(s.fields) => /\ l.gap = s.gap
                            /\ l.field = Len(s.fields) + 1
                            /\ l.taken = FieldSoFar(s, n)

\* Were there no empty field with one more, there is none without it.
LEMMA AllFullAppend ==
    ASSUME NEW S, NEW fields \in Seq(Seq(S)), NEW x \in Seq(S), AllFull(Append(fields, x))
    PROVE  AllFull(fields) /\ x # <<>>
<1> DEFINE R == Seq(S)
           u == Append(fields, x)
<1>1. fields \in Seq(R) /\ x \in R OBVIOUS
<1> HIDE DEF R
<1>2. Len(fields) \in Nat /\ Len(u) = Len(fields) + 1 /\ u[Len(fields) + 1] = x /\ \A m \in 1..Len(fields) : u[m] = fields[m]
  BY <1>1, AppendFacts
<1> HIDE DEF u
<1>3. \A m \in 1..Len(fields) + 1 : u[m] # <<>> BY <1>2 DEF AllFull, u
<1>4. Len(fields) + 1 \in 1..Len(fields) + 1 BY <1>2
<1>5. \A m \in 1..Len(fields) : m \in 1..Len(fields) + 1 BY <1>2
<1> QED BY <1>2, <1>3, <1>4, <1>5 DEF AllFull

\* A character keeps them so.
LEMMA CharacterMeets ==
    ASSUME NEW S, NEW l, NEW s, NEW n \in Nat, NEW c \in S, NEW sep, FieldsMeet(S, l, s, n)
    PROVE  FieldsMeet(S, LineCharacter(l, c, sep, n), FieldsCharacter(s, c, sep), n)
<1> DEFINE m == LineCharacter(l, c, sep, n)
           t == FieldsCharacter(s, c, sep)
           f == s.fields
           e == s.current
<1>0. /\ l = [field |-> l.field, gap |-> l.gap, taken |-> l.taken]
      /\ s = [gap |-> s.gap, current |-> e, fields |-> f]
      /\ s.gap \in BOOLEAN /\ e \in Seq(S) /\ f \in Seq(Seq(S))
      /\ s.gap => e = <<>>
      /\ l.taken \in Seq(S)
      /\ AllFull(f) => l.gap = s.gap /\ l.field = Len(f) + 1 /\ l.taken = FieldSoFar(s, n)
  BY DEF FieldsMeet, FieldsState
<1>01. Len(f) \in Nat BY <1>0, LenProperties
<1>1. CASE c # sep
  <2> DEFINE d == IF l.field = n THEN Append(l.taken, c) ELSE l.taken
  <2>1. m = [field |-> l.field, gap |-> FALSE, taken |-> d]
    BY <1>1 DEF LineCharacter
  <2>2. t = [gap |-> FALSE, current |-> Append(e, c), fields |-> f]
    BY <1>0, <1>1 DEF FieldsCharacter
  <2>3. Append(e, c) \in Seq(S) /\ d \in Seq(S)
    <3>1. Append(e, c) \in Seq(S) BY <1>0, AppendFacts
    <3>2. Append(l.taken, c) \in Seq(S) BY <1>0, AppendFacts
    <3> QED BY <1>0, <3>1, <3>2
  <2> HIDE DEF m, t, d
  <2>4. m.field = l.field /\ m.gap = FALSE /\ m.taken = d /\ m = [field |-> m.field, gap |-> m.gap, taken |-> m.taken]
    BY <2>1
  <2>5. t.gap = FALSE /\ t.current = Append(e, c) /\ t.fields = f /\ t = [gap |-> t.gap, current |-> t.current, fields |-> t.fields]
    BY <2>2
  <2>6. FieldsState(S, t) BY <1>0, <2>3, <2>5 DEF FieldsState
  <2>7. ASSUME AllFull(f) PROVE d = FieldSoFar(t, n)
    <3>1. l.field = Len(f) + 1 /\ l.taken = FieldSoFar(s, n)
      BY <1>0, <2>7
    <3>2. CASE n = Len(f) + 1
      <4>1. n \notin 1..Len(f) BY <3>2, <1>01
      <4>2. l.taken = e BY <3>1, <3>2, <4>1 DEF FieldSoFar
      <4> QED BY <2>5, <3>1, <3>2, <4>1, <4>2 DEF FieldSoFar, d
    <3>3. CASE n # Len(f) + 1 BY <2>5, <3>1, <3>3 DEF FieldSoFar, d
    <3> QED BY <3>2, <3>3
  <2> HIDE DEF f, e
  <2> QED BY <1>0, <2>3, <2>4, <2>5, <2>6, <2>7 DEF FieldsMeet, m, t
<1>2. CASE c = sep /\ ~s.gap
  <2>2. t = [gap |-> TRUE, current |-> <<>>, fields |-> Append(f, e)]
    BY <1>0, <1>2 DEF FieldsCharacter
  <2>3. Append(f, e) \in Seq(Seq(S)) /\ <<>> \in Seq(S)
    BY <1>0, AppendFacts, EmptySeq
  <2> HIDE DEF t, m
  <2>5. t.gap = TRUE /\ t.current = <<>> /\ t.fields = Append(f, e) /\ t = [gap |-> t.gap, current |-> t.current, fields |-> t.fields]
    BY <2>2
  <2>6. FieldsState(S, t) BY <1>0, <2>3, <2>5 DEF FieldsState
  <2>7. ASSUME AllFull(Append(f, e))
        PROVE  m.gap = TRUE /\ m.field = Len(Append(f, e)) + 1 /\ m.taken = FieldSoFar(t, n)
    <3>1. AllFull(f) BY <1>0, <2>7, AllFullAppend
    <3>2. l.gap = FALSE /\ l.field = Len(f) + 1 /\ l.taken = FieldSoFar(s, n)
      BY <1>0, <1>2, <3>1
    <3>3. m = [field |-> l.field + 1, gap |-> TRUE, taken |-> l.taken]
      BY <1>0, <1>2, <3>2 DEF LineCharacter, m
    <3>4. m.field = Len(f) + 1 + 1 /\ m.gap = TRUE /\ m.taken = l.taken
      BY <3>2, <3>3
    <3> DEFINE u == Append(f, e)
               R == Seq(S)
    <3>5. Len(u) = Len(f) + 1 /\ u[Len(f) + 1] = e /\ \A k \in 1..Len(f) : u[k] = f[k]
      <4>1. f \in Seq(R) /\ e \in R BY <1>0
      <4> HIDE DEF R, f, e
      <4> QED BY <4>1, AppendFacts
    <3> HIDE DEF u, f, e
    <3>6. l.taken = FieldSoFar(t, n)
      <4>1. CASE n \in 1..Len(f)
        <5>1. n \in 1..Len(u) BY <4>1, <3>5, <1>01
        <5> QED BY <2>5, <3>2, <3>5, <4>1, <5>1 DEF FieldSoFar, u, f
      <4>2. CASE n = Len(f) + 1
        <5>1. n \in 1..Len(u) /\ n \notin 1..Len(f) BY <4>2, <3>5, <1>01
        <5> QED BY <2>5, <3>2, <3>5, <4>2, <5>1 DEF FieldSoFar, u, f, e
      <4>3. CASE n \notin 1..Len(f) /\ n # Len(f) + 1
        <5>1. n \notin 1..Len(u) BY <4>3, <3>5, <1>01
        <5> QED BY <2>5, <3>2, <3>5, <4>3, <5>1 DEF FieldSoFar, u, f
      <4> QED BY <4>1, <4>2, <4>3
    <3> QED BY <3>4, <3>5, <3>6 DEF u
  <2>8. m = [field |-> m.field, gap |-> m.gap, taken |-> m.taken] /\ m.taken \in Seq(S)
    BY <1>0, <1>2 DEF LineCharacter, m
  <2> HIDE DEF f, e
  <2> QED BY <2>5, <2>6, <2>7, <2>8 DEF FieldsMeet, m, t
<1>3. CASE c = sep /\ s.gap /\ sep = " "
  <2>2. t = s BY <1>0, <1>3 DEF FieldsCharacter
  <2>3. AllFull(f) => m = l BY <1>0, <1>3 DEF LineCharacter
  <2>4. m = [field |-> m.field, gap |-> m.gap, taken |-> m.taken] /\ m.taken \in Seq(S)
    BY <1>0, <1>3 DEF LineCharacter
  <2> HIDE DEF t, m
  <2>5. FieldsState(S, s) BY DEF FieldsMeet
  <2>6. AllFull(s.fields) => m.gap = s.gap /\ m.field = Len(s.fields) + 1 /\ m.taken = FieldSoFar(s, n)
    BY <1>0, <2>3
  <2>7. FieldsMeet(S, m, s, n) BY <2>4, <2>5, <2>6 DEF FieldsMeet
  <2> QED BY <2>2, <2>7 DEF m, t
<1>4. CASE c = sep /\ s.gap /\ sep # " "
  <2>2. t = [gap |-> s.gap, current |-> e, fields |-> Append(f, <<>>)]
    BY <1>0, <1>4 DEF FieldsCharacter
  <2>3. <<>> \in Seq(S) BY EmptySeq
  <2>4. Append(f, <<>>) \in Seq(Seq(S)) BY <1>0, <2>3, AppendFacts
  <2>5. m = [field |-> m.field, gap |-> m.gap, taken |-> m.taken] /\ m.taken \in Seq(S)
    BY <1>0, <1>4 DEF LineCharacter
  <2> HIDE DEF t, m
  <2>6. t.gap = s.gap /\ t.current = e /\ t.fields = Append(f, <<>>) /\ t = [gap |-> t.gap, current |-> t.current, fields |-> t.fields]
    BY <2>2
  <2>7. FieldsState(S, t) BY <1>0, <2>4, <2>6 DEF FieldsState
  <2>8. ~AllFull(Append(f, <<>>)) BY <1>0, <2>3, AllFullAppend
  <2> HIDE DEF f, e
  <2> QED BY <2>5, <2>6, <2>7, <2>8 DEF FieldsMeet, m, t
<1> QED BY <1>0, <1>1, <1>2, <1>3, <1>4

\* The n-th of the fields, none when there are fewer.
FieldOf(fields, n) == IF n \in DOMAIN fields THEN fields[n] ELSE <<>>

\* Both ways to read a field agree unless a field is empty.
LEMMA FieldsAgree ==
    ASSUME NEW S, NEW line \in Seq(S), NEW sep, NEW n \in Nat
    PROVE  /\ split_line(line, sep, n) \in Seq(S)
           /\ split_all_fields(line, sep) \in Seq(Seq(S))
           /\ AllFull(split_all_fields(line, sep)) =>
                split_line(line, sep, n) = FieldOf(split_all_fields(line, sep), n)
<1> DEFINE z == Len(line)
<1>0. z \in Nat /\ \A k \in 1..z : line[k] \in S
  BY LenProperties, ElementOfSeq
<1>1. PICK h : /\ h = [k \in 0..z |-> IF k = 0 THEN [field |-> 1, gap |-> TRUE, taken |-> <<>>]
                                      ELSE LineCharacter(h[k - 1], line[k], sep, n)]
               /\ split_line(line, sep, n) = h[z].taken
  <2>1. \E h : LineStates(h, line, sep, n) /\ split_line(line, sep, n) = h[z].taken
    BY <1>0, LineCharactersAre
  <2> QED BY <2>1 DEF LineStates
<1>2. PICK g : /\ g = [k \in 0..z |-> IF k = 0 THEN [gap |-> TRUE, current |-> <<>>, fields |-> <<>>]
                                      ELSE FieldsCharacter(g[k - 1], line[k], sep)]
               /\ split_all_fields(line, sep) = FieldsEnd(g[z], sep)
  BY <1>0, FieldsCharactersAre
<1> DEFINE T == {k \in Nat : k <= z => FieldsMeet(S, h[k], g[k], n)}
<1>3. 0 \in T
  <2> DEFINE l == h[0]
             s == g[0]
             e == <<>>
  <2>1. l = [field |-> 1, gap |-> TRUE, taken |-> e] /\ s = [gap |-> TRUE, current |-> e, fields |-> e]
    BY <1>0, <1>1, <1>2
  <2>2. e \in Seq(S) /\ e \in Seq(Seq(S)) /\ Len(e) = 0 BY EmptySeq
  <2>3. 1..Len(e) = {} BY <2>2
  <2>4. e = <<>> OBVIOUS
  <2> HIDE DEF l, s, e
  <2>5. l = [field |-> l.field, gap |-> l.gap, taken |-> l.taken] /\ l.field = 1 /\ l.gap = TRUE /\ l.taken = e
    BY <2>1
  <2>6. s = [gap |-> s.gap, current |-> s.current, fields |-> s.fields] /\ s.gap = TRUE /\ s.current = e /\ s.fields = e
    BY <2>1
  <2>7. FieldsState(S, s) BY <2>2, <2>4, <2>6 DEF FieldsState
  <2>8. FieldSoFar(s, n) = e BY <2>3, <2>4, <2>6 DEF FieldSoFar
  <2>9. l.field = Len(s.fields) + 1 BY <2>2, <2>5, <2>6
  <2>10. FieldsMeet(S, l, s, n)
    BY <2>2, <2>5, <2>6, <2>7, <2>8, <2>9 DEF FieldsMeet
  <2> QED BY <2>10 DEF l, s
<1>4. ASSUME NEW k \in Nat, k \in T PROVE k + 1 \in T
  <2> SUFFICES ASSUME k + 1 <= z PROVE FieldsMeet(S, h[k + 1], g[k + 1], n)
    OBVIOUS
  <2> DEFINE l == h[k]
             s == g[k]
             c == line[k + 1]
  <2>1. FieldsMeet(S, l, s, n) BY <1>0, <1>4
  <2>2. h[k + 1] = LineCharacter(h[k], c, sep, n) /\ g[k + 1] = FieldsCharacter(g[k], c, sep)
    <3>1. k + 1 \in 0..z /\ k + 1 # 0 /\ (k + 1) - 1 = k BY <1>0
    <3> HIDE DEF z
    <3>2. h[k + 1] = LineCharacter(h[k], c, sep, n) BY <1>1, <3>1
    <3>3. g[k + 1] = FieldsCharacter(g[k], c, sep) BY <1>2, <3>1
    <3> QED BY <3>2, <3>3
  <2>3. c \in S BY <1>0
  <2> HIDE DEF l, s, c
  <2>4. FieldsMeet(S, LineCharacter(l, c, sep, n), FieldsCharacter(s, c, sep), n)
    BY <2>1, <2>3, CharacterMeets
  <2> QED BY <2>2, <2>4 DEF l, s
<1>5. Nat \subseteq T
  <2> HIDE DEF T
  <2> QED BY <1>3, <1>4, SetInduction
<1> DEFINE l == h[z]
           s == g[z]
           f == s.fields
           e == s.current
           u == FieldsEnd(s, sep)
<1>6. FieldsMeet(S, l, s, n)
  <2>1. z \in T /\ z <= z BY <1>0, <1>5
  <2> QED BY <2>1
<1> HIDE DEF l, s
<1>7. /\ f \in Seq(Seq(S)) /\ e \in Seq(S) /\ (s.gap => e = <<>>) /\ l.taken \in Seq(S)
      /\ AllFull(f) => l.taken = FieldSoFar(s, n)
  BY <1>6 DEF FieldsMeet, FieldsState
<1>8. Len(f) \in Nat /\ DOMAIN f = 1..Len(f) BY <1>7, LenProperties
<1>9. CASE s.gap /\ sep = " "
  <2>1. u = f BY <1>9 DEF FieldsEnd
  <2>2. AllFull(f) => l.taken = FieldOf(f, n)
    <3> HIDE DEF f, e
    <3>1. AllFull(f) => l.taken = (IF n \in 1..Len(f) THEN f[n] ELSE IF n = Len(f) + 1 THEN e ELSE <<>>)
      BY <1>7 DEF FieldSoFar, f, e
    <3> QED BY <1>7, <1>8, <1>9, <3>1 DEF FieldOf
  <2> HIDE DEF u, f
  <2> QED BY <1>1, <1>2, <1>7, <2>1, <2>2 DEF l, s, u
<1>10. CASE ~(s.gap /\ sep = " ")
  <2> DEFINE R == Seq(S)
             v == Append(f, e)
  <2>1. u = v BY <1>10 DEF FieldsEnd
  <2>2. v \in Seq(R) /\ Len(v) = Len(f) + 1 /\ v[Len(f) + 1] = e /\ (\A k \in 1..Len(f) : v[k] = f[k]) /\ DOMAIN v = 1..Len(f) + 1
    <3>1. f \in Seq(R) /\ e \in R BY <1>7
    <3> HIDE DEF R, f, e
    <3> QED BY <3>1, AppendFacts
  <2>3. AllFull(v) => l.taken = FieldOf(v, n)
    <3> SUFFICES ASSUME AllFull(v) PROVE l.taken = FieldOf(v, n) OBVIOUS
    <3>1. AllFull(f)
      <4> HIDE DEF f, e
      <4> QED BY <1>7, AllFullAppend
    <3>2. l.taken = (IF n \in 1..Len(f) THEN f[n] ELSE IF n = Len(f) + 1 THEN e ELSE <<>>)
      BY <1>7, <3>1 DEF FieldSoFar
    <3> HIDE DEF v, f, e
    <3>3. CASE n \in 1..Len(f)
      <4>1. n \in DOMAIN v BY <3>3, <2>2, <1>8
      <4> QED BY <3>2, <3>3, <2>2, <4>1 DEF FieldOf
    <3>4. CASE n = Len(f) + 1
      <4>1. n \in DOMAIN v /\ n \notin 1..Len(f) BY <3>4, <2>2, <1>8
      <4> QED BY <3>2, <3>4, <2>2, <4>1 DEF FieldOf
    <3>5. CASE n \notin 1..Len(f) /\ n # Len(f) + 1
      <4>1. n \notin DOMAIN v BY <3>5, <2>2, <1>8
      <4> QED BY <3>2, <3>5, <4>1 DEF FieldOf
    <3> QED BY <3>3, <3>4, <3>5
  <2> HIDE DEF u, v
  <2> QED BY <1>1, <1>2, <1>7, <2>1, <2>2, <2>3 DEF l, s, u
<1> QED BY <1>9, <1>10

\* A row of the output: its key comes first.
LEMMA RowIs ==
    ASSUME NEW S, NEW cfg, cfg.field1 \in Nat, cfg.field2 \in Nat, NEW x \in Seq(S), NEW y \in Seq(S)
    PROVE  /\ format_output(cfg, x, y) \in Seq(Seq(S))
           /\ format_output(cfg, x, y)[1] = IF x = <<>> /\ y # <<>> THEN split_line(y, cfg.sep, cfg.field2)
                                            ELSE split_line(x, cfg.sep, cfg.field1)
<1> DEFINE key == IF x = <<>> /\ y # <<>> THEN split_line(y, cfg.sep, cfg.field2)
                  ELSE split_line(x, cfg.sep, cfg.field1)
           rest(line, n) == IF line = <<>> THEN <<>>
                            ELSE LET f == split_all_fields(line, cfg.sep)
                                 IN  SubSeq(f, n + 1, Len(f))
           p == rest(x, cfg.field1)
           q == rest(y, cfg.field2)
           R == Seq(S)
           k == <<key>>
<1>1. key \in R
  <2>1. split_line(y, cfg.sep, cfg.field2) \in R BY FieldsAgree
  <2>2. split_line(x, cfg.sep, cfg.field1) \in R BY FieldsAgree
  <2> QED BY <2>1, <2>2
<1>2. ASSUME NEW line \in Seq(S), NEW n \in Nat PROVE rest(line, n) \in Seq(R)
  <2> DEFINE f == split_all_fields(line, cfg.sep)
             m == Len(f)
  <2>1. f \in Seq(R) BY <1>2, FieldsAgree
  <2> HIDE DEF f, R
  <2>2. m \in Nat /\ \A i \in n + 1..m : f[i] \in R
    BY <2>1, LenProperties, ElementOfSeq
  <2>3. SubSeq(f, n + 1, m) \in Seq(R)
    <3> DEFINE b == n + 1
    <3>1. b \in Int /\ m \in Int /\ \A i \in b..m : f[i] \in R BY <2>2
    <3> HIDE DEF b, m
    <3>2. SubSeq(f, b, m) \in Seq(R) BY <3>1, SubSeqProperties
    <3> QED BY <3>2 DEF b
  <2>4. <<>> \in Seq(R) BY EmptySeq
  <2> QED BY <2>3, <2>4 DEF f
<1>3. p \in Seq(R) /\ q \in Seq(R)
  <2> HIDE DEF rest, R
  <2> QED BY <1>2
<1>4. format_output(cfg, x, y) = (k \o p) \o q BY DEF format_output
<1>5. k \in Seq(R) /\ Len(k) = 1 /\ k[1] = key
  <2> HIDE DEF R, key
  <2> QED BY <1>1
<1> HIDE DEF k, p, q, R, rest
<1>6. k \o p \in Seq(R) /\ Len(k \o p) = 1 + Len(p) /\ (k \o p)[1] = k[1]
  <2>1. Len(p) \in Nat /\ Len(k) \in Nat BY <1>3, <1>5, LenProperties
  <2>2. k \o p \in Seq(R) /\ Len(k \o p) = Len(k) + Len(p) /\ \A i \in 1..Len(k) + Len(p) : (k \o p)[i] = IF i <= Len(k) THEN k[i] ELSE p[i - Len(k)]
    BY <1>3, <1>5, ConcatProperties
  <2>3. 1 \in 1..Len(k) + Len(p) /\ 1 <= Len(k) BY <1>5, <2>1
  <2> QED BY <1>5, <2>2, <2>3
<1> DEFINE kp == k \o p
<1> HIDE DEF kp
<1>7. kp \o q \in Seq(R) /\ (kp \o q)[1] = kp[1]
  <2>1. Len(p) \in Nat /\ Len(q) \in Nat /\ kp \in Seq(R) /\ Len(kp) = 1 + Len(p)
    BY <1>3, <1>6, LenProperties DEF kp
  <2>2. kp \o q \in Seq(R) /\ \A i \in 1..Len(kp) + Len(q) : (kp \o q)[i] = IF i <= Len(kp) THEN kp[i] ELSE q[i - Len(kp)]
    BY <1>3, <2>1, ConcatProperties
  <2>3. 1 \in 1..Len(kp) + Len(q) /\ 1 <= Len(kp) BY <2>1
  <2> QED BY <2>2, <2>3
<1> QED BY <1>4, <1>5, <1>6, <1>7 DEF kp, R

\* The pairs with a first element.
RowPairs(i, J) == {i} \X J

\* They are as many as there are second elements.
LEMMA RowPairsCount ==
    ASSUME NEW J, IsFiniteSet(J), NEW i
    PROVE  /\ IsFiniteSet(RowPairs(i, J))
           /\ Cardinality(RowPairs(i, J)) = Cardinality(J)
<1> DEFINE T == RowPairs(i, J)
           f == [j \in J |-> <<i, j>>]
<1>1. f \in [J -> T] BY DEF RowPairs
<1>2. \A x, y \in J : f[x] = f[y] => x = y OBVIOUS
<1>3. \A t \in T : \E j \in J : f[j] = t BY DEF RowPairs
<1> HIDE DEF f, T
<1>4. f \in Bijection(J, T)
  <2>1. DOMAIN f = J BY <1>1
  <2> QED
    BY <1>1, <1>2, <1>3, <2>1 DEF Bijection, Injection, Surjection, IsInjective
<1>5. ExistsBijection(J, T) BY <1>4 DEF ExistsBijection
<1> QED BY <1>5, FS_Bijection DEF T

\* As many as are in the set, when they are printed.
Counted(set, on) == IF on THEN Cardinality(set) ELSE 0

\* A row for each pair, and one for each line that is in none.
JoinRows(J, s, show, alone) ==
    \A i \in 1..Len(s) : Len(s[i]) = IF J[i] # {} THEN (IF show THEN Cardinality(J[i]) ELSE 0)
                                     ELSE (IF alone THEN 1 ELSE 0)

\* The pairs and the single lines of the first n lines.
PairsUpTo(J, n, m) == {p \in (1..n) \X (1..m) : p[2] \in J[p[1]]}
AloneUpTo(J, n) == {i \in 1..n : J[i] = {}}

\* Two counts, each taken or left out, grow together.
Tallied(p, q, show, alone) == (IF show THEN p ELSE 0) + (IF alone THEN q ELSE 0)

LEMMA TwoTallies ==
    ASSUME NEW p \in Nat, NEW q \in Nat, NEW j \in Nat, NEW k \in Nat, NEW show, NEW alone,
           NEW u, NEW v, u = p + j, v = q + k
    PROVE  Tallied(u, v, show, alone) = Tallied(p, q, show, alone) + Tallied(j, k, show, alone)
<1>1. CASE show BY <1>1 DEF Tallied
<1>2. CASE ~show BY <1>2 DEF Tallied
<1> QED BY <1>1, <1>2

\* One line more has its own pairs, or is alone.
LEMMA RowsGrow ==
    ASSUME NEW n \in Nat, NEW z \in Nat, NEW m \in Nat, NEW J \in [1..z -> SUBSET (1..m)], n + 1 <= z,
           IsFiniteSet(PairsUpTo(J, n, m)), IsFiniteSet(AloneUpTo(J, n))
    PROVE  /\ IsFiniteSet(PairsUpTo(J, n + 1, m)) /\ IsFiniteSet(AloneUpTo(J, n + 1))
           /\ Cardinality(PairsUpTo(J, n, m)) \in Nat /\ Cardinality(AloneUpTo(J, n)) \in Nat
           /\ Cardinality(J[n + 1]) \in Nat /\ (J[n + 1] = {} => Cardinality(J[n + 1]) = 0)
           /\ Cardinality(PairsUpTo(J, n + 1, m)) = Cardinality(PairsUpTo(J, n, m)) + Cardinality(J[n + 1])
           /\ Cardinality(AloneUpTo(J, n + 1)) = Cardinality(AloneUpTo(J, n)) + (IF J[n + 1] = {} THEN 1 ELSE 0)
<1> DEFINE P == PairsUpTo(J, n, m)
           A == AloneUpTo(J, n)
           K == J[n + 1]
           Q == RowPairs(n + 1, K)
<1>1. n + 1 \in 1..z /\ K \subseteq 1..m OBVIOUS
<1>2. IsFiniteSet(K) /\ Cardinality(K) \in Nat
  <2>1. IsFiniteSet(1..m) BY FS_Interval
  <2> QED BY <1>1, <2>1, FS_Subset, FS_CardinalityType
<1>3. PairsUpTo(J, n + 1, m) = P \cup Q
  <2>1. \A i : i \in 1..n + 1 <=> i \in 1..n \/ i = n + 1 OBVIOUS
  <2>2. \A p : p \in PairsUpTo(J, n + 1, m) <=> p \in (1..n + 1) \X (1..m) /\ p[2] \in J[p[1]]
    BY DEF PairsUpTo
  <2>3. \A p : p \in P <=> p \in (1..n) \X (1..m) /\ p[2] \in J[p[1]]
    BY DEF PairsUpTo
  <2>4. \A p : p \in Q <=> p = <<p[1], p[2]>> /\ p[1] = n + 1 /\ p[2] \in K
    BY DEF RowPairs
  <2>5. \A p, k : p \in (1..k) \X (1..m) <=> p = <<p[1], p[2]>> /\ p[1] \in 1..k /\ p[2] \in 1..m
    OBVIOUS
  <2>6. ASSUME NEW p PROVE p \in PairsUpTo(J, n + 1, m) <=> p \in P \/ p \in Q
    <3>1. CASE p[1] = n + 1
      <4>1. p[1] \notin 1..n /\ p[1] \in 1..n + 1 /\ J[p[1]] = K BY <3>1
      <4> HIDE DEF P, Q, K
      <4> QED BY <1>1, <2>2, <2>3, <2>4, <2>5, <3>1, <4>1
    <3>2. CASE p[1] # n + 1
      <4>1. p[1] \in 1..n + 1 <=> p[1] \in 1..n BY <3>2, <2>1
      <4> HIDE DEF P, Q, K
      <4> QED BY <2>2, <2>3, <2>4, <2>5, <3>2, <4>1
    <3> QED BY <3>1, <3>2
  <2> HIDE DEF P, Q
  <2> QED BY <2>6
<1>4. P \cap Q = {}
  <2> SUFFICES ASSUME NEW p, p \in P, p \in Q PROVE FALSE OBVIOUS
  <2>1. p[1] \in 1..n BY DEF PairsUpTo
  <2>2. p[1] = n + 1 BY DEF RowPairs
  <2> QED BY <2>1, <2>2
<1>5. AloneUpTo(J, n + 1) = IF K = {} THEN A \cup {n + 1} ELSE A
  BY DEF AloneUpTo
<1>6. n + 1 \notin A BY DEF AloneUpTo
<1>7. IsFiniteSet(Q) /\ Cardinality(Q) = Cardinality(K)
  <2> HIDE DEF K
  <2> QED BY <1>2, RowPairsCount
<1> HIDE DEF P, A, K, Q
<1>8. IsFiniteSet(P) /\ IsFiniteSet(A) /\ Cardinality(P) \in Nat /\ Cardinality(A) \in Nat
  <2>1. IsFiniteSet(P) /\ IsFiniteSet(A) BY DEF P, A
  <2> QED BY <2>1, FS_CardinalityType
<1>9. IsFiniteSet(P \cup Q) /\ Cardinality(P \cup Q) = Cardinality(P) + Cardinality(K)
  <2>1. Cardinality(P \cup Q) = Cardinality(P) + Cardinality(Q) - Cardinality(P \cap Q) /\ IsFiniteSet(P \cup Q)
    BY <1>7, <1>8, FS_Union
  <2>2. Cardinality(P \cap Q) = 0 BY <1>4, FS_EmptySet
  <2> QED BY <1>2, <1>7, <1>8, <2>1, <2>2
<1>10. IsFiniteSet(AloneUpTo(J, n + 1))
       /\ Cardinality(AloneUpTo(J, n + 1)) = Cardinality(A) + (IF K = {} THEN 1 ELSE 0)
  <2>1. IsFiniteSet(A \cup {n + 1}) /\ Cardinality(A \cup {n + 1}) = Cardinality(A) + 1
    BY <1>6, <1>8, FS_AddElement
  <2> QED BY <1>5, <1>8, <2>1
<1>11. K = {} => Cardinality(K) = 0 BY FS_EmptySet
<1> QED BY <1>2, <1>3, <1>8, <1>9, <1>10, <1>11 DEF P, A, K

\* All the rows together.
LEMMA RowsCount ==
    ASSUME NEW R, NEW s \in Seq(Seq(R)), NEW m \in Nat, NEW J \in [1..Len(s) -> SUBSET (1..m)],
           NEW show \in BOOLEAN, NEW alone \in BOOLEAN, JoinRows(J, s, show, alone)
    PROVE  Len(FlattenSeq(s)) = Counted(PairsUpTo(J, Len(s), m), show) + Counted(AloneUpTo(J, Len(s)), alone)
<1> DEFINE z == Len(s)
           Q == Seq(R)
           F(n) == FlattenSeq(SubSeq(s, 1, n))
           T == {n \in Nat : n <= z => /\ IsFiniteSet(PairsUpTo(J, n, m)) /\ IsFiniteSet(AloneUpTo(J, n))
                                       /\ Len(F(n)) = Counted(PairsUpTo(J, n, m), show) + Counted(AloneUpTo(J, n), alone)}
<1>0. z \in Nat /\ s \in Seq(Q) /\ \A i \in 1..z : s[i] \in Q
  BY LenProperties, ElementOfSeq
<1>1. 0 \in T
  <2>1. PairsUpTo(J, 0, m) = {}
    <3>1. \A p : p \in PairsUpTo(J, 0, m) => p[1] \in 1..0
      BY DEF PairsUpTo
    <3> QED BY <3>1
  <2>2. AloneUpTo(J, 0) = {} BY DEF AloneUpTo
  <2>3. IsFiniteSet({}) /\ Cardinality({}) = 0 BY FS_EmptySet
  <2>4. Len(F(0)) = 0
    <3>1. SubSeq(s, 1, 0) = <<>> BY <1>0, Beginnings
    <3>2. FlattenSeq(<<>>) = <<>> BY FlattenEmpty
    <3> DEFINE b == SubSeq(s, 1, 0)
               e == <<>>
    <3>3. b = e /\ FlattenSeq(e) = e /\ Len(e) = 0 BY <3>1, <3>2
    <3> HIDE DEF b, e
    <3>4. Len(FlattenSeq(b)) = 0 BY <3>3
    <3> QED BY <3>4 DEF b
  <2>5. \A on \in BOOLEAN : Counted(PairsUpTo(J, 0, m), on) = 0 /\ Counted(AloneUpTo(J, 0), on) = 0
    BY <2>1, <2>2, <2>3 DEF Counted
  <2>6. IsFiniteSet(PairsUpTo(J, 0, m)) /\ IsFiniteSet(AloneUpTo(J, 0))
    BY <2>1, <2>2, <2>3
  <2>7. Counted(PairsUpTo(J, 0, m), show) = 0 /\ Counted(AloneUpTo(J, 0), alone) = 0
    BY <2>5
  <2> HIDE DEF F
  <2>8. Len(F(0)) = Counted(PairsUpTo(J, 0, m), show) + Counted(AloneUpTo(J, 0), alone)
    BY <2>4, <2>7
  <2> QED BY <2>6, <2>8
<1>2. ASSUME NEW n \in Nat, n \in T PROVE n + 1 \in T
  <2> SUFFICES ASSUME n + 1 <= z
               PROVE  /\ IsFiniteSet(PairsUpTo(J, n + 1, m)) /\ IsFiniteSet(AloneUpTo(J, n + 1))
                      /\ Len(F(n + 1)) = Counted(PairsUpTo(J, n + 1, m), show) + Counted(AloneUpTo(J, n + 1), alone)
    OBVIOUS
  <2>1. /\ IsFiniteSet(PairsUpTo(J, n, m)) /\ IsFiniteSet(AloneUpTo(J, n))
        /\ Len(F(n)) = Counted(PairsUpTo(J, n, m), show) + Counted(AloneUpTo(J, n), alone)
    BY <1>0, <1>2
  <2> DEFINE P == PairsUpTo(J, n, m)
             U == PairsUpTo(J, n + 1, m)
             A == AloneUpTo(J, n)
             B == AloneUpTo(J, n + 1)
             K == J[n + 1]
  <2>2. /\ IsFiniteSet(U) /\ IsFiniteSet(B)
        /\ Cardinality(P) \in Nat /\ Cardinality(A) \in Nat
        /\ Cardinality(K) \in Nat /\ (K = {} => Cardinality(K) = 0)
        /\ Cardinality(U) = Cardinality(P) + Cardinality(K)
        /\ Cardinality(B) = Cardinality(A) + (IF K = {} THEN 1 ELSE 0)
    BY <1>0, <2>1, RowsGrow
  <2>3. n + 1 \in 1..z /\ (n + 1) - 1 = n BY <1>0
  <2> DEFINE b == SubSeq(s, 1, n)
             x == s[n + 1]
  <2>4. b \in Seq(Q) /\ SubSeq(s, 1, n + 1) = Append(b, x) /\ x \in Q
    <3> HIDE DEF Q
    <3> QED BY <1>0, <2>3, Beginnings
  <2>5. FlattenSeq(Append(b, x)) = FlattenSeq(b) \o x
    <3> HIDE DEF b, x
    <3> QED BY <2>4, FlattenAppend
  <2>6. Len(FlattenSeq(b) \o x) = Len(FlattenSeq(b)) + Len(x)
    <3>1. FlattenSeq(b) \in Seq(R)
      <4> HIDE DEF b
      <4> QED BY <2>4, FlattenType
    <3> HIDE DEF b, x
    <3> QED BY <2>4, <3>1, ConcatProperties
  <2>7. Len(x) = IF K # {} THEN (IF show THEN Cardinality(K) ELSE 0) ELSE (IF alone THEN 1 ELSE 0)
    BY <2>3 DEF JoinRows
  <2>8. Len(F(n + 1)) = Len(F(n)) + Len(x) BY <2>4, <2>5, <2>6
  <2> HIDE DEF P, U, A, B, K, F, x
  <2>9. Len(F(n)) = (IF show THEN Cardinality(P) ELSE 0) + (IF alone THEN Cardinality(A) ELSE 0)
    BY <2>1 DEF Counted, P, A
  <2>10. Len(F(n + 1)) = (IF show THEN Cardinality(U) ELSE 0) + (IF alone THEN Cardinality(B) ELSE 0)
    <3> DEFINE e == IF K = {} THEN 1 ELSE 0
               c == Cardinality(K)
    <3>1. e \in Nat /\ c \in Nat /\ Cardinality(U) = Cardinality(P) + c /\ Cardinality(B) = Cardinality(A) + e
      BY ONLY <2>2
    <3>2. Len(x) = (IF show THEN c ELSE 0) + (IF alone THEN e ELSE 0)
      <4>1. CASE K = {} BY ONLY <2>2, <2>7, <4>1
      <4>2. CASE K # {} BY ONLY <2>2, <2>7, <4>2
      <4> QED BY <4>1, <4>2
    <3> DEFINE cp == Cardinality(P)
               ca == Cardinality(A)
               cu == Cardinality(U)
               cb == Cardinality(B)
    <3>3. e \in Nat /\ c \in Nat /\ cp \in Nat /\ ca \in Nat /\ cu = cp + c /\ cb = ca + e
      BY <2>2, <3>1
    <3>4. Len(F(n)) = Tallied(cp, ca, show, alone) /\ Len(x) = Tallied(c, e, show, alone)
      BY ONLY <2>9, <3>2 DEF Tallied, cp, ca
    <3> HIDE DEF e, c, cp, ca, cu, cb
    <3>5. Tallied(cu, cb, show, alone) = Tallied(cp, ca, show, alone) + Tallied(c, e, show, alone)
      BY ONLY <3>3, TwoTallies
    <3>6. Len(F(n + 1)) = Tallied(cu, cb, show, alone)
      BY ONLY <2>8, <3>4, <3>5
    <3> QED BY <3>6 DEF Tallied, cu, cb
  <2> QED BY <2>2, <2>10 DEF Counted, U, B
<1>3. Nat \subseteq T
  <2> HIDE DEF T
  <2> QED BY <1>1, <1>2, SetInduction
<1>4. z \in T /\ z <= z BY <1>0, <1>3
<1>5. SubSeq(s, 1, z) = s BY <1>0, Beginnings
<1> QED BY <1>4, <1>5

\* The lines of the second file with the key of a line of the first.
JoinMatches(cfg, b, x) == {j \in DOMAIN b : joinKey2(cfg, b[j]) = joinKey1(cfg, x)}

\* What join prints for a line of the first file.
JoinLine(cfg, b, x) ==
    LET pairs == file2_index(cfg, b, joinKey1(cfg, x))
    IN  IF pairs # <<>>
        THEN IF 1 \in cfg.only THEN <<>>
             ELSE [k \in DOMAIN pairs |-> format_output(cfg, x, b[pairs[k]])]
        ELSE IF 1 \in cfg.unpaired \cup cfg.only
        THEN <<format_output(cfg, x, <<>>)>> ELSE <<>>

\* And for the lines of the second file that no line matched.
JoinLeft(cfg, a, b) ==
    LET matched == UNION {ToSet(file2_index(cfg, b, joinKey1(cfg, a[i]))) : i \in DOMAIN a}
        second == IF 2 \in cfg.unpaired \cup cfg.only
                  THEN Listed(Len(b), {j \in DOMAIN b : j \notin matched}) ELSE <<>>
    IN  [k \in DOMAIN second |-> format_output(cfg, <<>>, b[second[k]])]

LEMMA JoinIs ==
    ASSUME NEW cfg, NEW a, NEW b
    PROVE  join(cfg, a, b) = FlattenSeq([i \in DOMAIN a |-> JoinLine(cfg, b, a[i])]) \o JoinLeft(cfg, a, b)
BY DEF join, JoinLine, JoinLeft

\* What join prints are rows that begin with a key of either file.
KeyRows(S, cfg, a, b) ==
    {r \in Seq(Seq(S)) : \/ \E i \in 1..Len(a) : r[1] = joinKey1(cfg, a[i])
                         \/ \E j \in 1..Len(b) : r[1] = joinKey2(cfg, b[j])}

\* No character is in no field.
LEMMA NoField ==
    ASSUME NEW sep, NEW n
    PROVE  split_line(<<>>, sep, n) = <<>>
<1> DEFINE e == <<>>
<1>1. Len(e) = 0 /\ Len(e) \in Nat BY EmptySeq
<1>2. e = <<>> OBVIOUS
<1> HIDE DEF e
<1>3. PICK h : /\ h = [k \in 0..Len(e) |-> IF k = 0 THEN [field |-> 1, gap |-> TRUE, taken |-> <<>>]
                                           ELSE LineCharacter(h[k - 1], e[k], sep, n)]
               /\ split_line(e, sep, n) = h[Len(e)].taken
  <2>1. \E h : LineStates(h, e, sep, n) /\ split_line(e, sep, n) = h[Len(e)].taken
    BY <1>1, LineCharactersAre
  <2> QED BY <2>1 DEF LineStates
<1>4. h[0] = [field |-> 1, gap |-> TRUE, taken |-> <<>>] BY <1>1, <1>3
<1>5. h[0].taken = <<>> BY <1>4
<1> QED BY <1>1, <1>2, <1>3, <1>5

\* As many rows as a line has.
JoinLineLength(cfg, b, x) ==
    IF JoinMatches(cfg, b, x) # {}
    THEN (IF 1 \notin cfg.only THEN Cardinality(JoinMatches(cfg, b, x)) ELSE 0)
    ELSE (IF 1 \in cfg.unpaired \cup cfg.only THEN 1 ELSE 0)

\* The lines of the second file that none of the first match.
Unmatched(cfg, a, b) == {j \in 1..Len(b) : \A i \in 1..Len(a) : j \notin JoinMatches(cfg, b, a[i])}

\* The rows of one line.
LEMMA JoinLineIs ==
    ASSUME NEW S, NEW cfg, cfg.field1 \in Nat, cfg.field2 \in Nat,
           NEW a \in Seq(Seq(S)), NEW b \in Seq(Seq(S)), NEW i \in 1..Len(a)
    PROVE  /\ JoinLine(cfg, b, a[i]) \in Seq(KeyRows(S, cfg, a, b))
           /\ Len(JoinLine(cfg, b, a[i])) = JoinLineLength(cfg, b, a[i])
<1> DEFINE x == a[i]
           A == JoinMatches(cfg, b, x)
           m == Len(b)
           G == KeyRows(S, cfg, a, b)
           pairs == Listed(m, A)
           row == [k \in 1..Len(pairs) |-> format_output(cfg, x, b[pairs[k]])]
<1>0. m \in Nat /\ DOMAIN b = 1..m /\ Len(a) \in Nat BY LenProperties
<1>1. x \in Seq(S) /\ \A j \in 1..m : b[j] \in Seq(S)
  <2> DEFINE Q == Seq(S)
  <2>1. a \in Seq(Q) /\ b \in Seq(Q) OBVIOUS
  <2> HIDE DEF Q
  <2>2. a[i] \in Q /\ \A j \in 1..m : b[j] \in Q BY <2>1, ElementOfSeq
  <2> QED BY <2>2 DEF Q
<1>2. A \subseteq 1..m /\ file2_index(cfg, b, joinKey1(cfg, x)) = pairs
  BY <1>0 DEF JoinMatches, file2_index
<1>3. /\ pairs \in Seq(A) /\ Len(pairs) = Cardinality(A) /\ Cardinality(A) \in Nat
      /\ pairs # <<>> <=> A # {}
  <2> HIDE DEF A
  <2> QED BY <1>0, <1>2, ListedSet
<1>4. DOMAIN pairs = 1..Len(pairs) /\ Len(pairs) \in Nat
  BY <1>3, LenProperties
<1>5. JoinLine(cfg, b, x) = IF pairs # <<>> THEN (IF 1 \in cfg.only THEN <<>> ELSE row)
                            ELSE IF 1 \in cfg.unpaired \cup cfg.only THEN <<format_output(cfg, x, <<>>)>> ELSE <<>>
  BY <1>2, <1>4 DEF JoinLine
<1>6. ASSUME NEW j \in 1..m PROVE format_output(cfg, x, b[j]) \in G
  <2> DEFINE y == b[j]
             r == format_output(cfg, x, y)
  <2>1. r \in Seq(Seq(S)) /\ r[1] = IF x = <<>> /\ y # <<>> THEN joinKey2(cfg, y) ELSE joinKey1(cfg, x)
    <3>1. cfg.field1 \in Nat /\ cfg.field2 \in Nat /\ x \in Seq(S) /\ y \in Seq(S)
      BY <1>1
    <3> HIDE DEF x, y
    <3> QED BY ONLY <3>1, RowIs DEF joinKey1, joinKey2, r
  <2> HIDE DEF r
  <2>2. r \in KeyRows(S, cfg, a, b) BY <2>1 DEF KeyRows
  <2> QED BY <2>2 DEF r
<1>7. format_output(cfg, x, <<>>) \in G
  <2> DEFINE y == <<>>
             r == format_output(cfg, x, y)
  <2>1. y \in Seq(S) /\ ~(y # <<>>) BY EmptySeq
  <2>2. r \in Seq(Seq(S)) /\ r[1] = joinKey1(cfg, x)
    <3> HIDE DEF x, y
    <3>1. r[1] = IF x = <<>> /\ y # <<>> THEN joinKey2(cfg, y) ELSE joinKey1(cfg, x)
      BY <1>1, <2>1, RowIs DEF joinKey1, joinKey2
    <3>2. r \in Seq(Seq(S)) BY <1>1, <2>1, RowIs
    <3> QED BY <2>1, <3>1, <3>2
  <2> HIDE DEF r
  <2>3. r \in KeyRows(S, cfg, a, b) BY <2>2 DEF KeyRows
  <2> QED BY <2>3 DEF r
<1>8. row \in Seq(G) /\ Len(row) = Cardinality(A)
  <2>1. \A k \in 1..Len(pairs) : pairs[k] \in 1..m
    BY <1>2, <1>3, ElementOfSeq
  <2> HIDE DEF G, x, pairs
  <2> DEFINE z == Len(pairs)
  <2>2. z \in Nat /\ row = [k \in 1..z |-> row[k]] /\ \A k \in 1..z : row[k] \in G
    BY <1>4, <1>6, <2>1
  <2> HIDE DEF row, z
  <2>3. row \in Seq(G) /\ Len(row) = z BY ONLY <2>2, SeqOfFunction
  <2> QED BY <1>3, <2>3 DEF z
<1> DEFINE r == format_output(cfg, x, <<>>)
<1> HIDE DEF G, row, A, pairs, r
<1>9. <<r>> \in Seq(G) /\ Len(<<r>>) = 1 /\ <<>> \in Seq(G) /\ Len(<<>>) = 0
  BY <1>7, EmptySeq DEF r
<1>10. JoinLine(cfg, b, x) \in Seq(G)
       /\ Len(JoinLine(cfg, b, x)) = IF A # {} THEN (IF 1 \notin cfg.only THEN Cardinality(A) ELSE 0)
                                     ELSE (IF 1 \in cfg.unpaired \cup cfg.only THEN 1 ELSE 0)
  <2>0. JoinLine(cfg, b, x) = IF A # {} THEN (IF 1 \in cfg.only THEN <<>> ELSE row)
                            ELSE IF 1 \in cfg.unpaired \cup cfg.only THEN <<r>> ELSE <<>>
    BY <1>3, <1>5 DEF r
  <2>1. CASE A # {} /\ 1 \in cfg.only BY <2>0, <2>1, <1>9
  <2>2. CASE A # {} /\ 1 \notin cfg.only BY <2>0, <2>2, <1>8
  <2>3. CASE A = {} /\ 1 \in cfg.unpaired \cup cfg.only
    <3>1. JoinLine(cfg, b, x) = <<r>> BY <2>0, <2>3
    <3> QED BY <2>3, <3>1, <1>9
  <2>4. CASE A = {} /\ 1 \notin cfg.unpaired \cup cfg.only
    <3>1. JoinLine(cfg, b, x) = <<>> BY <2>0, <2>4
    <3> QED BY <2>4, <3>1, <1>9
  <2> QED BY <2>1, <2>2, <2>3, <2>4
<1> QED BY <1>10 DEF A, G, JoinLineLength

\* The rows of the lines that are left.
LEMMA JoinLeftIs ==
    ASSUME NEW S, NEW cfg, cfg.field1 \in Nat, cfg.field2 \in Nat,
           NEW a \in Seq(Seq(S)), NEW b \in Seq(Seq(S))
    PROVE  /\ JoinLeft(cfg, a, b) \in Seq(KeyRows(S, cfg, a, b))
           /\ Len(JoinLeft(cfg, a, b)) = Counted(Unmatched(cfg, a, b), 2 \in cfg.unpaired \cup cfg.only)
<1> DEFINE A == {j \in 1..Len(b) : \A i \in 1..Len(a) : j \notin JoinMatches(cfg, b, a[i])}
           m == Len(b)
           G == KeyRows(S, cfg, a, b)
           on == 2 \in cfg.unpaired \cup cfg.only
           left == IF on THEN Listed(m, A) ELSE <<>>
           row == [k \in 1..Len(left) |-> format_output(cfg, <<>>, b[left[k]])]
<1>0. m \in Nat /\ DOMAIN b = 1..m /\ Len(a) \in Nat /\ DOMAIN a = 1..Len(a)
  BY LenProperties
<1>1. \A j \in 1..m : b[j] \in Seq(S)
  <2> DEFINE Q == Seq(S)
  <2>1. b \in Seq(Q) OBVIOUS
  <2> HIDE DEF Q
  <2>2. \A j \in 1..m : b[j] \in Q BY <2>1, ElementOfSeq
  <2> QED BY <2>2 DEF Q
<1>2. {j \in DOMAIN b : j \notin UNION {ToSet(file2_index(cfg, b, joinKey1(cfg, a[i]))) : i \in DOMAIN a}} = A
  <2>1. ASSUME NEW i \in DOMAIN a PROVE ToSet(file2_index(cfg, b, joinKey1(cfg, a[i]))) = JoinMatches(cfg, b, a[i])
    <3> DEFINE M == JoinMatches(cfg, b, a[i])
    <3>1. M \subseteq 1..m /\ file2_index(cfg, b, joinKey1(cfg, a[i])) = Listed(m, M)
      BY <1>0 DEF JoinMatches, file2_index
    <3> HIDE DEF M
    <3>2. ToSet(Listed(m, M)) = M BY <1>0, <3>1, ListedSet
    <3> QED BY <3>1, <3>2 DEF M
  <2> QED BY <1>0, <2>1
<1>3. A \subseteq 1..m OBVIOUS
<1> HIDE DEF A
<1>4. /\ Listed(m, A) \in Seq(A) /\ Len(Listed(m, A)) = Cardinality(A)
  BY <1>0, <1>3, ListedSet
<1>5. left \in Seq(A) /\ Len(left) = Counted(A, on)
  <2>1. <<>> \in Seq(A) /\ Len(<<>>) = 0 BY EmptySeq
  <2>2. CASE on BY <1>4, <2>2 DEF Counted
  <2>3. CASE ~on
    <3>1. left = <<>> BY <2>3
    <3> QED BY <2>1, <2>3, <3>1 DEF Counted
  <2> QED BY <2>2, <2>3
<1>6. DOMAIN left = 1..Len(left) /\ Len(left) \in Nat
  BY <1>5, LenProperties
<1>7. JoinLeft(cfg, a, b) = row
  <2>1. JoinLeft(cfg, a, b) = [k \in DOMAIN left |-> format_output(cfg, <<>>, b[left[k]])]
    BY <1>2 DEF JoinLeft
  <2> QED BY <1>6, <2>1
<1>8. ASSUME NEW j \in 1..m PROVE format_output(cfg, <<>>, b[j]) \in G
  <2> DEFINE y == b[j]
             e == <<>>
             r == format_output(cfg, e, y)
  <2>1. e \in Seq(S) /\ e = <<>> /\ y \in Seq(S) BY <1>1, EmptySeq
  <2>2. split_line(e, cfg.sep, cfg.field1) = e /\ split_line(e, cfg.sep, cfg.field2) = e
    BY NoField
  <2>3. r \in Seq(Seq(S)) /\ r[1] = joinKey2(cfg, y)
    <3> HIDE DEF e, y
    <3>0. e \in Seq(S) /\ y \in Seq(S) /\ cfg.field1 \in Nat /\ cfg.field2 \in Nat
      BY <2>1
    <3>1. r[1] = IF e = <<>> /\ y # <<>> THEN joinKey2(cfg, y) ELSE split_line(e, cfg.sep, cfg.field1)
      BY ONLY <3>0, RowIs DEF joinKey2
    <3>2. r \in Seq(Seq(S)) BY ONLY <3>0, RowIs
    <3>3. y = <<>> => joinKey2(cfg, y) = e BY <2>1, <2>2 DEF joinKey2
    <3> QED BY <2>1, <2>2, <3>1, <3>2, <3>3
  <2> HIDE DEF r
  <2>4. r \in KeyRows(S, cfg, a, b) BY <2>3 DEF KeyRows
  <2> QED BY <2>4 DEF r
<1>9. row \in Seq(G) /\ Len(row) = Len(left)
  <2>1. \A k \in 1..Len(left) : left[k] \in 1..m
    BY <1>3, <1>5, ElementOfSeq
  <2> HIDE DEF G, left
  <2> DEFINE z == Len(left)
  <2>2. z \in Nat /\ row = [k \in 1..z |-> row[k]] /\ \A k \in 1..z : row[k] \in G
    BY <1>6, <1>8, <2>1
  <2> HIDE DEF row, z
  <2>3. row \in Seq(G) /\ Len(row) = z BY ONLY <2>2, SeqOfFunction
  <2> QED BY <2>3 DEF z
<1> HIDE DEF left, row
<1> QED BY <1>5, <1>7, <1>9 DEF A, Unmatched

\* The n-th field of a line, as join's keys are.
JoinField(cfg, line, n) == LET f == split_all_fields(line, cfg.sep)
                           IN  IF n \in DOMAIN f THEN f[n] ELSE <<>>
JoinFull(cfg, line) == \A k \in DOMAIN split_all_fields(line, cfg.sep) :
                         split_all_fields(line, cfg.sep)[k] # <<>>

\* What the property says of a run of join.
JoinRight(cfg, a, b, o) ==
    LET pairs == {p \in (DOMAIN a) \X (DOMAIN b) :
                    JoinField(cfg, a[p[1]], cfg.field1) = JoinField(cfg, b[p[2]], cfg.field2)}
        alone1 == {i \in DOMAIN a : \A p \in pairs : p[1] # i}
        alone2 == {j \in DOMAIN b : \A p \in pairs : p[2] # j}
        count(set, on) == IF on THEN Cardinality(set) ELSE 0
    IN  ((\A s \in ToSet(a) \cup ToSet(b) : JoinFull(cfg, s)) /\ cfg.only # {2}) =>
          /\ Len(o) = count(pairs, cfg.only = {})
                          + count(alone1, 1 \in cfg.unpaired \cup cfg.only)
                          + count(alone2, 2 \in cfg.unpaired \cup cfg.only)
          /\ \A k \in DOMAIN o :
               \/ \E s \in ToSet(a) : o[k][1] = JoinField(cfg, s, cfg.field1)
               \/ \E s \in ToSet(b) : o[k][1] = JoinField(cfg, s, cfg.field2)

\* Without empty fields the keys are the fields.
LEMMA KeysAreFields ==
    ASSUME NEW S, NEW cfg, cfg.field1 \in Nat, cfg.field2 \in Nat, NEW line \in Seq(S), JoinFull(cfg, line)
    PROVE  /\ joinKey1(cfg, line) = JoinField(cfg, line, cfg.field1)
           /\ joinKey2(cfg, line) = JoinField(cfg, line, cfg.field2)
<1> DEFINE u == split_all_fields(line, cfg.sep)
<1>1. u \in Seq(Seq(S)) /\ DOMAIN u = 1..Len(u)
  <2>1. u \in Seq(Seq(S)) BY FieldsAgree
  <2> QED BY <2>1, LenProperties
<1>2. AllFull(u) BY <1>1 DEF JoinFull, AllFull
<1>3. ASSUME NEW n \in Nat PROVE split_line(line, cfg.sep, n) = FieldOf(u, n)
  BY <1>2, <1>3, FieldsAgree
<1> QED BY <1>3 DEF joinKey1, joinKey2, JoinField, FieldOf

\* join prints the pairs, and the lines that are in none.
LEMMA JoinHolds ==
    ASSUME NEW S, NEW cfg, cfg.field1 \in Nat, cfg.field2 \in Nat, cfg.only \subseteq {1, 2},
           NEW a \in Seq(Seq(S)), NEW b \in Seq(Seq(S))
    PROVE  JoinRight(cfg, a, b, join(cfg, a, b))
<1> DEFINE o == join(cfg, a, b)
           n == Len(a)
           m == Len(b)
           pairs == {p \in (DOMAIN a) \X (DOMAIN b) :
                    JoinField(cfg, a[p[1]], cfg.field1) = JoinField(cfg, b[p[2]], cfg.field2)}
           alone1 == {i \in DOMAIN a : \A p \in pairs : p[1] # i}
           alone2 == {j \in DOMAIN b : \A p \in pairs : p[2] # j}
<1> SUFFICES ASSUME \A s \in ToSet(a) \cup ToSet(b) : JoinFull(cfg, s), cfg.only # {2}
             PROVE  /\ Len(o) = Counted(pairs, cfg.only = {})
                          + Counted(alone1, 1 \in cfg.unpaired \cup cfg.only)
                          + Counted(alone2, 2 \in cfg.unpaired \cup cfg.only)
                    /\ \A k \in DOMAIN o :
                         \/ \E s \in ToSet(a) : o[k][1] = JoinField(cfg, s, cfg.field1)
                         \/ \E s \in ToSet(b) : o[k][1] = JoinField(cfg, s, cfg.field2)
  BY DEF JoinRight, Counted
<1>0. n \in Nat /\ m \in Nat /\ DOMAIN a = 1..n /\ DOMAIN b = 1..m
  BY LenProperties
<1>1. ASSUME NEW i \in 1..n
      PROVE  a[i] \in ToSet(a) /\ a[i] \in Seq(S) /\ joinKey1(cfg, a[i]) = JoinField(cfg, a[i], cfg.field1)
  <2>1. a[i] \in ToSet(a) BY <1>0 DEF ToSet
  <2>2. a[i] \in Seq(S)
    <3> DEFINE Q == Seq(S)
    <3>1. a \in Seq(Q) OBVIOUS
    <3> HIDE DEF Q
    <3>2. a[i] \in Q BY <3>1, ElementOfSeq
    <3> QED BY <3>2 DEF Q
  <2>3. JoinFull(cfg, a[i]) BY <2>1
  <2> DEFINE x == a[i]
  <2>4. x \in Seq(S) /\ JoinFull(cfg, x) BY <2>2, <2>3
  <2> HIDE DEF x
  <2>5. joinKey1(cfg, x) = JoinField(cfg, x, cfg.field1)
    BY <2>4, KeysAreFields
  <2> QED BY <2>1, <2>2, <2>5 DEF x
<1>2. ASSUME NEW j \in 1..m
      PROVE  b[j] \in ToSet(b) /\ b[j] \in Seq(S) /\ joinKey2(cfg, b[j]) = JoinField(cfg, b[j], cfg.field2)
  <2>1. b[j] \in ToSet(b) BY <1>0 DEF ToSet
  <2>2. b[j] \in Seq(S)
    <3> DEFINE Q == Seq(S)
    <3>1. b \in Seq(Q) OBVIOUS
    <3> HIDE DEF Q
    <3>2. b[j] \in Q BY <3>1, ElementOfSeq
    <3> QED BY <3>2 DEF Q
  <2>3. JoinFull(cfg, b[j]) BY <2>1
  <2> DEFINE x == b[j]
  <2>4. x \in Seq(S) /\ JoinFull(cfg, x) BY <2>2, <2>3
  <2> HIDE DEF x
  <2>5. joinKey2(cfg, x) = JoinField(cfg, x, cfg.field2)
    BY <2>4, KeysAreFields
  <2> QED BY <2>1, <2>2, <2>5 DEF x
<1> DEFINE J == [i \in 1..n |-> JoinMatches(cfg, b, a[i])]
           G == KeyRows(S, cfg, a, b)
           lines == [i \in 1..n |-> JoinLine(cfg, b, a[i])]
           show == 1 \notin cfg.only
           alone == 1 \in cfg.unpaired \cup cfg.only
           left == JoinLeft(cfg, a, b)
<1>3. J \in [1..n -> SUBSET (1..m)] BY <1>0 DEF JoinMatches
<1>4. ASSUME NEW i \in 1..n, NEW j \in 1..m
      PROVE  j \in J[i] <=> JoinField(cfg, a[i], cfg.field1) = JoinField(cfg, b[j], cfg.field2)
  <2>1. j \in J[i] <=> joinKey2(cfg, b[j]) = joinKey1(cfg, a[i])
    BY <1>0 DEF JoinMatches
  <2> QED BY <1>1, <1>2, <2>1
<1>5. pairs = PairsUpTo(J, n, m)
  <2> HIDE DEF J
  <2> QED BY <1>0, <1>4 DEF PairsUpTo
<1>6. alone1 = AloneUpTo(J, n)
  <2> HIDE DEF J, pairs
  <2>1. ASSUME NEW i \in 1..n PROVE (\A p \in pairs : p[1] # i) <=> J[i] = {}
    <3>1. ASSUME NEW p \in pairs, p[1] = i PROVE J[i] # {}
      BY <1>5, <3>1 DEF PairsUpTo
    <3>2. ASSUME NEW j \in J[i] PROVE \E p \in pairs : p[1] = i
      <4>1. j \in 1..m BY <1>3
      <4>2. <<i, j>> \in pairs BY <1>5, <4>1 DEF PairsUpTo
      <4> QED BY <4>2
    <3> QED BY <3>1, <3>2
  <2> QED BY <1>0, <2>1 DEF AloneUpTo
<1>7. alone2 = Unmatched(cfg, a, b)
  <2>0. \A i \in 1..n : J[i] = JoinMatches(cfg, b, a[i]) OBVIOUS
  <2> HIDE DEF J, pairs
  <2>1. ASSUME NEW j \in 1..m PROVE (\A p \in pairs : p[2] # j) <=> \A i \in 1..n : j \notin J[i]
    <3>1. ASSUME NEW p \in pairs, p[2] = j PROVE \E i \in 1..n : j \in J[i]
      BY <1>5, <3>1 DEF PairsUpTo
    <3>2. ASSUME NEW i \in 1..n, j \in J[i] PROVE \E p \in pairs : p[2] = j
      <4>1. <<i, j>> \in pairs BY <1>5, <3>2 DEF PairsUpTo
      <4> QED BY <4>1
    <3> QED BY <3>1, <3>2
  <2>2. ASSUME NEW j \in 1..m
        PROVE  (\A p \in pairs : p[2] # j) <=> \A i \in 1..n : j \notin JoinMatches(cfg, b, a[i])
    <3> DEFINE X == \A p \in pairs : p[2] # j
    <3>1. X <=> \A i \in 1..n : j \notin J[i] BY <2>1, <2>2
    <3>2. ASSUME NEW i \in 1..n PROVE j \in J[i] <=> j \in JoinMatches(cfg, b, a[i])
      <4>1. J[i] = JoinMatches(cfg, b, a[i]) BY <2>0, <3>2
      <4> QED BY ONLY <4>1
    <3> HIDE DEF X
    <3>3. X <=> \A i \in 1..n : j \notin JoinMatches(cfg, b, a[i])
      BY ONLY <3>1, <3>2
    <3> QED BY <3>3 DEF X
  <2> QED BY <1>0, <2>2 DEF Unmatched
<1>8. show <=> cfg.only = {} OBVIOUS
<1>9. ASSUME NEW i \in 1..n
      PROVE  /\ lines[i] \in Seq(G)
             /\ Len(lines[i]) = IF J[i] # {} THEN (IF show THEN Cardinality(J[i]) ELSE 0) ELSE (IF alone THEN 1 ELSE 0)
  <2> HIDE DEF G
  <2>1. JoinLine(cfg, b, a[i]) \in Seq(G) BY JoinLineIs DEF G
  <2>2. Len(JoinLine(cfg, b, a[i])) = JoinLineLength(cfg, b, a[i])
    BY JoinLineIs
  <2> QED BY <2>1, <2>2 DEF JoinLineLength
<1>10. left \in Seq(G) /\ Len(left) = Counted(alone2, 2 \in cfg.unpaired \cup cfg.only)
  <2>1. left \in Seq(G) BY JoinLeftIs
  <2>2. Len(left) = Counted(Unmatched(cfg, a, b), 2 \in cfg.unpaired \cup cfg.only)
    BY JoinLeftIs
  <2> HIDE DEF left, alone2
  <2> QED BY <1>7, <2>1, <2>2
<1>11. o = FlattenSeq(lines) \o left BY <1>0, JoinIs
<1>12. lines = [i \in 1..n |-> lines[i]] OBVIOUS
<1> HIDE DEF J, G, lines, left, pairs, alone1, alone2, o
<1>13. lines \in Seq(Seq(G)) /\ Len(lines) = n
  <2> DEFINE Q == Seq(G)
  <2>1. \A i \in 1..n : lines[i] \in Q BY <1>9
  <2> HIDE DEF Q
  <2>2. lines \in Seq(Q) /\ Len(lines) = n
    <3> DEFINE z == n
    <3>1. z \in Nat /\ lines = [i \in 1..z |-> lines[i]] /\ \A i \in 1..z : lines[i] \in Q
      BY <1>0, <1>12, <2>1
    <3> HIDE DEF z
    <3> QED BY ONLY <3>1, SeqOfFunction DEF z
  <2> QED BY <2>2 DEF Q
<1>14. Len(FlattenSeq(lines)) = Counted(PairsUpTo(J, n, m), show) + Counted(AloneUpTo(J, n), alone)
  <2> DEFINE z == Len(lines)
  <2>1. JoinRows(J, lines, show, alone) BY <1>9, <1>13 DEF JoinRows
  <2> HIDE DEF show, alone
  <2>2. J \in [1..Len(lines) -> SUBSET (1..m)] /\ m \in Nat /\ show \in BOOLEAN /\ alone \in BOOLEAN
    BY <1>0, <1>3, <1>13 DEF show, alone
  <2>4. lines \in Seq(Seq(G)) BY <1>13
  <2> HIDE DEF m
  <2>3. Len(FlattenSeq(lines)) = Counted(PairsUpTo(J, Len(lines), m), show) + Counted(AloneUpTo(J, Len(lines)), alone)
    BY ONLY <2>1, <2>2, <2>4, RowsCount
  <2> QED BY <1>13, <2>3
<1>15. FlattenSeq(lines) \in Seq(G) BY <1>13, FlattenType
<1>16. o \in Seq(G) /\ Len(o) = Len(FlattenSeq(lines)) + Len(left)
  <2> DEFINE p == FlattenSeq(lines)
  <2>1. p \in Seq(G) /\ left \in Seq(G) /\ o = p \o left
    BY <1>10, <1>11, <1>15
  <2> HIDE DEF p
  <2>2. p \o left \in Seq(G) /\ Len(p \o left) = Len(p) + Len(left)
    BY ONLY <2>1, ConcatElements
  <2> QED BY <2>1, <2>2 DEF p
<1>17. ASSUME NEW k \in DOMAIN o
       PROVE  \/ \E s \in ToSet(a) : o[k][1] = JoinField(cfg, s, cfg.field1)
              \/ \E s \in ToSet(b) : o[k][1] = JoinField(cfg, s, cfg.field2)
  <2>1. o[k] \in G BY <1>16, ElementOfSeq, LenProperties
  <2>2. \/ \E i \in 1..n : o[k][1] = joinKey1(cfg, a[i])
        \/ \E j \in 1..m : o[k][1] = joinKey2(cfg, b[j])
    BY <2>1 DEF G, KeyRows
  <2> QED BY <1>1, <1>2, <2>2
<1>18. Len(o) = Counted(pairs, cfg.only = {}) + Counted(alone1, alone) + Counted(alone2, 2 \in cfg.unpaired \cup cfg.only)
  <2>1. Len(o) = (Counted(PairsUpTo(J, n, m), show) + Counted(AloneUpTo(J, n), alone)) + Len(left)
    BY <1>14, <1>16
  <2>2. Counted(pairs, cfg.only = {}) = Counted(PairsUpTo(J, n, m), show)
    BY <1>5, <1>8 DEF Counted
  <2>3. Counted(alone1, alone) = Counted(AloneUpTo(J, n), alone) BY <1>6
  <2> QED BY <1>10, <2>1, <2>2, <2>3
<1> QED BY <1>17, <1>18

\* The lines of a file that are selected.
Hits(cfg, lines) ==
    LET set == {i \in DOMAIN lines : lines[i] # cfg.invert}
    IN  IF cfg.max < 0 THEN set ELSE FirstOf(set, IF cfg.max = 0 THEN 1 ELSE cfg.max)

\* The lines that match, as many as -m leaves, in their order.
LEMMA MatchesAre ==
    ASSUME NEW cfg, cfg.max \in Int, NEW lines \in Seq(BOOLEAN)
    PROVE  /\ Hits(cfg, lines) \subseteq 1..Len(lines)
           /\ match_indices(cfg, lines) = Listed(Len(lines), Hits(cfg, lines))
           /\ match_indices(cfg, lines) \in Seq(1..Len(lines))
           /\ Len(match_indices(cfg, lines)) = Cardinality(Hits(cfg, lines))
           /\ IsFiniteSet(Hits(cfg, lines))
<1> DEFINE n == Len(lines)
           S == 1..n
           A == {i \in DOMAIN lines : lines[i] # cfg.invert}
           H == Hits(cfg, lines)
           q == IF cfg.max = 0 THEN 1 ELSE cfg.max
           all == Listed(n, A)
           s == [i \in 1..n |-> i]
<1>1. n \in Nat /\ DOMAIN lines = 1..n BY LenProperties
<1>2. A \subseteq 1..n BY <1>1
<1>3. H = IF cfg.max < 0 THEN A ELSE FirstOf(A, q) BY DEF Hits
<1>4. match_indices(cfg, lines) = IF cfg.max >= 0 /\ Len(all) > cfg.max THEN SubSeq(all, 1, q) ELSE all
  BY DEF match_indices
<1>5. s \in Seq(S) /\ Len(s) = n BY <1>1, ListedIs
<1>6. H \subseteq 1..n
  <2> HIDE DEF A, H
  <2> QED BY <1>2, <1>3 DEF FirstOf
<1>7. ASSUME NEW D, D \subseteq 1..n
      PROVE  Listed(n, D) \in Seq(S) /\ Len(Listed(n, D)) = Cardinality(D) /\ IsFiniteSet(D) /\ Cardinality(D) \in Nat
  <2>1. Listed(n, D) = Those(s, D) BY DEF Listed
  <2> HIDE DEF s, S
  <2> QED BY <1>5, <1>7, <2>1, ThoseLength
<1>8. match_indices(cfg, lines) = Listed(n, H)
  <2> HIDE DEF A, H, n
  <2>1. Len(all) = Cardinality(A) /\ Cardinality(A) \in Nat
    BY <1>2, <1>7
  <2> HIDE DEF all
  <2>2. CASE cfg.max < 0 BY <1>3, <1>4, <2>2 DEF all
  <2>3. CASE cfg.max >= 0 /\ Cardinality(A) > cfg.max
    <3>1. q \in Nat /\ q <= Cardinality(A) BY <2>1, <2>3
    <3> HIDE DEF q
    <3>2. SubSeq(Listed(n, A), 1, q) = Listed(n, FirstOf(A, q))
      BY <1>1, <1>2, <3>1, ListedFirst
    <3>3. H = FirstOf(A, q) BY <1>3, <2>3
    <3>4. match_indices(cfg, lines) = SubSeq(all, 1, q)
      BY <1>4, <2>1, <2>3
    <3> QED BY <3>2, <3>3, <3>4 DEF all
  <2>4. CASE cfg.max >= 0 /\ ~(Cardinality(A) > cfg.max)
    <3>1. q \in Nat /\ Cardinality(A) <= q BY <2>1, <2>4
    <3> HIDE DEF q
    <3>2. FirstOf(A, q) = A BY <1>1, <1>2, <3>1, FirstOfIs
    <3> QED BY <1>3, <1>4, <2>1, <2>4, <3>2 DEF all
  <2> QED BY <2>2, <2>3, <2>4
<1> HIDE DEF H, A, S
<1>9. Listed(n, H) \in Seq(S) /\ Len(Listed(n, H)) = Cardinality(H) /\ IsFiniteSet(H)
  BY <1>6, <1>7
<1> QED BY <1>6, <1>8, <1>9 DEF H, S

\* No range is empty.
Filled(m) == \A k \in 1..Len(m) : m[k].first <= m[k].last

\* One range more is at the end, or part of the last one, as cut's ranges are.
LEMMA MergeIntoIs ==
    ASSUME NEW m, Apart(m), Filled(m), NEW r \in CutRange, r.first <= r.last,
           Len(m) > 0 => m[Len(m)].first <= r.first
    PROVE  LET t == MergeInto(m, r)
           IN  /\ Apart(t) /\ Filled(t) /\ Len(t) > 0 /\ t[Len(t)].first <= r.first
               /\ \A i : is_selected(i, t) <=> is_selected(i, m) \/ i \in r.first..r.last
<1> DEFINE cfg == [wraps |-> FALSE]
           t == MergeInto(m, r)
           n == Len(m)
<1>0. \A x : Next1(cfg, x) = x + 1 BY DEF Next1
<1> HIDE DEF cfg
<1>1. t = MergeRange(cfg, m, r) BY <1>0 DEF MergeInto, MergeRange
<1>2. /\ Apart(t) /\ Len(t) > 0 /\ t[Len(t)].first <= r.first
      /\ \A i : is_selected(i, t) <=> is_selected(i, m) \/ i \in r.first..r.last
  <2>1. Len(m) > 0 => /\ m[Len(m)].first <= r.first
                      /\ Next1(cfg, m[Len(m)].last) = m[Len(m)].last + 1
    BY <1>0
  <2> HIDE DEF t
  <2> QED BY <1>1, <2>1, MergeRangeIs
<1>3. m \in Seq(CutRange) /\ n \in Nat /\ \A k \in 1..n : m[k] \in CutRange
  BY LenProperties, ElementOfSeq DEF Apart
<1>4. CASE n = 0 \/ r.first > m[n].last + 1
  <2>1. t = Append(m, r) BY <1>4 DEF MergeInto
  <2>2. /\ Len(Append(m, r)) = n + 1 /\ Append(m, r)[n + 1] = r
        /\ \A k \in 1..n : Append(m, r)[k] = m[k]
    BY <1>3, AppendFacts
  <2> HIDE DEF t, n
  <2>3. ASSUME NEW k \in 1..n + 1 PROVE t[k].first <= t[k].last
    <3>1. CASE k = n + 1 BY <2>1, <2>2, <3>1
    <3>2. CASE k \in 1..n BY <2>1, <2>2, <3>2 DEF Filled, n
    <3> QED BY <1>3, <3>1, <3>2
  <2>4. Filled(t) BY <2>1, <2>2, <2>3 DEF Filled
  <2> QED BY <1>2, <2>4 DEF t
<1>5. CASE ~(n = 0 \/ r.first > m[n].last + 1) /\ r.last > m[n].last
  <2> DEFINE e == [first |-> m[n].first, last |-> r.last]
             u == [m EXCEPT ![n] = e]
  <2>1. t = u BY <1>5 DEF MergeInto
  <2>2. n \in 1..n /\ m # <<>>
    <3>1. n \in 1..n BY <1>3, <1>5
    <3> QED BY <1>3, <1>5, <3>1, EmptySeq
  <2>3. e.first = m[n].first /\ e.last = r.last /\ e \in [first : Nat, last : Nat]
    BY <1>3, <2>2 DEF CutRange
  <2>4. m[n].first <= m[n].last /\ m[n].last \in Nat /\ m[n].first \in Nat /\ r.last \in Nat
    BY <1>3, <2>2 DEF CutRange, Filled
  <2>5. e.first <= e.last
    <3> DEFINE a == m[n].first
               b == m[n].last
               c == r.last
    <3>1. a \in Nat /\ b \in Nat /\ c \in Nat /\ a <= b /\ c > b
      BY <1>5, <2>4
    <3> HIDE DEF a, b, c
    <3>2. a <= c BY <3>1
    <3> QED BY <2>3, <3>2 DEF a, c
  <2>6. Len(u) = n /\ u[n] = e /\ \A k \in 1..n - 1 : u[k] = m[k]
    <3> DEFINE S == [first : Nat, last : Nat]
    <3>1. m \in Seq(S) /\ e \in S
      <4>1. \A k \in 1..n : m[k] \in S BY <1>3 DEF CutRange
      <4>2. m = [k \in 1..n |-> m[k]] BY <1>3
      <4> HIDE DEF S, n, e
      <4>3. e \in S BY <2>3 DEF S
      <4> QED BY <1>3, <4>1, <4>2, <4>3, SeqOfFunction
    <3> HIDE DEF S, e
    <3> QED BY <2>2, <3>1, SetLastFacts
  <2> HIDE DEF t, u, e, n
  <2>7. ASSUME NEW k \in 1..n PROVE u[k].first <= u[k].last
    <3>1. CASE k = n BY <2>5, <2>6, <3>1
    <3>2. CASE k \in 1..n - 1
      <4>1. k \in 1..n BY <1>3, <3>2
      <4> QED BY <2>6, <3>2, <4>1 DEF Filled, n
    <3> QED BY <1>3, <3>1, <3>2
  <2>8. Filled(t) BY <2>1, <2>6, <2>7 DEF Filled
  <2> QED BY <1>2, <2>8 DEF t
<1>6. CASE ~(n = 0 \/ r.first > m[n].last + 1) /\ ~(r.last > m[n].last)
  <2>1. t = m BY <1>6 DEF MergeInto
  <2> HIDE DEF t
  <2> QED BY <1>2, <2>1 DEF t
<1> QED BY <1>4, <1>5, <1>6

\* The ranges merged so far.
ContextMerging(h, ranges) ==
    h = [k \in 0..Len(ranges) |-> IF k = 0 THEN <<>> ELSE MergeInto(h[k - 1], ranges[k])]

\* grep's ranges are merged one after the other.
LEMMA MergedIs ==
    ASSUME NEW ranges, Len(ranges) \in Nat
    PROVE  \E h : ContextMerging(h, ranges) /\ merged(ranges) = h[Len(ranges)]
<1> DEFINE v == <<>>
           G(s, k) == MergeInto(s, ranges[k])
           T == {m \in Nat : \E h : h = [k \in 0..m |-> IF k = 0 THEN v ELSE G(h[k - 1], k)]}
<1> HIDE DEF v, G
<1>1. 0 \in T
  <2> DEFINE h == [k \in 0..0 |-> v]
  <2>1. h = [k \in 0..0 |-> IF k = 0 THEN v ELSE G(h[k - 1], k)] OBVIOUS
  <2> HIDE DEF h
  <2> QED BY <2>1
<1>2. ASSUME NEW m \in Nat, m \in T PROVE m + 1 \in T
  <2>1. PICK h : h = [k \in 0..m |-> IF k = 0 THEN v ELSE G(h[k - 1], k)]
    BY <1>2
  <2> DEFINE g == [k \in 0..m + 1 |-> IF k \in 0..m THEN h[k] ELSE G(h[m], k)]
  <2>2. ASSUME NEW k \in 0..m + 1 PROVE g[k] = IF k = 0 THEN v ELSE G(g[k - 1], k)
    <3>1. CASE k = 0 BY <2>1, <3>1
    <3>2. CASE k \in 1..m
      <4>1. k \in 0..m /\ k - 1 \in 0..m /\ k # 0 /\ k - 1 \in 0..m + 1
        BY <3>2
      <4>2. g[k] = h[k] /\ g[k - 1] = h[k - 1] BY <4>1
      <4> HIDE DEF g
      <4> QED BY <2>1, <4>1, <4>2
    <3>3. CASE k = m + 1
      <4>1. k \notin 0..m /\ k - 1 = m /\ m \in 0..m /\ k # 0 /\ m \in 0..m + 1
        BY <3>3
      <4>2. g[k] = G(h[m], k) /\ g[m] = h[m] BY <4>1
      <4> HIDE DEF g
      <4> QED BY <4>1, <4>2
    <3> QED BY <3>1, <3>2, <3>3
  <2>3. g = [k \in 0..m + 1 |-> IF k = 0 THEN v ELSE G(g[k - 1], k)]
    <3>1. g = [k \in 0..m + 1 |-> g[k]] OBVIOUS
    <3> HIDE DEF g
    <3> QED BY <2>2, <3>1
  <2> HIDE DEF g
  <2> QED BY <2>3
<1>3. Nat \subseteq T
  <2> HIDE DEF T
  <2> QED BY <1>1, <1>2, SetInduction
<1>4. \E h : h = [k \in 0..Len(ranges) |-> IF k = 0 THEN v ELSE G(h[k - 1], k)]
  BY <1>3
<1> DEFINE C == CHOOSE h : h = [k \in 0..Len(ranges) |-> IF k = 0 THEN <<>> ELSE MergeInto(h[k - 1], ranges[k])]
<1>5. C = [k \in 0..Len(ranges) |-> IF k = 0 THEN <<>> ELSE MergeInto(C[k - 1], ranges[k])]
  BY <1>4 DEF v, G
<1>6. merged(ranges) = C[Len(ranges)] BY DEF merged
<1> HIDE DEF C
<1> QED BY <1>5, <1>6 DEF ContextMerging

\* Ranges in their order give ranges that are apart and hold the same numbers.
LEMMA MergedHolds ==
    ASSUME NEW s \in Seq(CutRange), Filled(s),
           \A j, k \in 1..Len(s) : j <= k => s[j].first <= s[k].first
    PROVE  LET m == merged(s)
           IN  /\ Apart(m) /\ Filled(m)
               /\ \A i : is_selected(i, m) <=> is_selected(i, s)
<1> DEFINE n == Len(s)
           before(i, k) == \E j \in 1..k : i \in s[j].first..s[j].last
<1>1. n \in Nat /\ DOMAIN s = 1..n /\ \A k \in 1..n : s[k] \in CutRange
  BY LenProperties, ElementOfSeq
<1>2. PICK h : ContextMerging(h, s) /\ merged(s) = h[n]
  BY <1>1, MergedIs
<1>3. h[0] = <<>> /\ \A k \in 1..n : h[k] = MergeInto(h[k - 1], s[k])
  <2>1. ASSUME NEW k \in 0..n PROVE h[k] = IF k = 0 THEN <<>> ELSE MergeInto(h[k - 1], s[k])
    BY <1>2 DEF ContextMerging
  <2> QED BY <1>1, <2>1
<1> DEFINE Good(k) == /\ Apart(h[k]) /\ Filled(h[k])
                      /\ k > 0 => Len(h[k]) > 0 /\ h[k][Len(h[k])].first <= s[k].first
                      /\ k = 0 => Len(h[k]) = 0
                      /\ \A i : is_selected(i, h[k]) <=> before(i, k)
           T == {k \in Nat : k <= n => Good(k)}
<1>4. 0 \in T
  <2>1. Len(<<>>) = 0 /\ <<>> \in Seq(CutRange) /\ 1..0 = {} /\ DOMAIN <<>> = {}
    BY EmptySeq
  <2>2. Apart(<<>>) /\ Filled(<<>>) BY <2>1 DEF Apart, Filled
  <2>3. \A i : ~is_selected(i, <<>>) /\ ~before(i, 0)
    BY <2>1 DEF is_selected
  <2> HIDE DEF before
  <2>4. Good(0) BY <1>3, <2>1, <2>2, <2>3
  <2> HIDE DEF Good
  <2> QED BY <2>4
<1>5. ASSUME NEW k \in Nat, k \in T PROVE k + 1 \in T
  <2> SUFFICES ASSUME k + 1 <= n PROVE Good(k + 1) OBVIOUS
  <2> DEFINE l == k + 1
             m == h[k]
             r == s[l]
             t == h[l]
  <2>1. Good(k) /\ l \in 1..n /\ l - 1 = k /\ l > 0 BY <1>1, <1>5
  <2>2. t = MergeInto(m, r) /\ r \in CutRange /\ r.first <= r.last
    BY <1>1, <1>3, <2>1 DEF Filled
  <2>3. Apart(m) /\ Filled(m) BY <2>1
  <2>4. ASSUME Len(m) > 0 PROVE m[Len(m)].first <= r.first
    <3>1. k \in 1..n BY <1>1, <2>1, <2>4
    <3>2. m[Len(m)].first <= s[k].first /\ s[k].first <= r.first
      <4>1. k <= l OBVIOUS
      <4> HIDE DEF l
      <4> QED BY <2>1, <3>1, <4>1
    <3>3. Len(m) \in 1..Len(m) /\ m \in Seq(CutRange) /\ m[Len(m)] \in CutRange
      <4>1. m \in Seq(CutRange) /\ Len(m) \in Nat
        BY <2>3, LenProperties DEF Apart
      <4>2. Len(m) \in 1..Len(m) BY <2>4, <4>1
      <4> QED BY <4>1, <4>2, ElementOfSeq
    <3> DEFINE a == m[Len(m)].first
               b == s[k].first
               c == r.first
    <3>4. a \in Nat /\ b \in Nat /\ c \in Nat /\ a <= b /\ b <= c
      BY <1>1, <2>2, <3>1, <3>2, <3>3 DEF CutRange
    <3> HIDE DEF a, b, c
    <3>5. a <= c BY <3>4
    <3> QED BY <3>5 DEF a, c
  <2>5. /\ Apart(t) /\ Filled(t) /\ Len(t) > 0 /\ t[Len(t)].first <= r.first
        /\ \A i : is_selected(i, t) <=> is_selected(i, m) \/ i \in r.first..r.last
    <3> HIDE DEF m, r, t
    <3> QED BY <2>2, <2>3, <2>4, MergeIntoIs
  <2>6. ASSUME NEW i PROVE is_selected(i, t) <=> before(i, l)
    <3>1. is_selected(i, m) <=> before(i, k) BY <2>1
    <3>2. before(i, l) <=> before(i, k) \/ i \in r.first..r.last
      <4>1. \A j : j \in 1..l <=> j \in 1..k \/ j = l BY <2>1
      <4> HIDE DEF l
      <4> QED BY <4>1
    <3> QED BY <2>5, <3>1, <3>2
  <2> HIDE DEF before
  <2>7. Good(l)
    <3>1. l # 0 BY <2>1
    <3> QED BY <2>5, <2>6, <3>1
  <2> QED BY <2>7
<1>6. Good(n)
  <2>1. Nat \subseteq T
    <3> HIDE DEF T
    <3> QED BY <1>4, <1>5, SetInduction
  <2>2. n \in T /\ n <= n
    <3> HIDE DEF T
    <3> QED BY <1>1, <2>1
  <2> HIDE DEF Good
  <2> QED BY <2>2
<1>7. ASSUME NEW i PROVE before(i, n) <=> is_selected(i, s)
  BY <1>1 DEF is_selected
<1> HIDE DEF before
<1> QED BY <1>2, <1>6, <1>7

\* The lines within the context of a selected one.
NearAHit(cfg, lines) ==
    {i \in DOMAIN lines : \E h \in Hits(cfg, lines) : i \in h - cfg.before..h + cfg.after}

\* The groups of lines that grep prints with context.
Groups(cfg, lines) == merged(contextRanges(cfg, lines, match_indices(cfg, lines)))

\* They are apart, none is empty, and they hold the lines near to a selected one.
LEMMA GroupsAre ==
    ASSUME NEW cfg, cfg.max \in Int, cfg.before \in Nat, cfg.after \in Nat, NEW lines \in Seq(BOOLEAN)
    PROVE  /\ Apart(Groups(cfg, lines)) /\ Filled(Groups(cfg, lines))
           /\ \A i : is_selected(i, Groups(cfg, lines)) <=> i \in NearAHit(cfg, lines)
<1> DEFINE n == Len(lines)
           hits == match_indices(cfg, lines)
           H == Hits(cfg, lines)
           l == Len(hits)
           b == cfg.before
           a == cfg.after
           s == contextRanges(cfg, lines, hits)
           f(k) == IF hits[k] > b THEN hits[k] - b ELSE 1
           g(k) == IF hits[k] + a > n THEN n ELSE hits[k] + a
<1>0. n \in Nat /\ DOMAIN lines = 1..n /\ a \in Nat /\ b \in Nat
  BY LenProperties
<1>1. H \subseteq 1..n /\ hits = Listed(n, H) BY MatchesAre
<1>2. /\ hits \in Seq(H) /\ ToSet(hits) = H
      /\ \A j, k \in 1..l : j < k => hits[j] < hits[k]
  <2> HIDE DEF H, n, hits
  <2>1. Listed(n, H) \in Seq(H) /\ ToSet(Listed(n, H)) = H
    BY <1>0, <1>1, ListedSet
  <2>2. \A j, k \in 1..Len(Listed(n, H)) : j < k => Listed(n, H)[j] < Listed(n, H)[k]
    BY <1>0, <1>1, ListedAscends DEF Ascends
  <2> QED BY <1>1, <2>1, <2>2
<1>3. l \in Nat /\ DOMAIN hits = 1..l /\ \A k \in 1..l : hits[k] \in H /\ hits[k] \in 1..n
  BY <1>1, <1>2, LenProperties, ElementOfSeq
<1>4. s = [k \in 1..l |-> [first |-> f(k), last |-> g(k)]]
  BY <1>3 DEF contextRanges
<1> HIDE DEF n, hits, H, l, b, a, s
<1>5. ASSUME NEW k \in 1..l
      PROVE  /\ f(k) \in 1..n /\ g(k) \in 1..n /\ f(k) <= g(k)
             /\ \A i \in 1..n : i \in f(k)..g(k) <=> i \in hits[k] - b..hits[k] + a
             /\ \A i \in f(k)..g(k) : i \in 1..n
  <2> DEFINE x == hits[k]
  <2>1. x \in 1..n BY <1>3
  <2> HIDE DEF x
  <2>2. /\ f(k) = IF x > b THEN x - b ELSE 1
        /\ g(k) = IF x + a > n THEN n ELSE x + a
    BY DEF x
  <2> HIDE DEF f, g
  <2>3. f(k) \in 1..n /\ g(k) \in 1..n /\ f(k) <= x /\ x <= g(k)
    BY <1>0, <2>1, <2>2
  <2>4. f(k) <= g(k) BY <1>0, <2>1, <2>3
  <2>5. ASSUME NEW i \in 1..n PROVE i \in f(k)..g(k) <=> i \in x - b..x + a
    BY <1>0, <2>1, <2>2
  <2>6. \A i \in f(k)..g(k) : i \in 1..n BY <1>0, <2>3
  <2> QED BY <2>3, <2>4, <2>5, <2>6 DEF x
<1>6. \A k \in 1..l : s[k].first = f(k) /\ s[k].last = g(k) /\ s[k] \in CutRange
  <2> SUFFICES ASSUME NEW k \in 1..l PROVE s[k].first = f(k) /\ s[k].last = g(k) /\ s[k] \in CutRange
    OBVIOUS
  <2>1. s[k] = [first |-> f(k), last |-> g(k)] BY <1>4
  <2>2. f(k) \in Nat \ {0} /\ g(k) \in Nat /\ f(k) <= g(k) + 1
    <3>1. f(k) \in 1..n /\ g(k) \in 1..n /\ f(k) <= g(k) BY <1>5
    <3> HIDE DEF f, g
    <3> QED BY <1>0, <3>1
  <2> HIDE DEF f, g
  <2> QED BY <2>1, <2>2 DEF CutRange
<1>7. s \in Seq(CutRange) /\ Len(s) = l
  <2>1. s = [k \in 1..l |-> s[k]] /\ \A k \in 1..l : s[k] \in CutRange
    BY <1>4, <1>6
  <2> QED BY <1>3, <2>1, SeqOfFunction
<1>8. Filled(s) BY <1>5, <1>6, <1>7 DEF Filled
<1>9. ASSUME NEW j \in 1..l, NEW k \in 1..l, j <= k PROVE s[j].first <= s[k].first
  <2> DEFINE x == hits[j]
             y == hits[k]
  <2>1. x \in 1..n /\ y \in 1..n BY <1>3
  <2>2. x <= y
    <3>1. CASE j = k BY <2>1, <3>1
    <3>2. CASE j # k
      <4>1. j < k BY <1>9, <3>2
      <4>2. x < y BY <1>2, <4>1
      <4> HIDE DEF x, y
      <4> QED BY <1>0, <2>1, <4>2
    <3> QED BY <3>1, <3>2
  <2>3. f(j) = (IF x > b THEN x - b ELSE 1) /\ f(k) = (IF y > b THEN y - b ELSE 1)
    OBVIOUS
  <2> HIDE DEF x, y, f
  <2>4. f(j) <= f(k) BY <1>0, <2>1, <2>2, <2>3
  <2> QED BY <1>6, <2>4
<1>10. /\ Apart(merged(s)) /\ Filled(merged(s))
       /\ \A i : is_selected(i, merged(s)) <=> is_selected(i, s)
  <2>1. \A j, k \in 1..Len(s) : j <= k => s[j].first <= s[k].first
    BY <1>7, <1>9
  <2> QED BY <1>7, <1>8, <2>1, MergedHolds
<1>11. ASSUME NEW i PROVE is_selected(i, s) <=> i \in NearAHit(cfg, lines)
  <2>1. DOMAIN s = 1..l BY <1>4
  <2>2. i \in NearAHit(cfg, lines) <=> i \in 1..n /\ \E h \in H : i \in h - b..h + a
    BY <1>0 DEF NearAHit, H, b, a
  <2>3. is_selected(i, s) <=> \E k \in 1..l : i \in f(k)..g(k)
    BY <1>6, <2>1 DEF is_selected
  <2> HIDE DEF f, g
  <2>4. ASSUME NEW k \in 1..l, i \in f(k)..g(k) PROVE i \in 1..n /\ \E h \in H : i \in h - b..h + a
    <3>1. i \in 1..n BY <1>5, <2>4
    <3>2. i \in hits[k] - b..hits[k] + a BY <1>5, <2>4, <3>1
    <3>3. hits[k] \in H BY <1>3
    <3> QED BY <3>1, <3>2, <3>3
  <2>5. ASSUME i \in 1..n, NEW h \in H, i \in h - b..h + a PROVE \E k \in 1..l : i \in f(k)..g(k)
    <3>1. PICK k \in 1..l : h = hits[k] BY <1>2, <1>3 DEF ToSet
    <3>2. i \in f(k)..g(k) BY <1>5, <2>5, <3>1
    <3> QED BY <3>2
  <2> QED BY <2>2, <2>3, <2>4, <2>5
<1>12. Groups(cfg, lines) = merged(s) BY DEF Groups, s, hits
<1> QED BY <1>10, <1>11, <1>12

\* What grep prints.
GrepEntry == [kind : {"line", "sep", "name", "count", "binary"}, file : Nat, number : Nat, mark : {":", "-", ""}]

\* What it prints of one kind about a file.
OfKind(f, kind) == {x \in GrepEntry : x.kind = kind /\ x.file = f}

\* A line as it is printed: selected, or context.
LineOf(f, H, i) == Entry("line", f, i, IF i \in H THEN ":" ELSE "-")

\* Lines are left out between two of a file.
Leaves(x, y) == x.file = y.file /\ y.number > x.number + 1

\* A separator is where lines are left out, and with context nowhere else are any.
IsLine(s, k) == k \in DOMAIN s /\ s[k].kind = "line"
Tidy(context, s) ==
    \A k \in DOMAIN s :
      /\ s[k].kind = "sep" => IsLine(s, k - 1) /\ IsLine(s, k + 1) /\ Leaves(s[k - 1], s[k + 1])
      /\ (IsLine(s, k) /\ IsLine(s, k + 1) /\ context) => ~Leaves(s[k], s[k + 1])

\* A line as it is printed is an entry for the line.
LEMMA LineIs ==
    ASSUME NEW f \in Nat, NEW n \in Nat, NEW H
    PROVE  /\ LineOf(f, H, n) \in OfKind(f, "line") /\ LineOf(f, H, n) \in GrepEntry
           /\ LineOf(f, H, n).kind = "line" /\ LineOf(f, H, n).file = f /\ LineOf(f, H, n).number = n
           /\ LineOf(f, H, n).mark = IF n \in H THEN ":" ELSE "-"
<1>1. CASE n \in H BY <1>1 DEF LineOf, Entry, GrepEntry, OfKind
<1>2. CASE n \notin H BY <1>2 DEF LineOf, Entry, GrepEntry, OfKind
<1> QED BY <1>1, <1>2

\* The other entries are of the kinds they have to be.
LEMMA EntriesAre ==
    /\ Separator \in GrepEntry /\ Separator.kind = "sep" /\ Separator.file = 0
    /\ \A f \in Nat, n \in Nat : /\ Entry("count", f, n, "") \in OfKind(f, "count")
                                 /\ Entry("name", f, n, "") \in OfKind(f, "name")
                                 /\ Entry("binary", f, n, "") \in OfKind(f, "binary")
<1>1. Separator \in GrepEntry /\ Separator.kind = "sep" /\ Separator.file = 0
  BY DEF Separator, Entry, GrepEntry
<1>2. ASSUME NEW f \in Nat, NEW n \in Nat
      PROVE  /\ Entry("count", f, n, "") \in OfKind(f, "count")
             /\ Entry("name", f, n, "") \in OfKind(f, "name")
             /\ Entry("binary", f, n, "") \in OfKind(f, "binary")
  BY DEF Entry, GrepEntry, OfKind
<1> QED BY <1>1, <1>2

\* Between what is printed of two files nothing has to be separated.
LEMMA TidyConcat ==
    ASSUME NEW S, NEW s \in Seq(S), NEW t \in Seq(S), NEW context, Tidy(context, s), Tidy(context, t),
           (IsLine(s, Len(s)) /\ IsLine(t, 1)) => ~Leaves(s[Len(s)], t[1])
    PROVE  Tidy(context, s \o t)
<1> DEFINE w == s \o t
           n == Len(s)
           m == Len(t)
<1>1. /\ n \in Nat /\ m \in Nat /\ DOMAIN s = 1..n /\ DOMAIN t = 1..m /\ DOMAIN w = 1..n + m
      /\ \A i \in 1..n : w[i] = s[i]
      /\ \A i \in 1..m : w[n + i] = t[i]
  BY ConcatElements
<1>2. (IsLine(s, n) /\ IsLine(t, 1)) => ~Leaves(s[n], t[1]) OBVIOUS
<1> HIDE DEF w, n, m
<1>3. ASSUME NEW k \in 1..n PROVE IsLine(w, k) <=> IsLine(s, k)
  BY <1>1 DEF IsLine
<1>4. ASSUME NEW k \in 1..m PROVE IsLine(w, n + k) <=> IsLine(t, k)
  BY <1>1 DEF IsLine
<1>5. \A k : IsLine(s, k) => k \in 1..n BY <1>1 DEF IsLine
<1>6. \A k : IsLine(t, k) => k \in 1..m BY <1>1 DEF IsLine
<1>7. \A k : IsLine(w, k) => k \in 1..n + m BY <1>1 DEF IsLine
<1>8. ASSUME NEW k \in 1..n + m
      PROVE  /\ w[k].kind = "sep" => IsLine(w, k - 1) /\ IsLine(w, k + 1) /\ Leaves(w[k - 1], w[k + 1])
             /\ (IsLine(w, k) /\ IsLine(w, k + 1) /\ context) => ~Leaves(w[k], w[k + 1])
  <2>1. CASE k \in 1..n
    <3>1. /\ s[k].kind = "sep" => IsLine(s, k - 1) /\ IsLine(s, k + 1) /\ Leaves(s[k - 1], s[k + 1])
          /\ (IsLine(s, k) /\ IsLine(s, k + 1) /\ context) => ~Leaves(s[k], s[k + 1])
      BY <1>1, <2>1 DEF Tidy
    <3>2. w[k] = s[k] /\ (IsLine(w, k) <=> IsLine(s, k))
      BY <1>1, <1>3, <2>1
    <3>3. ASSUME s[k].kind = "sep"
          PROVE  IsLine(w, k - 1) /\ IsLine(w, k + 1) /\ Leaves(w[k - 1], w[k + 1])
      <4>1. k - 1 \in 1..n /\ k + 1 \in 1..n BY <1>5, <3>1, <3>3
      <4> QED BY <1>1, <1>3, <3>1, <3>3, <4>1
    <3>4. ASSUME IsLine(s, k), IsLine(w, k + 1), context PROVE ~Leaves(s[k], w[k + 1])
      <4>1. CASE k + 1 \in 1..n BY <1>1, <1>3, <3>1, <3>4, <4>1
      <4>2. CASE k + 1 \notin 1..n
        <5>1. k = n BY <1>1, <2>1, <4>2
        <5>2. 1 \in 1..m BY <1>1, <1>7, <3>4, <5>1
        <5>3. IsLine(t, 1) /\ w[n + 1] = t[1]
          BY <1>1, <1>4, <3>4, <5>1, <5>2
        <5> QED BY <1>2, <3>4, <5>1, <5>3
      <4> QED BY <4>1, <4>2
    <3> QED BY <3>2, <3>3, <3>4
  <2>2. CASE k \notin 1..n
    <3> DEFINE j == k - n
    <3>1. j \in 1..m /\ k = n + j /\ k - 1 = n + (j - 1) /\ k + 1 = n + (j + 1)
      BY <1>1, <2>2
    <3> HIDE DEF j
    <3>2. /\ t[j].kind = "sep" => IsLine(t, j - 1) /\ IsLine(t, j + 1) /\ Leaves(t[j - 1], t[j + 1])
          /\ (IsLine(t, j) /\ IsLine(t, j + 1) /\ context) => ~Leaves(t[j], t[j + 1])
      BY <1>1, <3>1 DEF Tidy
    <3>3. w[k] = t[j] /\ (IsLine(w, k) <=> IsLine(t, j))
      BY <1>1, <1>4, <3>1
    <3>4. ASSUME t[j].kind = "sep"
          PROVE  IsLine(w, k - 1) /\ IsLine(w, k + 1) /\ Leaves(w[k - 1], w[k + 1])
      <4>1. j - 1 \in 1..m /\ j + 1 \in 1..m BY <1>6, <3>2, <3>4
      <4> QED BY <1>1, <1>4, <3>1, <3>2, <3>4, <4>1
    <3>5. ASSUME IsLine(t, j), IsLine(w, k + 1), context PROVE ~Leaves(t[j], w[k + 1])
      <4>1. j + 1 \in 1..m BY <1>1, <1>7, <3>1, <3>5
      <4> QED BY <1>1, <1>4, <3>1, <3>2, <3>5, <4>1
    <3> QED BY <3>3, <3>4, <3>5
  <2> QED BY <2>1, <2>2
<1>9. Tidy(context, w) BY <1>1, <1>8 DEF Tidy
<1> QED BY <1>9 DEF w

\* A separator goes between two lines with others left out between them.
LEMMA TidySeparated ==
    ASSUME NEW s \in Seq(GrepEntry), NEW t \in Seq(GrepEntry), NEW context, Tidy(context, s), Tidy(context, t),
           IsLine(s, Len(s)), IsLine(t, 1), Leaves(s[Len(s)], t[1])
    PROVE  Tidy(context, s \o (<<Separator>> \o t))
<1> DEFINE c == <<Separator>>
           u == c \o t
           w == s \o u
           n == Len(s)
           m == Len(t)
<1>0. Separator \in GrepEntry /\ Separator.kind = "sep" BY EntriesAre
<1>1. c \in Seq(GrepEntry) /\ Len(c) = 1 /\ c[1] = Separator
  BY ONLY <1>0
<1> HIDE DEF c
<1>2. /\ u \in Seq(GrepEntry) /\ m \in Nat /\ DOMAIN t = 1..m /\ DOMAIN u = 1..1 + m /\ Len(u) = 1 + m
      /\ u[1] = Separator /\ \A i \in 1..m : u[1 + i] = t[i]
  <2>1. /\ u \in Seq(GrepEntry) /\ m \in Nat /\ DOMAIN t = 1..m /\ DOMAIN u = 1..Len(c) + m /\ Len(u) = Len(c) + m
        /\ \A i \in 1..Len(c) : u[i] = c[i]
        /\ \A i \in 1..m : u[Len(c) + i] = t[i]
    <3>1. c \in Seq(GrepEntry) /\ t \in Seq(GrepEntry) BY <1>1
    <3> QED BY ONLY <3>1, ConcatElements DEF u, m
  <2> HIDE DEF u, m
  <2> QED BY <1>1, <2>1
<1> HIDE DEF u
<1>3. /\ n \in Nat /\ DOMAIN s = 1..n /\ DOMAIN w = 1..n + Len(u)
      /\ \A i \in 1..n : w[i] = s[i]
      /\ \A i \in 1..Len(u) : w[n + i] = u[i]
  <2>1. s \in Seq(GrepEntry) /\ u \in Seq(GrepEntry) BY <1>2
  <2> QED BY ONLY <2>1, ConcatElements DEF w, n
<1> HIDE DEF w, n, m
<1>4. DOMAIN w = 1..n + 1 + m /\ w[n + 1] = Separator /\ \A i \in 1..m : w[n + 1 + i] = t[i]
  <2>1. DOMAIN w = 1..n + 1 + m /\ w[n + 1] = Separator BY <1>2, <1>3
  <2>2. ASSUME NEW i \in 1..m PROVE w[n + 1 + i] = t[i]
    <3>1. 1 + i \in 1..Len(u) /\ n + (1 + i) = n + 1 + i BY <1>2, <1>3
    <3> QED BY <1>2, <1>3, <3>1
  <2> QED BY <2>1, <2>2
<1>5. ASSUME NEW k \in 1..n PROVE IsLine(w, k) <=> IsLine(s, k)
  BY <1>2, <1>3, <1>4 DEF IsLine
<1>6. ASSUME NEW k \in 1..m PROVE IsLine(w, n + 1 + k) <=> IsLine(t, k)
  BY <1>2, <1>3, <1>4 DEF IsLine
<1>7. ~IsLine(w, n + 1) BY <1>0, <1>4 DEF IsLine
<1>8. /\ \A k : IsLine(s, k) => k \in 1..n
      /\ \A k : IsLine(t, k) => k \in 1..m
      /\ \A k : IsLine(w, k) => k \in 1..n + 1 + m
  BY <1>2, <1>3, <1>4 DEF IsLine
<1>9. IsLine(s, n) /\ IsLine(t, 1) /\ Leaves(s[n], t[1]) BY DEF n
<1>10. n \in 1..n /\ 1 \in 1..m BY <1>8, <1>9
<1>11. ASSUME NEW k \in 1..n + 1 + m
      PROVE  /\ w[k].kind = "sep" => IsLine(w, k - 1) /\ IsLine(w, k + 1) /\ Leaves(w[k - 1], w[k + 1])
             /\ (IsLine(w, k) /\ IsLine(w, k + 1) /\ context) => ~Leaves(w[k], w[k + 1])
  <2>1. CASE k \in 1..n
    <3>1. /\ s[k].kind = "sep" => IsLine(s, k - 1) /\ IsLine(s, k + 1) /\ Leaves(s[k - 1], s[k + 1])
          /\ (IsLine(s, k) /\ IsLine(s, k + 1) /\ context) => ~Leaves(s[k], s[k + 1])
      BY <1>3, <2>1 DEF Tidy
    <3>2. w[k] = s[k] /\ (IsLine(w, k) <=> IsLine(s, k))
      BY <1>3, <1>5, <2>1
    <3>3. ASSUME s[k].kind = "sep"
          PROVE  IsLine(w, k - 1) /\ IsLine(w, k + 1) /\ Leaves(w[k - 1], w[k + 1])
      <4>1. k - 1 \in 1..n /\ k + 1 \in 1..n BY <1>8, <3>1, <3>3
      <4> QED BY <1>3, <1>5, <3>1, <3>3, <4>1
    <3>4. ASSUME IsLine(s, k), IsLine(w, k + 1), context PROVE ~Leaves(s[k], w[k + 1])
      <4>1. CASE k + 1 \in 1..n BY <1>3, <1>5, <3>1, <3>4, <4>1
      <4>2. CASE k + 1 \notin 1..n
        <5>1. k = n BY <1>3, <2>1, <4>2
        <5> QED BY <1>7, <3>4, <5>1
      <4> QED BY <4>1, <4>2
    <3> QED BY <3>2, <3>3, <3>4
  <2>2. CASE k = n + 1
    <3>1. IsLine(w, n) BY <1>5, <1>9, <1>10
    <3>2. IsLine(w, n + 1 + 1) BY <1>6, <1>9, <1>10
    <3>3. w[n] = s[n] /\ w[n + 1 + 1] = t[1] BY <1>3, <1>4, <1>10
    <3>4. k - 1 = n /\ k + 1 = n + 1 + 1 BY <1>3, <2>2
    <3> QED BY <1>7, <1>9, <2>2, <3>1, <3>2, <3>3, <3>4
  <2>3. CASE k \notin 1..n /\ k # n + 1
    <3> DEFINE j == k - (n + 1)
    <3>1. j \in 1..m /\ k = n + 1 + j /\ k - 1 = n + 1 + (j - 1) /\ k + 1 = n + 1 + (j + 1)
      BY <1>2, <1>3, <2>3
    <3> HIDE DEF j
    <3>2. /\ t[j].kind = "sep" => IsLine(t, j - 1) /\ IsLine(t, j + 1) /\ Leaves(t[j - 1], t[j + 1])
          /\ (IsLine(t, j) /\ IsLine(t, j + 1) /\ context) => ~Leaves(t[j], t[j + 1])
      BY <1>2, <3>1 DEF Tidy
    <3>3. w[k] = t[j] /\ (IsLine(w, k) <=> IsLine(t, j))
      BY <1>4, <1>6, <3>1
    <3>4. ASSUME t[j].kind = "sep"
          PROVE  IsLine(w, k - 1) /\ IsLine(w, k + 1) /\ Leaves(w[k - 1], w[k + 1])
      <4>1. j - 1 \in 1..m /\ j + 1 \in 1..m BY <1>8, <3>2, <3>4
      <4> QED BY <1>4, <1>6, <3>1, <3>2, <3>4, <4>1
    <3>5. ASSUME IsLine(t, j), IsLine(w, k + 1), context PROVE ~Leaves(t[j], w[k + 1])
      <4>1. j + 1 \in 1..m BY <1>2, <1>3, <1>8, <3>1, <3>5
      <4> QED BY <1>4, <1>6, <3>1, <3>2, <3>5, <4>1
    <3> QED BY <3>3, <3>4, <3>5
  <2> QED BY <2>1, <2>2, <2>3
<1>12. Tidy(context, w) BY <1>4, <1>11 DEF Tidy
<1> QED BY <1>12 DEF w, u, c

\* Lines as they are printed.
Shown(f, H, q) == [k \in 1..Len(q) |-> LineOf(f, H, q[k])]

\* They are as many, and lines of the file.
LEMMA ShownIs ==
    ASSUME NEW f \in Nat, NEW H, NEW q \in Seq(Nat)
    PROVE  /\ Shown(f, H, q) \in Seq(GrepEntry) /\ Shown(f, H, q) \in Seq(OfKind(f, "line"))
           /\ Len(Shown(f, H, q)) = Len(q)
           /\ \A k \in 1..Len(q) : Shown(f, H, q)[k] = LineOf(f, H, q[k])
<1> DEFINE s == Shown(f, H, q)
           n == Len(q)
           K == OfKind(f, "line")
<1>1. n \in Nat /\ \A k \in 1..n : q[k] \in Nat
  BY LenProperties, ElementOfSeq
<1>2. s = [k \in 1..n |-> s[k]] /\ \A k \in 1..n : s[k] = LineOf(f, H, q[k])
  BY DEF Shown
<1>3. ASSUME NEW k \in 1..n PROVE s[k] \in K
  <2>1. q[k] \in Nat BY <1>1
  <2>2. LineOf(f, H, q[k]) \in OfKind(f, "line") BY <2>1, LineIs
  <2> QED BY <1>2, <2>2
<1>4. \A x \in K : x \in GrepEntry BY DEF OfKind
<1> HIDE DEF s, n, K
<1>5. s \in Seq(K) /\ Len(s) = n BY <1>1, <1>2, <1>3, SeqOfFunction
<1>6. s \in Seq(GrepEntry)
  <2>1. \A k \in 1..n : s[k] \in GrepEntry BY <1>3, <1>4
  <2> QED BY <1>1, <1>2, <2>1, SeqOfFunction
<1> QED BY <1>2, <1>5, <1>6 DEF s, n, K

\* Lines in a row are printed in a row.
LEMMA ShownConcat ==
    ASSUME NEW f \in Nat, NEW H, NEW p \in Seq(Nat), NEW q \in Seq(Nat)
    PROVE  Shown(f, H, p \o q) = Shown(f, H, p) \o Shown(f, H, q)
<1> DEFINE r == p \o q
           n == Len(p)
           m == Len(q)
           a == Shown(f, H, p)
           b == Shown(f, H, q)
           c == Shown(f, H, r)
           w == a \o b
<1>1. /\ r \in Seq(Nat) /\ n \in Nat /\ m \in Nat /\ Len(r) = n + m
      /\ \A i \in 1..n : r[i] = p[i]
      /\ \A i \in 1..m : r[n + i] = q[i]
  BY ConcatElements
<1>2. /\ a \in Seq(GrepEntry) /\ Len(a) = n /\ \A k \in 1..n : a[k] = LineOf(f, H, p[k])
      /\ b \in Seq(GrepEntry) /\ Len(b) = m /\ \A k \in 1..m : b[k] = LineOf(f, H, q[k])
  BY ShownIs
<1>3. c = [k \in 1..n + m |-> LineOf(f, H, r[k])] BY <1>1 DEF Shown
<1> HIDE DEF r, a, b, c, n, m
<1>4. /\ w \in Seq(GrepEntry) /\ DOMAIN w = 1..n + m /\ Len(w) = n + m
      /\ \A i \in 1..n : w[i] = a[i]
      /\ \A i \in 1..m : w[n + i] = b[i]
  <2>1. /\ w \in Seq(GrepEntry) /\ DOMAIN w = 1..Len(a) + Len(b) /\ Len(w) = Len(a) + Len(b)
        /\ \A i \in 1..Len(a) : w[i] = a[i]
        /\ \A i \in 1..Len(b) : w[Len(a) + i] = b[i]
    <3>1. a \in Seq(GrepEntry) /\ b \in Seq(GrepEntry) BY <1>2
    <3> QED BY ONLY <3>1, ConcatElements DEF w
  <2> HIDE DEF w
  <2> QED BY <1>2, <2>1
<1> HIDE DEF w
<1>5. w = [k \in 1..n + m |-> w[k]] BY <1>4
<1>6. ASSUME NEW k \in 1..n + m PROVE w[k] = LineOf(f, H, r[k])
  <2>1. CASE k \in 1..n BY <1>1, <1>2, <1>4, <2>1
  <2>2. CASE k \notin 1..n
    <3> DEFINE j == k - n
    <3>1. j \in 1..m /\ k = n + j BY <1>1, <2>2
    <3> HIDE DEF j
    <3>2. w[n + j] = b[j] /\ b[j] = LineOf(f, H, q[j]) /\ r[n + j] = q[j]
      BY ONLY <1>1, <1>2, <1>4, <3>1
    <3> QED BY ONLY <3>1, <3>2
  <2> QED BY <2>1, <2>2
<1>7. w = c BY <1>3, <1>5, <1>6
<1> QED BY <1>7 DEF w, a, b, c, r

\* A group of lines as it is printed.
Group(f, H, g) == [k \in 1..g.last - g.first + 1 |-> LineOf(f, H, g.first + k - 1)]

\* It is the lines of the group, and nothing in it has to be separated.
GroupRight(f, H, n, g, context) ==
    LET s == Group(f, H, g)
    IN  /\ s \in Seq(GrepEntry) /\ s \in Seq(OfKind(f, "line"))
        /\ s = Shown(f, H, Listed(n, g.first..g.last))
        /\ Tidy(context, s)
        /\ IsLine(s, 1) /\ s[1] = LineOf(f, H, g.first)
        /\ IsLine(s, Len(s)) /\ s[Len(s)] = LineOf(f, H, g.last)

LEMMA GroupLines ==
    ASSUME NEW f \in Nat, NEW H, NEW n \in Nat, NEW g, g.first \in 1..n, g.last \in g.first..n, NEW context
    PROVE  GroupRight(f, H, n, g, context)
<1> DEFINE a == g.first
           b == g.last
           l == b - a + 1
           s == Group(f, H, g)
           q == Listed(n, a..b)
           K == OfKind(f, "line")
<1>0. a \in 1..n /\ b \in a..n OBVIOUS
<1>1. s = [k \in 1..l |-> LineOf(f, H, a + k - 1)] BY DEF Group
<1>2. q \in Seq(Nat) /\ Len(q) = l /\ \A k \in 1..l : q[k] = a + k - 1
  <2> DEFINE S == 1..n
             i == [k \in 1..n |-> k]
             r == SubSeq(i, a, b)
  <2>1. i \in Seq(S) /\ Len(i) = n /\ \A k \in 1..n : i[k] = k
    BY ListedIs
  <2>2. q = Those(i, a..b) BY DEF Listed
  <2> HIDE DEF S, i, q, a, b
  <2>3. Those(i, a..b) = r
    <3>1. a \in 1..Len(i) /\ b \in a..Len(i) BY <1>0, <2>1
    <3> QED BY <2>1, <3>1, ThoseStretch
  <2>4. r \in Seq(S) /\ Len(r) = l /\ \A k \in 1..l : r[k] = i[a + k - 1]
    BY <1>0, <2>1, SubSeqProperties
  <2>5. \A k \in 1..l : a + k - 1 \in 1..n BY <1>0
  <2>6. r \in Seq(Nat)
    <3>1. \A k \in 1..l : r[k] \in Nat BY <2>1, <2>4, <2>5
    <3> HIDE DEF r
    <3>2. r = [k \in 1..Len(r) |-> r[k]] /\ Len(r) \in Nat BY ONLY <2>4
    <3> QED BY <2>4, <3>1, <3>2, SeqOfFunction
  <2> HIDE DEF r
  <2> QED BY <2>1, <2>2, <2>3, <2>4, <2>5, <2>6
<1> HIDE DEF q, s
<1>3. l \in Nat /\ l >= 1 /\ \A k \in 1..l : a + k - 1 \in Nat BY <1>0
<1> HIDE DEF a, b, l
<1>4. s = Shown(f, H, q)
  <2>1. Shown(f, H, q) = [k \in 1..l |-> LineOf(f, H, q[k])]
    BY <1>2 DEF Shown
  <2> QED BY <1>1, <1>2, <2>1
<1>5. s \in Seq(GrepEntry) /\ s \in Seq(K) /\ Len(s) = l
  BY <1>2, <1>4, ShownIs
<1>6. ASSUME NEW k \in 1..l
      PROVE  s[k] = LineOf(f, H, a + k - 1) /\ s[k].kind = "line" /\ s[k].file = f /\ s[k].number = a + k - 1
  <2> DEFINE i == a + k - 1
  <2>1. s[k] = LineOf(f, H, i) BY <1>1
  <2>2. i \in Nat BY <1>3
  <2> HIDE DEF i
  <2>3. LineOf(f, H, i).kind = "line" /\ LineOf(f, H, i).file = f /\ LineOf(f, H, i).number = i
    BY <2>2, LineIs
  <2> QED BY <2>1, <2>3 DEF i
<1>7. DOMAIN s = 1..l BY <1>1
<1>8. Tidy(context, s)
  <2> SUFFICES ASSUME NEW k \in 1..l
               PROVE  s[k].kind # "sep" /\ ((IsLine(s, k) /\ IsLine(s, k + 1)) => ~Leaves(s[k], s[k + 1]))
    BY <1>7 DEF Tidy
  <2>1. s[k].kind # "sep" BY <1>6
  <2>2. ASSUME IsLine(s, k + 1) PROVE ~Leaves(s[k], s[k + 1])
    <3>1. k + 1 \in 1..l BY <1>7, <2>2 DEF IsLine
    <3> DEFINE x == s[k].number
               y == s[k + 1].number
    <3>2. x = a + k - 1 BY <1>6
    <3>3. y = a + (k + 1) - 1 BY <1>6, <3>1
    <3> HIDE DEF x, y
    <3>4. a \in Nat BY <1>0 DEF a
    <3>5. ~(y > x + 1) BY <3>1, <3>2, <3>3, <3>4
    <3> QED BY <3>5 DEF Leaves, x, y
  <2> QED BY <2>1, <2>2
<1>9. IsLine(s, 1) /\ s[1] = LineOf(f, H, a)
  <2>1. 1 \in 1..l /\ a + 1 - 1 = a BY <1>0, <1>3 DEF a
  <2> QED BY <1>6, <1>7, <2>1 DEF IsLine
<1>10. IsLine(s, l) /\ s[l] = LineOf(f, H, b)
  <2>1. l \in 1..l /\ a + l - 1 = b BY <1>0, <1>3 DEF a, b, l
  <2> QED BY <1>6, <1>7, <2>1 DEF IsLine
<1> QED BY <1>4, <1>5, <1>8, <1>9, <1>10 DEF s, q, a, b, K, GroupRight

\* Nothing but lines of the file, and separators.
OnlyLines(f, s) == \A k \in DOMAIN s : s[k] = Separator \/ s[k] \in OfKind(f, "line")

LEMMA OnlyLinesConcat ==
    ASSUME NEW f, NEW S, NEW s \in Seq(S), NEW t \in Seq(S), OnlyLines(f, s), OnlyLines(f, t)
    PROVE  OnlyLines(f, s \o t)
<1> DEFINE w == s \o t
           n == Len(s)
           m == Len(t)
<1>1. /\ n \in Nat /\ m \in Nat /\ DOMAIN s = 1..n /\ DOMAIN t = 1..m /\ DOMAIN w = 1..n + m
      /\ \A i \in 1..n : w[i] = s[i]
      /\ \A i \in 1..m : w[n + i] = t[i]
  BY ConcatElements
<1> HIDE DEF w, n, m
<1>2. ASSUME NEW k \in 1..n + m PROVE w[k] = Separator \/ w[k] \in OfKind(f, "line")
  <2>1. CASE k \in 1..n BY <1>1, <2>1 DEF OnlyLines
  <2>2. CASE k \notin 1..n
    <3> DEFINE j == k - n
    <3>1. j \in 1..m /\ k = n + j BY <1>1, <2>2
    <3> HIDE DEF j
    <3> QED BY <1>1, <3>1 DEF OnlyLines
  <2> QED BY <2>1, <2>2
<1> QED BY <1>1, <1>2 DEF OnlyLines, w

\* A separator is no line.
LEMMA GroupSeparated ==
    ASSUME NEW f, NEW g \in Seq(OfKind(f, "line")), g \in Seq(GrepEntry)
    PROVE  /\ <<Separator>> \o g \in Seq(GrepEntry)
           /\ In(g, OfKind(f, "line")) = g
           /\ In(<<Separator>> \o g, OfKind(f, "line")) = g
           /\ OnlyLines(f, g) /\ OnlyLines(f, <<Separator>> \o g)
<1> DEFINE c == <<Separator>>
           K == OfKind(f, "line")
<1>0. Separator \in GrepEntry /\ Separator.kind = "sep" BY EntriesAre
<1>1. c \in Seq(GrepEntry) /\ DOMAIN c = {1} /\ c[1] = Separator
  BY ONLY <1>0
<1> HIDE DEF c
<1>2. Separator \notin K BY <1>0 DEF OfKind
<1> HIDE DEF K
<1>3. In(c, K) = <<>> BY <1>1, <1>2, InNone
<1>4. g \in Seq(K) /\ g \in Seq(GrepEntry) BY DEF K
<1>5. In(g, K) = g BY ONLY <1>4, InAll
<1>6. In(c \o g, K) = In(c, K) \o In(g, K) BY <1>1, <1>4, InConcat
<1>7. <<>> \o g = g BY <1>4, ConcatEmptySeq
<1>8. c \o g \in Seq(GrepEntry) BY <1>1, <1>4, ConcatElements
<1>9. OnlyLines(f, g)
  <2>1. \A k \in DOMAIN g : g[k] \in K
    BY <1>4, LenProperties, ElementOfSeq
  <2> QED BY <2>1 DEF OnlyLines, K
<1>10. OnlyLines(f, c) BY <1>1 DEF OnlyLines
<1>11. OnlyLines(f, c \o g) BY <1>1, <1>4, <1>9, <1>10, OnlyLinesConcat
<1> QED BY <1>3, <1>5, <1>6, <1>7, <1>8, <1>9, <1>11 DEF c, K

\* The groups in their order, a separator before every one but the first.
GroupsInTurn(f, H, m) == [k \in DOMAIN m |-> (IF k > 1 THEN <<Separator>> ELSE <<>>) \o Group(f, H, m[k])]

\* The numbers the groups hold.
Held(n, m) == {i \in 1..n : is_selected(i, m)}

\* Printed are the lines of the groups, each in its place, and what is left out between
\* two of them is where a separator is.
LEMMA GroupsPrinted ==
    ASSUME NEW f \in Nat, NEW H, NEW n \in Nat, NEW m, Apart(m), Filled(m),
           \A i : is_selected(i, m) => i \in 1..n, NEW context
    PROVE  LET s == FlattenSeq(GroupsInTurn(f, H, m))
           IN  /\ s \in Seq(GrepEntry) /\ OnlyLines(f, s) /\ Tidy(context, s)
               /\ In(s, OfKind(f, "line")) = Shown(f, H, Listed(n, Held(n, m)))
<1> DEFINE l == Len(m)
           P == GroupsInTurn(f, H, m)
           K == OfKind(f, "line")
           g(k) == Group(f, H, m[k])
           All(k) == FlattenSeq(SubSeq(P, 1, k))
           U(k) == {i \in Int : \E j \in 1..k : i \in m[j].first..m[j].last}
           Good(k) == /\ All(k) \in Seq(GrepEntry) /\ OnlyLines(f, All(k)) /\ Tidy(context, All(k))
                      /\ In(All(k), K) = Shown(f, H, Listed(n, U(k)))
                      /\ k = 0 => All(k) = <<>>
                      /\ k > 0 => IsLine(All(k), Len(All(k))) /\ All(k)[Len(All(k))] = LineOf(f, H, m[k].last)
           T == {k \in Nat : k <= l => Good(k)}
<1>1. /\ m \in Seq(CutRange) /\ l \in Nat /\ DOMAIN m = 1..l
      /\ \A j \in 1..l : m[j].first \in Nat /\ m[j].last \in Nat /\ m[j].first <= m[j].last
  <2>1. m \in Seq(CutRange) /\ l \in Nat /\ DOMAIN m = 1..l /\ \A j \in 1..l : m[j] \in CutRange
    BY LenProperties, ElementOfSeq DEF Apart
  <2> QED BY <2>1 DEF CutRange, Filled
<1>2. ASSUME NEW j \in 1..l PROVE m[j].first \in 1..n /\ m[j].last \in m[j].first..n
  <2>1. \A i \in m[j].first..m[j].last : i \in 1..n
    BY <1>1 DEF is_selected
  <2> DEFINE a == m[j].first
             b == m[j].last
  <2>2. a \in Nat /\ b \in Nat /\ a <= b /\ \A i \in a..b : i \in 1..n
    BY <1>1, <2>1
  <2> HIDE DEF a, b
  <2>3. a \in 1..n /\ b \in a..n BY <2>2
  <2> QED BY <2>3 DEF a, b
<1>3. P = [k \in 1..l |-> P[k]] /\ \A k \in 1..l : P[k] = (IF k > 1 THEN <<Separator>> ELSE <<>>) \o g(k)
  BY <1>1 DEF GroupsInTurn
<1> HIDE DEF P
<1>4. ASSUME NEW k \in 1..l
      PROVE  /\ g(k) \in Seq(GrepEntry) /\ g(k) \in Seq(K)
             /\ g(k) = Shown(f, H, Listed(n, m[k].first..m[k].last))
             /\ Tidy(context, g(k))
             /\ IsLine(g(k), 1) /\ g(k)[1] = LineOf(f, H, m[k].first)
             /\ IsLine(g(k), Len(g(k))) /\ g(k)[Len(g(k))] = LineOf(f, H, m[k].last)
  <2> DEFINE r == m[k]
  <2>1. r.first \in 1..n /\ r.last \in r.first..n BY <1>2
  <2> HIDE DEF r
  <2>2. GroupRight(f, H, n, r, context)
    BY ONLY <2>1, f \in Nat, n \in Nat, GroupLines
  <2> QED BY <2>2 DEF r, GroupRight
<1> HIDE DEF g
<1>5. ASSUME NEW k \in 1..l
      PROVE  /\ P[k] \in Seq(GrepEntry) /\ In(P[k], K) = g(k) /\ OnlyLines(f, P[k])
             /\ k = 1 => P[k] = g(k)
             /\ k > 1 => P[k] = <<Separator>> \o g(k)
  <2> DEFINE x == g(k)
  <2>1. x \in Seq(GrepEntry) /\ x \in Seq(K) BY <1>4
  <2>2. P[k] = (IF k > 1 THEN <<Separator>> ELSE <<>>) \o x BY <1>3
  <2> HIDE DEF x
  <2>3. /\ <<Separator>> \o x \in Seq(GrepEntry)
        /\ In(x, K) = x
        /\ In(<<Separator>> \o x, K) = x
        /\ OnlyLines(f, x) /\ OnlyLines(f, <<Separator>> \o x)
    BY <2>1, GroupSeparated
  <2>4. <<>> \o x = x BY <2>1, ConcatEmptySeq
  <2> HIDE DEF K
  <2>5. CASE k > 1
    <3>1. P[k] = <<Separator>> \o x BY <2>2, <2>5
    <3> QED BY <2>3, <2>5, <3>1 DEF x
  <2>6. CASE ~(k > 1)
    <3>1. P[k] = x BY <2>2, <2>4, <2>6
    <3> QED BY <2>1, <2>3, <2>6, <3>1 DEF x
  <2> QED BY <2>5, <2>6
<1>6. P \in Seq(Seq(GrepEntry)) /\ Len(P) = l
  <2> DEFINE S == Seq(GrepEntry)
  <2>1. \A k \in 1..l : P[k] \in S BY <1>5
  <2>2. l \in Nat /\ P = [k \in 1..l |-> P[k]] BY <1>1, <1>3
  <2> HIDE DEF S, l
  <2>3. P \in Seq(S) /\ Len(P) = l BY ONLY <2>1, <2>2, SeqOfFunction
  <2> QED BY <2>3 DEF S
<1>7. /\ SubSeq(P, 1, 0) = <<>> /\ SubSeq(P, 1, l) = P
      /\ \A k \in 1..l : SubSeq(P, 1, k - 1) \in Seq(Seq(GrepEntry)) /\ SubSeq(P, 1, k) = Append(SubSeq(P, 1, k - 1), P[k])
  <2> DEFINE S == Seq(GrepEntry)
  <2>1. P \in Seq(S) /\ Len(P) = l BY <1>6
  <2> HIDE DEF S, l
  <2>2. /\ SubSeq(P, 1, 0) = <<>> /\ SubSeq(P, 1, Len(P)) = P
        /\ \A k \in 1..Len(P) : SubSeq(P, 1, k - 1) \in Seq(S) /\ SubSeq(P, 1, k) = Append(SubSeq(P, 1, k - 1), P[k])
    BY <2>1, Beginnings
  <2> QED BY <2>1, <2>2 DEF S
<1>8. 0 \in T
  <2> DEFINE e == <<>>
  <2>1. All(0) = e BY <1>7, FlattenEmpty
  <2>2. e \in Seq(GrepEntry) /\ DOMAIN e = {} /\ Len(e) = 0 OBVIOUS
  <2>3. Listed(n, U(0)) = e
    <3> DEFINE S == 1..n
               s == [i \in 1..n |-> i]
    <3>1. U(0) = {} OBVIOUS
    <3>2. s \in Seq(S) BY ListedIs
    <3> HIDE DEF S, s
    <3>3. Those(s, {}) = <<>> BY <3>2, ThoseNone
    <3> QED BY <3>1, <3>3 DEF Listed, s
  <2>4. Shown(f, H, e) = e
    <3>1. Shown(f, H, e) = [k \in 1..0 |-> LineOf(f, H, e[k])]
      <4> HIDE DEF e
      <4> QED BY <2>2 DEF Shown
    <3>2. 1..0 = {} OBVIOUS
    <3> QED BY <3>1, <3>2
  <2>5. In(e, K) = e
    <3> HIDE DEF K
    <3> QED BY <2>2, InNone
  <2> HIDE DEF e, All, U, K
  <2>6. OnlyLines(f, e) /\ Tidy(context, e) BY <2>2 DEF OnlyLines, Tidy
  <2>7. Good(0)
    <3>1. All(0) \in Seq(GrepEntry) /\ OnlyLines(f, All(0)) /\ Tidy(context, All(0))
      BY <2>1, <2>2, <2>6
    <3>2. In(All(0), K) = Shown(f, H, Listed(n, U(0)))
      BY <2>1, <2>3, <2>4, <2>5
    <3>3. All(0) = <<>> /\ ~(0 > 0) BY <2>1 DEF e
    <3> QED BY ONLY <3>1, <3>2, <3>3 DEF Good
  <2> HIDE DEF Good
  <2> QED BY <2>7
<1>9. ASSUME NEW k \in Nat, k \in T PROVE k + 1 \in T
  <2> SUFFICES ASSUME k + 1 <= l PROVE Good(k + 1)
    <3> HIDE DEF Good
    <3> QED OBVIOUS
  <2> DEFINE j == k + 1
             before == SubSeq(P, 1, k)
             A == m[j].first..m[j].last
             a == All(k)
             b == P[j]
             x == g(j)
             w == a \o b
  <2>1. j \in 1..l /\ j - 1 = k /\ k <= l /\ j \in Nat /\ j > 0 BY <1>1
  <2>2. Good(k) BY <1>9, <2>1
  <2>3. before \in Seq(Seq(GrepEntry)) /\ SubSeq(P, 1, j) = Append(before, b)
    <3> HIDE DEF j
    <3>1. SubSeq(P, 1, j - 1) \in Seq(Seq(GrepEntry)) /\ SubSeq(P, 1, j) = Append(SubSeq(P, 1, j - 1), P[j])
      BY <1>7, <2>1
    <3> QED BY <2>1, <3>1
  <2>4. /\ x \in Seq(GrepEntry) /\ x \in Seq(K)
        /\ x = Shown(f, H, Listed(n, A))
        /\ Tidy(context, x)
        /\ IsLine(x, 1) /\ x[1] = LineOf(f, H, m[j].first)
        /\ IsLine(x, Len(x)) /\ x[Len(x)] = LineOf(f, H, m[j].last)
        /\ b \in Seq(GrepEntry) /\ In(b, K) = x /\ OnlyLines(f, b)
        /\ j = 1 => b = x
        /\ j > 1 => b = <<Separator>> \o x
    <3> HIDE DEF j, K
    <3> QED BY <1>4, <1>5, <2>1
  <2>5. All(j) = w
    <3>1. FlattenSeq(Append(before, b)) = FlattenSeq(before) \o b
      <4> HIDE DEF before, b
      <4> QED BY <2>3, <2>4, FlattenAppend
    <3> HIDE DEF j, b
    <3> QED BY <2>3, <3>1
  <2>6. /\ a \in Seq(GrepEntry) /\ OnlyLines(f, a) /\ Tidy(context, a)
        /\ In(a, K) = Shown(f, H, Listed(n, U(k)))
        /\ k = 0 => a = <<>>
        /\ k > 0 => IsLine(a, Len(a)) /\ a[Len(a)] = LineOf(f, H, m[k].last)
    BY <2>2
  <2>7. U(j) = U(k) \cup A /\ U(k) \in SUBSET Int /\ A \in SUBSET Int /\ \A y \in U(k), z \in A : y < z
    <3>1. ASSUME NEW y \in U(k), NEW z \in A PROVE y < z
      <4>1. PICK i \in 1..k : y \in m[i].first..m[i].last OBVIOUS
      <4> DEFINE c == m[i].last
                 d == m[j].first
      <4>2. i \in 1..l /\ i < j BY <1>1, <2>1
      <4>3. c + 1 < d BY <2>1, <4>2 DEF Apart
      <4>4. c \in Nat /\ d \in Nat /\ y <= c /\ d <= z /\ y \in Int /\ z \in Int
        BY <1>1, <2>1, <3>1, <4>1, <4>2
      <4> HIDE DEF c, d
      <4> QED BY <4>3, <4>4
    <3>2. U(k) \in SUBSET Int /\ A \in SUBSET Int BY <1>1, <2>1
    <3>3. \A i : i \in 1..j <=> i \in 1..k \/ i = j BY <2>1
    <3>4. \A i : i \in U(j) <=> i \in Int /\ \E y \in 1..j : i \in m[y].first..m[y].last
      OBVIOUS
    <3>5. \A i : i \in U(k) <=> i \in Int /\ \E y \in 1..k : i \in m[y].first..m[y].last
      OBVIOUS
    <3>6. \A i : i \in A => i \in Int BY <3>2
    <3> HIDE DEF j, U
    <3>7. \A i : i \in U(j) <=> i \in U(k) \/ i \in A
      BY <3>3, <3>4, <3>5, <3>6
    <3> HIDE DEF A
    <3>8. U(j) = U(k) \cup A BY <3>7
    <3> QED BY <3>1, <3>2, <3>8 DEF A
  <2>8. Shown(f, H, Listed(n, U(j))) = Shown(f, H, Listed(n, U(k))) \o x
    <3> DEFINE B == U(k)
               p == Listed(n, B)
               q == Listed(n, A)
    <3>1. B \in SUBSET Int /\ A \in SUBSET Int /\ (\A y \in B, z \in A : y < z) /\ U(j) = B \cup A
      BY <2>7
    <3> HIDE DEF A, B, U, j
    <3>2. Listed(n, B \cup A) = p \o q BY <3>1, ListedConcat
    <3>3. p \in Seq(Nat) /\ q \in Seq(Nat)
      <4>1. p \in Seq(1..n) /\ q \in Seq(1..n) BY ListedType
      <4> HIDE DEF p, q
      <4> QED BY <4>1
    <3> HIDE DEF p, q, x
    <3>4. Shown(f, H, p \o q) = Shown(f, H, p) \o Shown(f, H, q)
      BY <3>3, ShownConcat
    <3>5. Shown(f, H, q) = x BY <2>4 DEF q
    <3> QED BY <3>1, <3>2, <3>4, <3>5 DEF p, B
  <2> HIDE DEF a, b, x, w, U, A, K, before, All
  <2>9. w \in Seq(GrepEntry) /\ OnlyLines(f, w) /\ In(w, K) = Shown(f, H, Listed(n, U(j)))
    <3>1. w \in Seq(GrepEntry) BY <2>4, <2>6, ConcatElements DEF w
    <3>2. OnlyLines(f, w)
      <4>1. a \in Seq(GrepEntry) /\ b \in Seq(GrepEntry) /\ OnlyLines(f, a) /\ OnlyLines(f, b)
        BY <2>4, <2>6
      <4> QED BY ONLY <4>1, OnlyLinesConcat DEF w
    <3>3. In(w, K) = In(a, K) \o In(b, K)
      <4>1. a \in Seq(GrepEntry) /\ b \in Seq(GrepEntry) BY <2>4, <2>6
      <4> QED BY ONLY <4>1, InConcat DEF w
    <3> QED BY <2>4, <2>6, <2>8, <3>1, <3>2, <3>3
  <2>10. Tidy(context, w) /\ IsLine(w, Len(w)) /\ w[Len(w)] = LineOf(f, H, m[j].last)
    <3>1. CASE k = 0
      <4>1. j = 1 /\ b = x /\ a = <<>> BY <2>1, <2>4, <2>6, <3>1
      <4>2. w = x BY <2>4, <4>1, ConcatEmptySeq DEF w
      <4> QED BY <2>4, <4>2
    <3>2. CASE k > 0
      <4> DEFINE c == <<Separator>>
      <4>1. b = c \o x BY <2>1, <2>4, <3>2
      <4>2. IsLine(a, Len(a)) /\ a[Len(a)] = LineOf(f, H, m[k].last)
        BY <2>6, <3>2
      <4>3. Leaves(a[Len(a)], x[1])
        <5> DEFINE y == m[k].last
                   z == m[j].first
        <5>1. k \in 1..l /\ k < j BY <2>1, <3>2
        <5>2. y \in Nat /\ z \in Nat BY <1>1, <2>1, <5>1
        <5>3. y + 1 < z BY <2>1, <5>1 DEF Apart
        <5>4. a[Len(a)] = LineOf(f, H, y) /\ x[1] = LineOf(f, H, z)
          BY <2>4, <4>2
        <5> HIDE DEF y, z
        <5>5. LineOf(f, H, y).file = f /\ LineOf(f, H, y).number = y
          BY <5>2, LineIs
        <5>6. LineOf(f, H, z).file = f /\ LineOf(f, H, z).number = z
          BY <5>2, LineIs
        <5> QED BY <5>2, <5>3, <5>4, <5>5, <5>6 DEF Leaves
      <4>4. Tidy(context, w)
        <5>1. /\ a \in Seq(GrepEntry) /\ x \in Seq(GrepEntry) /\ Tidy(context, a) /\ Tidy(context, x)
              /\ IsLine(a, Len(a)) /\ IsLine(x, 1) /\ Leaves(a[Len(a)], x[1])
          BY <2>4, <2>6, <4>2, <4>3
        <5>2. Tidy(context, a \o (<<Separator>> \o x))
          BY ONLY <5>1, TidySeparated
        <5> QED BY <4>1, <5>2 DEF w
      <4>5. IsLine(w, Len(w)) /\ w[Len(w)] = x[Len(x)]
        <5>1. c \in Seq(GrepEntry) /\ Len(c) = 1
          <6>1. Separator \in GrepEntry BY EntriesAre
          <6> QED BY ONLY <6>1
        <5> HIDE DEF c
        <5>2. Len(x) \in 1..Len(x) /\ x[Len(x)].kind = "line"
          <6>1. Len(x) \in DOMAIN x /\ x[Len(x)].kind = "line"
            BY <2>4 DEF IsLine
          <6>2. DOMAIN x = 1..Len(x) BY <2>4, LenProperties
          <6> QED BY <6>1, <6>2
        <5> DEFINE y == c \o x
        <5>3. y \in Seq(GrepEntry) /\ Len(x) \in Nat /\ Len(y) = 1 + Len(x) /\ y[1 + Len(x)] = x[Len(x)]
          <6>1. c \in Seq(GrepEntry) /\ x \in Seq(GrepEntry)
            BY <2>4, <5>1
          <6>2. /\ y \in Seq(GrepEntry) /\ Len(x) \in Nat /\ Len(y) = Len(c) + Len(x)
                /\ \A i \in 1..Len(x) : y[Len(c) + i] = x[i]
            BY ONLY <6>1, ConcatElements
          <6> HIDE DEF y
          <6> QED BY <5>1, <5>2, <6>2
        <5>4. w = a \o y BY <4>1 DEF w
        <5> HIDE DEF y
        <5>5. /\ a \o y \in Seq(GrepEntry) /\ Len(a) \in Nat /\ Len(a \o y) = Len(a) + Len(y)
              /\ DOMAIN (a \o y) = 1..Len(a) + Len(y)
              /\ \A i \in 1..Len(y) : (a \o y)[Len(a) + i] = y[i]
          <6>1. a \in Seq(GrepEntry) /\ y \in Seq(GrepEntry)
            BY <2>6, <5>3
          <6> QED BY ONLY <6>1, ConcatElements
        <5>6. Len(y) \in 1..Len(y) /\ y[Len(y)] = x[Len(x)] BY <5>3
        <5>7. Len(w) = Len(a) + Len(y) /\ DOMAIN w = 1..Len(a) + Len(y) /\ w[Len(a) + Len(y)] = y[Len(y)]
          BY <5>4, <5>5, <5>6
        <5>8. Len(a) + Len(y) \in 1..Len(a) + Len(y) BY <5>3, <5>5
        <5> QED BY <5>2, <5>6, <5>7, <5>8 DEF IsLine
      <4> QED BY <2>4, <4>4, <4>5
    <3> QED BY <3>1, <3>2
  <2> HIDE DEF j
  <2>11. Good(j)
    <3>1. j # 0 BY <2>1
    <3> QED BY <2>1, <2>5, <2>9, <2>10, <3>1
  <2> HIDE DEF Good
  <2> QED BY <2>11 DEF j
<1>10. Good(l)
  <2>1. Nat \subseteq T
    <3> HIDE DEF T
    <3> QED BY <1>8, <1>9, SetInduction
  <2>2. l \in T /\ l <= l
    <3> HIDE DEF T
    <3> QED BY <1>1, <2>1
  <2> HIDE DEF Good
  <2> QED BY <2>2
<1>11. All(l) = FlattenSeq(P) BY <1>7
<1>12. Listed(n, U(l)) = Listed(n, Held(n, m))
  <2> DEFINE B == Held(n, m)
             C == U(l)
  <2>1. ASSUME NEW i \in 1..n PROVE i \in C <=> i \in B
    <3>1. i \in C <=> \E j \in 1..l : i \in m[j].first..m[j].last
      OBVIOUS
    <3>2. i \in B <=> \E j \in DOMAIN m : i \in m[j].first..m[j].last
      BY <1>1 DEF is_selected, Held
    <3> HIDE DEF B, C
    <3> QED BY ONLY <1>1, <3>1, <3>2
  <2> HIDE DEF B, C
  <2>2. Listed(n, C) = Listed(n, B) BY <2>1, ListedAgree
  <2> QED BY <2>2 DEF B, C
<1>13. /\ All(l) \in Seq(GrepEntry) /\ OnlyLines(f, All(l)) /\ Tidy(context, All(l))
       /\ In(All(l), K) = Shown(f, H, Listed(n, U(l)))
  BY <1>10
<1> HIDE DEF All, U
<1> QED BY <1>11, <1>12, <1>13 DEF P

\* The selected lines of a file, those near to them, and whether they are printed.
HitsOf(cfg, file) == IF file.binary /\ cfg.binaryFiles = "without-match" THEN {} ELSE Hits(cfg, file.lines)
NearOf(cfg, file) ==
    {i \in DOMAIN file.lines : \E h \in HitsOf(cfg, file) : i \in h - cfg.before..h + cfg.after}
Notice(cfg, file) == file.binary /\ cfg.binaryFiles = "binary" /\ HitsOf(cfg, file) # {}
Prints(cfg, file) == ~cfg.quiet /\ cfg.show = "lines" /\ ~Notice(cfg, file)

\* A file as grep reads it, and a command line as it is given.
IsFile(file) == file.lines \in Seq(BOOLEAN)
IsCommand(cfg) ==
    /\ cfg.invert \in BOOLEAN /\ cfg.quiet \in BOOLEAN /\ cfg.max \in Int
    /\ cfg.before \in Nat /\ cfg.after \in Nat
    /\ cfg.show \in {"lines", "with", "without", "count"}

\* No lines are shown as no entries.
LEMMA NothingShown ==
    ASSUME NEW f, NEW n \in Nat, NEW H
    PROVE  Listed(n, {}) = <<>> /\ Shown(f, H, <<>>) = <<>>
<1>1. Listed(n, {}) = <<>>
  <2> DEFINE S == 1..n
             s == [i \in 1..n |-> i]
  <2>1. s \in Seq(S) BY ListedIs
  <2> HIDE DEF S, s
  <2>2. Those(s, {}) = <<>> BY <2>1, ThoseNone
  <2> QED BY <2>2 DEF Listed, s
<1>2. Shown(f, H, <<>>) = <<>>
  <2> DEFINE e == <<>>
  <2>1. Len(e) = 0 OBVIOUS
  <2>2. Shown(f, H, e) = [k \in 1..0 |-> LineOf(f, H, e[k])]
    <3> HIDE DEF e
    <3> QED BY <2>1 DEF Shown
  <2>3. 1..0 = {} OBVIOUS
  <2> QED BY <2>2, <2>3
<1> QED BY <1>1, <1>2

\* Nothing is tidy.
LEMMA NothingTidy ==
    ASSUME NEW f, NEW context, NEW K
    PROVE  <<>> \in Seq(GrepEntry) /\ OnlyLines(f, <<>>) /\ Tidy(context, <<>>) /\ In(<<>>, K) = <<>>
<1> DEFINE e == <<>>
<1>1. e \in Seq(GrepEntry) /\ DOMAIN e = {} OBVIOUS
<1> HIDE DEF e
<1>2. OnlyLines(f, e) /\ Tidy(context, e) BY <1>1 DEF OnlyLines, Tidy
<1>3. In(e, K) = <<>> BY <1>1, InNone
<1> QED BY <1>1, <1>2, <1>3 DEF e

\* The lines that are printed of a file.
FileLines(cfg, f, file) ==
    IF file.binary /\ cfg.binaryFiles = "without-match" THEN <<>> ELSE scan_text(cfg, f, file)
LineNumbers(cfg, file) == IF Prints(cfg, file) THEN Listed(Len(file.lines), NearOf(cfg, file)) ELSE <<>>

\* They are those near to a selected one, each once and in order.
LEMMA LinesPrinted ==
    ASSUME NEW cfg, IsCommand(cfg), NEW f \in Nat, NEW file, IsFile(file)
    PROVE  LET s == FileLines(cfg, f, file)
           IN  /\ s \in Seq(GrepEntry) /\ OnlyLines(f, s) /\ Tidy(cfg.before + cfg.after > 0, s)
               /\ In(s, OfKind(f, "line")) = Shown(f, HitsOf(cfg, file), LineNumbers(cfg, file))
<1> DEFINE s == FileLines(cfg, f, file)
           lines == file.lines
           n == Len(lines)
           H == Hits(cfg, lines)
           hits == match_indices(cfg, lines)
           context == cfg.before + cfg.after > 0
           K == OfKind(f, "line")
           W == HitsOf(cfg, file)
           N == LineNumbers(cfg, file)
           e == <<>>
<1>0. lines \in Seq(BOOLEAN) /\ n \in Nat /\ DOMAIN lines = 1..n
  BY LenProperties DEF IsFile
<1>1. cfg.max \in Int /\ cfg.before \in Nat /\ cfg.after \in Nat
  BY DEF IsCommand
<1>2. W = {} => N = e
  <2>1. ASSUME W = {} PROVE NearOf(cfg, file) = {} BY <2>1 DEF NearOf
  <2>2. Listed(n, {}) = <<>> BY <1>0, NothingShown
  <2> HIDE DEF W, n
  <2> QED BY <2>1, <2>2 DEF LineNumbers, n
<1>3. ASSUME s = e, N = e
      PROVE  /\ s \in Seq(GrepEntry) /\ OnlyLines(f, s) /\ Tidy(context, s)
             /\ In(s, K) = Shown(f, W, N)
  <2> HIDE DEF s, N, W, K, context
  <2>1. e \in Seq(GrepEntry) /\ OnlyLines(f, e) /\ Tidy(context, e) /\ In(e, K) = e
    BY NothingTidy
  <2>2. Shown(f, W, e) = e BY <1>0, NothingShown
  <2> HIDE DEF e
  <2> QED BY <1>3, <2>1, <2>2
<1>4. CASE file.binary /\ cfg.binaryFiles = "without-match"
  <2>1. s = e BY <1>4 DEF FileLines
  <2>2. W = {} BY <1>4 DEF HitsOf
  <2> HIDE DEF s, N, W
  <2> QED BY <1>2, <1>3, <2>1, <2>2 DEF s, N, W
<1>5. CASE ~(file.binary /\ cfg.binaryFiles = "without-match")
  <2>1. s = scan_text(cfg, f, file) /\ W = H
    BY <1>5 DEF FileLines, HitsOf
  <2>2. CASE cfg.quiet \/ cfg.show # "lines" \/ (file.binary /\ cfg.binaryFiles = "binary")
    <3>1. s = e BY <2>1, <2>2 DEF scan_text
    <3>2. N = e
      <4>1. CASE Prints(cfg, file)
        <5>1. W = {} BY <2>2, <4>1 DEF Prints, Notice
        <5> HIDE DEF W, N
        <5> QED BY <1>2, <5>1
      <4>2. CASE ~Prints(cfg, file) BY <4>2 DEF LineNumbers
      <4> QED BY <4>1, <4>2
    <3> HIDE DEF s, N, W
    <3> QED BY <1>3, <3>1, <3>2 DEF s, N, W
  <2>3. CASE ~(cfg.quiet \/ cfg.show # "lines" \/ (file.binary /\ cfg.binaryFiles = "binary"))
    <3>1. N = Listed(n, NearAHit(cfg, lines))
      <4>1. Prints(cfg, file) BY <2>3 DEF Prints, Notice
      <4>2. NearOf(cfg, file) = NearAHit(cfg, lines)
        BY <2>1 DEF NearOf, NearAHit
      <4> QED BY <4>1, <4>2 DEF LineNumbers
    <3>2. H \subseteq 1..n /\ hits = Listed(n, H)
      BY <1>0, <1>1, MatchesAre
    <3>3. /\ hits \in Seq(H) /\ ToSet(hits) = H
      <4> HIDE DEF H, hits, n
      <4>1. Listed(n, H) \in Seq(H) /\ ToSet(Listed(n, H)) = H
        BY <1>0, <3>2, ListedSet
      <4> QED BY <3>2, <4>1
    <3>4. CASE useContext(cfg)
      <4> DEFINE m == Groups(cfg, lines)
                 t == FlattenSeq(GroupsInTurn(f, H, m))
      <4>1. s = t
        <5>1. s = FlattenSeq([k \in DOMAIN m |-> (IF k > 1 THEN <<Separator>> ELSE <<>>)
                     \o [i \in 1..m[k].last - m[k].first + 1 |->
                            Entry("line", f, m[k].first + i - 1, IF m[k].first + i - 1 \in ToSet(hits) THEN ":" ELSE "-")]])
          BY <2>1, <2>3, <3>4 DEF scan_text, Groups
        <5> HIDE DEF m, s, H, hits
        <5> QED BY <3>3, <5>1 DEF GroupsInTurn, Group, LineOf
      <4>2. Apart(m) /\ Filled(m) /\ \A i : is_selected(i, m) <=> i \in NearAHit(cfg, lines)
        BY <1>0, <1>1, GroupsAre
      <4>3. \A i : is_selected(i, m) => i \in 1..n
        BY <1>0, <4>2 DEF NearAHit
      <4> HIDE DEF m
      <4>4. /\ t \in Seq(GrepEntry) /\ OnlyLines(f, t) /\ Tidy(context, t)
            /\ In(t, K) = Shown(f, H, Listed(n, Held(n, m)))
        <5> HIDE DEF H, n, context
        <5>1. /\ f \in Nat /\ n \in Nat /\ Apart(m) /\ Filled(m)
              /\ \A i : is_selected(i, m) => i \in 1..n
          BY <1>0, <4>2, <4>3
        <5>2. LET u == FlattenSeq(GroupsInTurn(f, H, m))
              IN  /\ u \in Seq(GrepEntry) /\ OnlyLines(f, u) /\ Tidy(context, u)
                  /\ In(u, OfKind(f, "line")) = Shown(f, H, Listed(n, Held(n, m)))
          BY ONLY <5>1, GroupsPrinted
        <5> QED BY <5>2
      <4>5. Held(n, m) = NearAHit(cfg, lines) BY <4>2, <4>3 DEF Held
      <4> HIDE DEF s, t, N, W, H, K, context
      <4> QED BY <2>1, <3>1, <4>1, <4>4, <4>5 DEF s, N, W, K, context
    <3>5. CASE ~useContext(cfg)
      <4>1. cfg.before = 0 /\ cfg.after = 0 /\ context = FALSE
        BY <1>1, <2>3, <3>5 DEF useContext
      <4>2. s = [k \in DOMAIN hits |-> Entry("line", f, hits[k], ":")]
        BY <2>1, <2>3, <3>5 DEF scan_text
      <4>3. NearAHit(cfg, lines) = H
        <5>1. \A h \in H : h \in 1..n /\ h - 0..h + 0 = {h} BY <3>2
        <5> HIDE DEF H
        <5> QED BY <1>0, <3>2, <4>1, <5>1 DEF NearAHit, H
      <4>4. N = hits BY <3>1, <3>2, <4>3
      <4> HIDE DEF H, N, W, s, hits, K
      <4>5. hits \in Seq(Nat) /\ DOMAIN hits = 1..Len(hits) /\ \A k \in 1..Len(hits) : hits[k] \in H
        <5>1. Len(hits) \in Nat /\ DOMAIN hits = 1..Len(hits) /\ \A k \in 1..Len(hits) : hits[k] \in H
          BY <3>3, LenProperties, ElementOfSeq
        <5>2. \A k \in 1..Len(hits) : hits[k] \in Nat
          <6>1. \A h \in H : h \in Nat BY ONLY <3>2
          <6> QED BY ONLY <5>1, <6>1
        <5>3. hits = [k \in 1..Len(hits) |-> hits[k]] BY <3>3, <5>1
        <5> QED BY <5>1, <5>2, <5>3, SeqOfFunction
      <4>6. s = Shown(f, H, hits)
        <5>1. s = [k \in 1..Len(hits) |-> LineOf(f, H, hits[k])]
          BY <4>2, <4>5 DEF LineOf
        <5> QED BY <5>1 DEF Shown
      <4>7. s \in Seq(GrepEntry) /\ s \in Seq(K)
        BY <4>5, <4>6, ShownIs DEF K
      <4>8. In(s, K) = s BY ONLY <4>7, InAll
      <4>9. \A k \in DOMAIN s : s[k] \in K
        BY <4>7, LenProperties, ElementOfSeq
      <4>10. OnlyLines(f, s) BY <4>9 DEF OnlyLines, K
      <4>11. Tidy(FALSE, s)
        <5>1. \A k \in DOMAIN s : s[k].kind = "line"
          BY <4>9 DEF K, OfKind
        <5>2. "line" # "sep" OBVIOUS
        <5> QED BY <5>1, <5>2 DEF Tidy
      <4> HIDE DEF context
      <4> QED
        BY <2>1, <4>1, <4>4, <4>6, <4>7, <4>8, <4>10, <4>11 DEF s, N, W, K, context
    <3> QED BY <3>4, <3>5
  <2> QED BY <2>2, <2>3
<1> QED BY <1>4, <1>5

Kinds == {"line", "binary", "name", "count"}

\* Of a single entry, what is of a kind.
LEMMA OneEntry ==
    ASSUME NEW x \in GrepEntry, NEW f, NEW kind
    PROVE  /\ <<x>> \in Seq(GrepEntry) /\ DOMAIN <<x>> = {1} /\ <<x>>[1] = x /\ <<x>> # <<>>
           /\ In(<<x>>, OfKind(f, kind)) = IF x.kind = kind /\ x.file = f THEN <<x>> ELSE <<>>
<1> DEFINE s == <<x>>
           K == OfKind(f, kind)
<1>1. s \in Seq(GrepEntry) /\ DOMAIN s = {1} /\ s[1] = x /\ s # <<>>
  OBVIOUS
<1>2. x \in K <=> x.kind = kind /\ x.file = f BY DEF OfKind
<1>3. CASE x \in K
  <2>1. s \in Seq(K) BY <1>3
  <2> HIDE DEF s, K
  <2>2. In(s, K) = s BY ONLY <2>1, InAll
  <2> QED BY <1>1, <1>2, <1>3, <2>2 DEF s, K
<1>4. CASE x \notin K
  <2> HIDE DEF s, K
  <2>1. In(s, K) = <<>> BY <1>1, <1>4, InNone
  <2> QED BY <1>1, <1>2, <1>4, <2>1 DEF s, K
<1> QED BY <1>3, <1>4

\* As many lines count as are selected.
LEMMA CountIs ==
    ASSUME NEW cfg, IsCommand(cfg), NEW file, IsFile(file)
    PROVE  /\ selected_count(cfg, file) = Cardinality(HitsOf(cfg, file))
           /\ Cardinality(HitsOf(cfg, file)) \in Nat
           /\ Cardinality(HitsOf(cfg, file)) > 0 <=> HitsOf(cfg, file) # {}
<1> DEFINE W == HitsOf(cfg, file)
           lines == file.lines
<1>1. CASE file.binary /\ cfg.binaryFiles = "without-match"
  <2>1. W = {} BY <1>1 DEF HitsOf
  <2>2. Cardinality({}) = 0 BY FS_EmptySet
  <2>3. selected_count(cfg, file) = 0 BY <1>1 DEF selected_count
  <2> HIDE DEF W
  <2> QED BY <2>1, <2>2, <2>3 DEF W
<1>2. CASE ~(file.binary /\ cfg.binaryFiles = "without-match")
  <2>1. W = Hits(cfg, lines) /\ selected_count(cfg, file) = Len(match_indices(cfg, lines))
    BY <1>2 DEF HitsOf, selected_count
  <2>2. lines \in Seq(BOOLEAN) /\ cfg.max \in Int
    BY DEF IsFile, IsCommand
  <2> HIDE DEF lines
  <2>3. Len(match_indices(cfg, lines)) = Cardinality(Hits(cfg, lines)) /\ IsFiniteSet(Hits(cfg, lines))
    BY <2>2, MatchesAre
  <2> HIDE DEF W
  <2>4. Cardinality(W) \in Nat /\ (Cardinality(W) = 0 <=> W = {})
    BY <2>1, <2>3, FS_CardinalityType, FS_EmptySet
  <2>5. Cardinality(W) > 0 <=> W # {} BY <2>4
  <2> QED BY <2>1, <2>3, <2>4, <2>5 DEF W
<1> QED BY <1>1, <1>2

\* What is said about a file after its lines.
Said(cfg, f, file) ==
    IF cfg.quiet THEN <<>>
    ELSE IF Notice(cfg, file) THEN <<Entry("binary", f, 0, "")>>
    ELSE IF cfg.show = (IF HitsOf(cfg, file) # {} THEN "with" ELSE "without") THEN <<Entry("name", f, 0, "")>>
    ELSE IF cfg.show = "count" THEN <<Entry("count", f, Cardinality(HitsOf(cfg, file)), "")>>
    ELSE <<>>

LEMMA SummaryIs ==
    ASSUME NEW cfg, IsCommand(cfg), NEW f, NEW file, IsFile(file)
    PROVE  Summary(cfg, f, file) = Said(cfg, f, file)
<1> DEFINE n == selected_count(cfg, file)
           W == HitsOf(cfg, file)
<1>1. n = Cardinality(W) /\ Cardinality(W) \in Nat /\ (n > 0 <=> W # {}) /\ (n = 0 <=> W = {})
  <2>1. n = Cardinality(W) /\ Cardinality(W) \in Nat /\ (Cardinality(W) > 0 <=> W # {})
    BY CountIs
  <2> HIDE DEF n, W
  <2> QED BY <2>1
<1> HIDE DEF n, W
<1>2. CASE cfg.quiet BY <1>2 DEF Summary, Said
<1>3. CASE ~cfg.quiet /\ n > 0 /\ file.binary /\ cfg.binaryFiles = "binary"
  <2>1. Notice(cfg, file) BY <1>1, <1>3 DEF Notice, W
  <2> QED BY <1>3, <2>1 DEF Summary, Said, n
<1>4. CASE ~cfg.quiet /\ ~(n > 0 /\ file.binary /\ cfg.binaryFiles = "binary")
  <2>1. ~Notice(cfg, file) BY <1>1, <1>4 DEF Notice, W
  <2>2. Summary(cfg, f, file) =
          IF (cfg.show = "with" /\ n > 0) \/ (cfg.show = "without" /\ n = 0)
          THEN <<Entry("name", f, 0, "")>>
          ELSE IF cfg.show = "count" THEN <<Entry("count", f, n, "")>> ELSE <<>>
    BY <1>4 DEF Summary, n
  <2>3. Said(cfg, f, file) =
          IF cfg.show = (IF W # {} THEN "with" ELSE "without") THEN <<Entry("name", f, 0, "")>>
          ELSE IF cfg.show = "count" THEN <<Entry("count", f, Cardinality(W), "")>> ELSE <<>>
    BY <1>4, <2>1 DEF Said, W
  <2>4. (cfg.show = "with" /\ n > 0) \/ (cfg.show = "without" /\ n = 0) <=>
          cfg.show = (IF W # {} THEN "with" ELSE "without")
    BY <1>1
  <2> DEFINE p == (cfg.show = "with" /\ n > 0) \/ (cfg.show = "without" /\ n = 0)
             q == cfg.show = (IF W # {} THEN "with" ELSE "without")
             x == <<Entry("count", f, n, "")>>
             y == <<Entry("count", f, Cardinality(W), "")>>
  <2>5. x = y BY <1>1
  <2> HIDE DEF x, y
  <2>6. Summary(cfg, f, file) = IF p THEN <<Entry("name", f, 0, "")>> ELSE IF cfg.show = "count" THEN x ELSE <<>>
    BY <2>2 DEF x
  <2>7. Said(cfg, f, file) = IF q THEN <<Entry("name", f, 0, "")>> ELSE IF cfg.show = "count" THEN y ELSE <<>>
    BY <2>3 DEF y
  <2>8. p <=> q BY <2>4
  <2>9. CASE p
    <3>1. Summary(cfg, f, file) = <<Entry("name", f, 0, "")>>
      BY ONLY <2>6, <2>9
    <3>2. Said(cfg, f, file) = <<Entry("name", f, 0, "")>>
      BY ONLY <2>7, <2>8, <2>9
    <3> QED BY <3>1, <3>2
  <2>10. CASE ~p
    <3>1. Summary(cfg, f, file) = IF cfg.show = "count" THEN x ELSE <<>>
      BY ONLY <2>6, <2>10
    <3>2. Said(cfg, f, file) = IF cfg.show = "count" THEN y ELSE <<>>
      BY ONLY <2>7, <2>8, <2>10
    <3> QED BY <2>5, <3>1, <3>2
  <2> QED BY <2>9, <2>10
<1> QED BY <1>2, <1>3, <1>4

\* What is said of each kind.
SaidRight(cfg, f, file, u) ==
    LET W == HitsOf(cfg, file)
    IN  /\ u \in Seq(GrepEntry) /\ (cfg.quiet => u = <<>>)
        /\ \A k \in DOMAIN u : u[k].kind \in {"binary", "name", "count"} /\ u[k].file = f
        /\ (In(u, OfKind(f, "binary")) # <<>>) <=> (Notice(cfg, file) /\ ~cfg.quiet)
        /\ (In(u, OfKind(f, "name")) # <<>>) <=>
             /\ ~cfg.quiet /\ ~Notice(cfg, file)
             /\ cfg.show = (IF W # {} THEN "with" ELSE "without")
        /\ In(u, OfKind(f, "count")) = IF ~cfg.quiet /\ ~Notice(cfg, file) /\ cfg.show = "count"
                                       THEN <<Entry("count", f, Cardinality(W), "")>> ELSE <<>>

LEMMA SaidOfKind ==
    ASSUME NEW cfg, IsCommand(cfg), NEW f \in Nat, NEW file, IsFile(file)
    PROVE  SaidRight(cfg, f, file, Said(cfg, f, file))
<1> DEFINE u == Said(cfg, f, file)
           W == HitsOf(cfg, file)
           with == cfg.show = (IF W # {} THEN "with" ELSE "without")
           c == Entry("count", f, Cardinality(W), "")
           b == Entry("binary", f, 0, "")
           a == Entry("name", f, 0, "")
           e == <<>>
           Of(s, kind) == In(s, OfKind(f, kind))
<1>1. Cardinality(W) \in Nat BY CountIs
<1>2. /\ c \in GrepEntry /\ c.kind = "count" /\ c.file = f
      /\ b \in GrepEntry /\ b.kind = "binary" /\ b.file = f
      /\ a \in GrepEntry /\ a.kind = "name" /\ a.file = f
  <2> HIDE DEF W
  <2> QED BY <1>1 DEF Entry, GrepEntry
<1>3. e \in Seq(GrepEntry) /\ DOMAIN e = {} /\ \A kind : Of(e, kind) = e
  <2>1. e \in Seq(GrepEntry) /\ DOMAIN e = {} OBVIOUS
  <2> HIDE DEF e
  <2>2. \A kind : Of(e, kind) = <<>> BY <2>1, InNone
  <2> QED BY <2>1, <2>2 DEF e
<1>4. ASSUME NEW x \in GrepEntry, x.file = f
      PROVE  /\ <<x>> \in Seq(GrepEntry) /\ DOMAIN <<x>> = {1} /\ <<x>>[1] = x /\ <<x>> # e
             /\ \A kind : Of(<<x>>, kind) = IF x.kind = kind THEN <<x>> ELSE e
  <2>1. <<x>> \in Seq(GrepEntry) /\ DOMAIN <<x>> = {1} /\ <<x>>[1] = x /\ <<x>> # <<>>
    BY OneEntry
  <2>2. ASSUME NEW kind PROVE Of(<<x>>, kind) = IF x.kind = kind THEN <<x>> ELSE <<>>
    BY <1>4, OneEntry
  <2> QED BY <2>1, <2>2
<1>5. u = IF cfg.quiet THEN e ELSE IF Notice(cfg, file) THEN <<b>> ELSE IF with THEN <<a>>
          ELSE IF cfg.show = "count" THEN <<c>> ELSE e
  BY DEF Said
<1>6. with => cfg.show # "count" OBVIOUS
<1> HIDE DEF u, W, with, a, b, c, e, Of
<1>7. /\ u \in Seq(GrepEntry) /\ (cfg.quiet => u = e)
      /\ \A k \in DOMAIN u : u[k].kind \in {"binary", "name", "count"} /\ u[k].file = f
      /\ (Of(u, "binary") # e) <=> (Notice(cfg, file) /\ ~cfg.quiet)
      /\ (Of(u, "name") # e) <=> (~cfg.quiet /\ ~Notice(cfg, file) /\ with)
      /\ Of(u, "count") = IF ~cfg.quiet /\ ~Notice(cfg, file) /\ cfg.show = "count" THEN <<c>> ELSE e
  <2>1. CASE cfg.quiet
    <3>1. u = e BY <1>5, <2>1
    <3> QED BY <1>3, <2>1, <3>1
  <2>2. CASE ~cfg.quiet /\ Notice(cfg, file)
    <3>1. u = <<b>> BY <1>5, <2>2
    <3>2. /\ u \in Seq(GrepEntry) /\ DOMAIN u = {1} /\ u[1] = b /\ u # e
          /\ Of(u, "binary") = u /\ Of(u, "name") = e /\ Of(u, "count") = e
      BY <1>2, <1>4, <3>1
    <3> QED BY <1>2, <2>2, <3>2
  <2>3. CASE ~cfg.quiet /\ ~Notice(cfg, file) /\ with
    <3>1. u = <<a>> BY <1>5, <2>3
    <3>2. /\ u \in Seq(GrepEntry) /\ DOMAIN u = {1} /\ u[1] = a /\ u # e
          /\ Of(u, "binary") = e /\ Of(u, "name") = u /\ Of(u, "count") = e
      BY <1>2, <1>4, <3>1
    <3> QED BY <1>2, <1>6, <2>3, <3>2
  <2>4. CASE ~cfg.quiet /\ ~Notice(cfg, file) /\ ~with /\ cfg.show = "count"
    <3>1. u = <<c>> BY <1>5, <2>4
    <3>2. /\ u \in Seq(GrepEntry) /\ DOMAIN u = {1} /\ u[1] = c /\ u # e
          /\ Of(u, "binary") = e /\ Of(u, "name") = e /\ Of(u, "count") = u
      BY <1>2, <1>4, <3>1
    <3> QED BY <1>2, <2>4, <3>1, <3>2
  <2>5. CASE ~cfg.quiet /\ ~Notice(cfg, file) /\ ~with /\ cfg.show # "count"
    <3>1. u = e BY <1>5, <2>5
    <3> QED BY <1>3, <2>5, <3>1
  <2> QED BY <2>1, <2>2, <2>3, <2>4, <2>5
<1> QED BY ONLY <1>7 DEF SaidRight, u, W, with, c, e, Of

\* All that is printed is about the file.
About(f, s) == \A k \in DOMAIN s : s[k] = Separator \/ s[k].file = f

\* What is printed about a file.
Part(cfg, f, file) == IF file.readable THEN FileLines(cfg, f, file) \o Said(cfg, f, file) ELSE <<>>

\* What it has of each kind.
PartRight(cfg, f, file, s) ==
    LET W == HitsOf(cfg, file)
    IN  /\ In(s, OfKind(f, "line")) = Shown(f, W, LineNumbers(cfg, file))
        /\ (In(s, OfKind(f, "binary")) # <<>>) <=> (Notice(cfg, file) /\ ~cfg.quiet)
        /\ (In(s, OfKind(f, "name")) # <<>>) <=>
             /\ ~cfg.quiet /\ ~Notice(cfg, file)
             /\ cfg.show = (IF W # {} THEN "with" ELSE "without")
        /\ In(s, OfKind(f, "count")) = IF ~cfg.quiet /\ ~Notice(cfg, file) /\ cfg.show = "count"
                                       THEN <<Entry("count", f, Cardinality(W), "")>> ELSE <<>>

\* What is printed about a readable file.
LEMMA ReadableIs ==
    ASSUME NEW cfg, IsCommand(cfg), NEW f \in Nat, NEW file, IsFile(file)
    PROVE  LET s == FileLines(cfg, f, file) \o Said(cfg, f, file)
           IN  /\ s \in Seq(GrepEntry) /\ (cfg.quiet => s = <<>>)
               /\ Tidy(cfg.before + cfg.after > 0, s) /\ About(f, s) /\ PartRight(cfg, f, file, s)
<1> DEFINE a == FileLines(cfg, f, file)
           u == Said(cfg, f, file)
           s == a \o u
           context == cfg.before + cfg.after > 0
           W == HitsOf(cfg, file)
           N == LineNumbers(cfg, file)
           e == <<>>
           Of(t, kind) == In(t, OfKind(f, kind))
           with == cfg.show = (IF W # {} THEN "with" ELSE "without")
           c == <<Entry("count", f, Cardinality(W), "")>>
<1>1. /\ a \in Seq(GrepEntry) /\ OnlyLines(f, a) /\ Tidy(context, a)
      /\ Of(a, "line") = Shown(f, W, N)
  BY LinesPrinted
<1>2. /\ u \in Seq(GrepEntry) /\ (cfg.quiet => u = e)
      /\ \A k \in DOMAIN u : u[k].kind \in {"binary", "name", "count"} /\ u[k].file = f
      /\ (Of(u, "binary") # e) <=> (Notice(cfg, file) /\ ~cfg.quiet)
      /\ (Of(u, "name") # e) <=> (~cfg.quiet /\ ~Notice(cfg, file) /\ with)
      /\ Of(u, "count") = IF ~cfg.quiet /\ ~Notice(cfg, file) /\ cfg.show = "count" THEN c ELSE e
  <2>1. SaidRight(cfg, f, file, u) BY SaidOfKind
  <2> HIDE DEF u
  <2> QED BY ONLY <2>1 DEF SaidRight, Of, W, with, c, e
<1>3. cfg.quiet => a = e BY DEF FileLines, scan_text
<1>4. Separator.kind = "sep" BY EntriesAre
<1> HIDE DEF a, u, context, W, N, with, c
<1>5. s \in Seq(GrepEntry) /\ \A kind : Of(s, kind) = Of(a, kind) \o Of(u, kind)
  <2>1. a \in Seq(GrepEntry) /\ u \in Seq(GrepEntry) BY <1>1, <1>2
  <2>2. s \in Seq(GrepEntry) BY ONLY <2>1, ConcatElements DEF s
  <2>3. ASSUME NEW kind PROVE Of(s, kind) = Of(a, kind) \o Of(u, kind)
    <3> DEFINE K == OfKind(f, kind)
    <3> HIDE DEF K
    <3>1. In(a \o u, K) = In(a, K) \o In(u, K) BY ONLY <2>1, InConcat
    <3> QED BY <3>1 DEF K
  <2> QED BY <2>2, <2>3
<1>6. ASSUME NEW kind PROVE Of(a, kind) \in Seq(GrepEntry) /\ Of(u, kind) \in Seq(GrepEntry)
  BY <1>1, <1>2, InType
<1>7. Of(u, "line") = e
  <2> DEFINE K == OfKind(f, "line")
  <2>1. \A k \in DOMAIN u : u[k] \notin K BY <1>2 DEF OfKind
  <2> HIDE DEF K
  <2>2. In(u, K) = <<>> BY <1>2, <2>1, InNone
  <2> QED BY <2>2 DEF K
<1>8. ASSUME NEW kind \in {"binary", "name", "count"} PROVE Of(a, kind) = e
  <2> DEFINE K == OfKind(f, kind)
  <2>1. \A k \in DOMAIN a : a[k] \notin K
    BY <1>1, <1>4 DEF OfKind, OnlyLines
  <2> HIDE DEF K
  <2>2. In(a, K) = <<>> BY <1>1, <2>1, InNone
  <2> QED BY <2>2 DEF K
<1> HIDE DEF Of, s
<1>9. ASSUME NEW t \in Seq(GrepEntry) PROVE t \o e = t /\ e \o t = t
  BY ConcatEmptySeq
<1>10. Of(s, "line") = Shown(f, W, N) BY <1>1, <1>5, <1>6, <1>7, <1>9
<1>11. ASSUME NEW kind \in {"binary", "name", "count"} PROVE Of(s, kind) = Of(u, kind)
  BY <1>5, <1>6, <1>8, <1>9
<1>12. PartRight(cfg, f, file, s)
  <2>1. (Of(s, "binary") # e) <=> (Notice(cfg, file) /\ ~cfg.quiet)
    BY <1>2, <1>11
  <2>2. (Of(s, "name") # e) <=> (~cfg.quiet /\ ~Notice(cfg, file) /\ with)
    BY <1>2, <1>11
  <2>3. Of(s, "count") = IF ~cfg.quiet /\ ~Notice(cfg, file) /\ cfg.show = "count" THEN c ELSE e
    <3>1. Of(s, "count") = Of(u, "count") BY <1>11
    <3> QED BY <1>2, <3>1
  <2> HIDE DEF s
  <2> QED BY ONLY <1>10, <2>1, <2>2, <2>3 DEF PartRight, Of, W, N, with, c, e
<1>13. About(f, s)
  <2>1. /\ Len(a) \in Nat /\ Len(u) \in Nat /\ DOMAIN a = 1..Len(a) /\ DOMAIN u = 1..Len(u) /\ DOMAIN s = 1..Len(a) + Len(u)
        /\ \A i \in 1..Len(a) : s[i] = a[i]
        /\ \A i \in 1..Len(u) : s[Len(a) + i] = u[i]
    <3>1. a \in Seq(GrepEntry) /\ u \in Seq(GrepEntry) BY <1>1, <1>2
    <3> QED BY ONLY <3>1, ConcatElements DEF s
  <2>2. \A k \in DOMAIN a : a[k] = Separator \/ a[k].file = f
    BY <1>1 DEF OnlyLines, OfKind
  <2>3. ASSUME NEW k \in 1..Len(a) + Len(u) PROVE s[k] = Separator \/ s[k].file = f
    <3>1. CASE k \in 1..Len(a) BY <2>1, <2>2, <3>1
    <3>2. CASE k \notin 1..Len(a)
      <4> DEFINE j == k - Len(a)
      <4>1. j \in 1..Len(u) /\ k = Len(a) + j BY <2>1, <3>2
      <4> HIDE DEF j
      <4> QED BY <1>2, <2>1, <4>1
    <3> QED BY <3>1, <3>2
  <2> QED BY <2>1, <2>3 DEF About
<1>14. Tidy(context, s)
  <2>1. \A k \in DOMAIN u : u[k].kind # "sep" /\ u[k].kind # "line"
    BY <1>2
  <2>2. Tidy(context, u) BY <2>1 DEF Tidy, IsLine
  <2>3. ~IsLine(u, 1) BY <2>1 DEF IsLine
  <2> QED BY <1>1, <1>2, <2>2, <2>3, TidyConcat DEF s
<1>15. cfg.quiet => s = e
  <2>1. ASSUME cfg.quiet PROVE s = e
    <3>1. a = e /\ u = e BY <1>2, <1>3, <2>1
    <3>2. e \o e = e OBVIOUS
    <3> QED BY <3>1, <3>2 DEF s
  <2> QED BY <2>1
<1> QED BY <1>5, <1>12, <1>13, <1>14, <1>15 DEF s, a, u, context, e

\* What is printed about a file that may be unreadable.
LEMMA PartIs ==
    ASSUME NEW cfg, IsCommand(cfg), NEW f \in Nat, NEW file, IsFile(file)
    PROVE  /\ Part(cfg, f, file) \in Seq(GrepEntry)
           /\ cfg.quiet \/ ~file.readable => Part(cfg, f, file) = <<>>
           /\ Tidy(cfg.before + cfg.after > 0, Part(cfg, f, file)) /\ About(f, Part(cfg, f, file))
           /\ file.readable => PartRight(cfg, f, file, Part(cfg, f, file))
<1> DEFINE s == FileLines(cfg, f, file) \o Said(cfg, f, file)
           context == cfg.before + cfg.after > 0
           p == Part(cfg, f, file)
<1>1. CASE file.readable
  <2>1. /\ s \in Seq(GrepEntry) /\ (cfg.quiet => s = <<>>)
        /\ Tidy(context, s) /\ About(f, s) /\ PartRight(cfg, f, file, s)
    BY ReadableIs
  <2>2. p = s BY <1>1 DEF Part
  <2> HIDE DEF p, s, context
  <2> QED BY <1>1, <2>1, <2>2 DEF p, context
<1>2. CASE ~file.readable
  <2>1. p = <<>> BY <1>2 DEF Part
  <2>2. <<>> \in Seq(GrepEntry) /\ Tidy(context, <<>>) BY NothingTidy
  <2>3. About(f, <<>>) BY DEF About
  <2> HIDE DEF p, context
  <2> QED BY <1>2, <2>1, <2>2, <2>3 DEF p, context
<1> QED BY <1>1, <1>2

\* Where grep stands between two files.
GrepState == [out : Seq(GrepEntry), found : BOOLEAN, bad : BOOLEAN]

\* One file more.
LEMMA GrepFileIs ==
    ASSUME NEW cfg, IsCommand(cfg), NEW f \in Nat, NEW file, IsFile(file), NEW s \in GrepState
    PROVE  LET t == GrepFile(cfg, f, file, s)
           IN  /\ t \in GrepState
               /\ t.out = s.out \o Part(cfg, f, file)
               /\ t.found <=> s.found \/ (file.readable /\ HitsOf(cfg, file) # {})
               /\ ~cfg.quiet => (t.bad <=> s.bad \/ ~file.readable)
<1> DEFINE t == GrepFile(cfg, f, file, s)
           p == Part(cfg, f, file)
           a == FileLines(cfg, f, file)
           u == Summary(cfg, f, file)
           n == selected_count(cfg, file)
           W == HitsOf(cfg, file)
<1>1. p \in Seq(GrepEntry) /\ (cfg.quiet \/ ~file.readable => p = <<>>)
  BY PartIs
<1>2. n \in Nat /\ (n > 0 <=> W # {})
  <2>1. n = Cardinality(W) /\ Cardinality(W) \in Nat /\ (Cardinality(W) > 0 <=> W # {})
    BY CountIs
  <2> HIDE DEF n, W
  <2> QED BY <2>1
<1>3. u = Said(cfg, f, file) BY SummaryIs
<1>4. a \in Seq(GrepEntry) /\ u \in Seq(GrepEntry)
  <2>1. a \in Seq(GrepEntry) BY LinesPrinted
  <2>2. Said(cfg, f, file) \in Seq(GrepEntry)
    <3>1. SaidRight(cfg, f, file, Said(cfg, f, file)) BY SaidOfKind
    <3> QED BY ONLY <3>1 DEF SaidRight
  <2> QED BY <1>3, <2>1, <2>2
<1>5. file.readable => p = a \o u BY <1>3 DEF Part
<1>6. /\ s = [out |-> s.out, found |-> s.found, bad |-> s.bad]
      /\ s.out \in Seq(GrepEntry) /\ s.found \in BOOLEAN /\ s.bad \in BOOLEAN
  BY DEF GrepState
<1>7. t = CASE cfg.quiet /\ s.found -> s
            [] ~(cfg.quiet /\ s.found) /\ ~file.readable -> [s EXCEPT !.bad = TRUE]
            [] OTHER -> [s EXCEPT !.out = s.out \o a \o u, !.found = s.found \/ n > 0]
  BY DEF GrepFile, FileLines
<1>8. s.out \o <<>> = s.out BY <1>6, ConcatEmptySeq
<1> HIDE DEF t, p, a, u, n, W
<1>9. CASE cfg.quiet /\ s.found
  <2>1. t = s BY <1>7, <1>9
  <2>2. p = <<>> BY <1>1, <1>9
  <2> QED BY <1>6, <1>8, <1>9, <2>1, <2>2 DEF t, p, W
<1>10. CASE ~(cfg.quiet /\ s.found) /\ ~file.readable
  <2>1. t = [s EXCEPT !.bad = TRUE] BY <1>7, <1>10
  <2>2. t.out = s.out /\ t.found = s.found /\ t.bad = TRUE /\ t \in GrepState
    BY <1>6, <2>1 DEF GrepState
  <2>3. p = <<>> BY <1>1, <1>10
  <2> QED BY <1>8, <1>10, <2>2, <2>3 DEF t, p, W
<1>11. CASE ~(cfg.quiet /\ s.found) /\ file.readable
  <2> DEFINE o == s.out \o a \o u
             b == s.found \/ n > 0
  <2>1. t = [s EXCEPT !.out = o, !.found = b] BY <1>7, <1>11
  <2>2. o = s.out \o p
    <3>1. s.out \o a \o u = s.out \o (a \o u)
      <4> DEFINE v == s.out
      <4>1. v \in Seq(GrepEntry) BY <1>6
      <4> HIDE DEF v
      <4>2. (v \o a) \o u = v \o (a \o u)
        BY ONLY <1>4, <4>1, ConcatAssociates
      <4> QED BY <4>2 DEF v
    <3> QED BY <1>5, <1>11, <3>1
  <2>3. o \in Seq(GrepEntry) BY <1>1, <1>6, <2>2, ConcatProperties
  <2>4. b \in BOOLEAN /\ (b <=> s.found \/ W # {}) BY <1>2, <1>6
  <2> HIDE DEF o, b
  <2>5. t.out = o /\ t.found = b /\ t.bad = s.bad /\ t \in GrepState
    BY <1>6, <2>1, <2>3, <2>4 DEF GrepState
  <2> QED BY <1>11, <2>2, <2>4, <2>5 DEF t, p, W
<1> QED BY <1>9, <1>10, <1>11

\* Where grep stands after the last file.
GrepAfter(cfg, files) ==
    LET after[k \in 0..Len(files)] ==
          IF k = 0 THEN [out |-> <<>>, found |-> FALSE, bad |-> FALSE]
          ELSE GrepFile(cfg, k, files[k], after[k - 1])
    IN  after[Len(files)]

\* grep goes through its files.
LEMMA GrepAfterIs ==
    ASSUME NEW cfg, NEW files, Len(files) \in Nat
    PROVE  \E h : h = [k \in 0..Len(files) |-> IF k = 0 THEN [out |-> <<>>, found |-> FALSE, bad |-> FALSE] ELSE GrepFile(cfg, k, files[k], h[k - 1])] /\ GrepAfter(cfg, files) = h[Len(files)]
<1> DEFINE v == [out |-> <<>>, found |-> FALSE, bad |-> FALSE]
           G(s, k) == GrepFile(cfg, k, files[k], s)
           T == {m \in Nat : \E h : h = [k \in 0..m |-> IF k = 0 THEN v ELSE G(h[k - 1], k)]}
<1> HIDE DEF v, G
<1>1. 0 \in T
  <2> DEFINE h == [k \in 0..0 |-> v]
  <2>1. h = [k \in 0..0 |-> IF k = 0 THEN v ELSE G(h[k - 1], k)] OBVIOUS
  <2> HIDE DEF h
  <2> QED BY <2>1
<1>2. ASSUME NEW m \in Nat, m \in T PROVE m + 1 \in T
  <2>1. PICK h : h = [k \in 0..m |-> IF k = 0 THEN v ELSE G(h[k - 1], k)]
    BY <1>2
  <2> DEFINE g == [k \in 0..m + 1 |-> IF k \in 0..m THEN h[k] ELSE G(h[m], k)]
  <2>2. ASSUME NEW k \in 0..m + 1 PROVE g[k] = IF k = 0 THEN v ELSE G(g[k - 1], k)
    <3>1. CASE k = 0 BY <2>1, <3>1
    <3>2. CASE k \in 1..m
      <4>1. k \in 0..m /\ k - 1 \in 0..m /\ k # 0 /\ k - 1 \in 0..m + 1
        BY <3>2
      <4>2. g[k] = h[k] /\ g[k - 1] = h[k - 1] BY <4>1
      <4> HIDE DEF g
      <4> QED BY <2>1, <4>1, <4>2
    <3>3. CASE k = m + 1
      <4>1. k \notin 0..m /\ k - 1 = m /\ m \in 0..m /\ k # 0 /\ m \in 0..m + 1
        BY <3>3
      <4>2. g[k] = G(h[m], k) /\ g[m] = h[m] BY <4>1
      <4> HIDE DEF g
      <4> QED BY <4>1, <4>2
    <3> QED BY <3>1, <3>2, <3>3
  <2>3. g = [k \in 0..m + 1 |-> IF k = 0 THEN v ELSE G(g[k - 1], k)]
    <3>1. g = [k \in 0..m + 1 |-> g[k]] OBVIOUS
    <3> HIDE DEF g
    <3> QED BY <2>2, <3>1
  <2> HIDE DEF g
  <2> QED BY <2>3
<1>3. Nat \subseteq T
  <2> HIDE DEF T
  <2> QED BY <1>1, <1>2, SetInduction
<1>4. \E h : h = [k \in 0..Len(files) |-> IF k = 0 THEN v ELSE G(h[k - 1], k)]
  BY <1>3
<1> DEFINE C == CHOOSE h : h = [k \in 0..Len(files) |-> IF k = 0 THEN [out |-> <<>>, found |-> FALSE, bad |-> FALSE] ELSE GrepFile(cfg, k, files[k], h[k - 1])]
<1>5. C = [k \in 0..Len(files) |-> IF k = 0 THEN [out |-> <<>>, found |-> FALSE, bad |-> FALSE] ELSE GrepFile(cfg, k, files[k], C[k - 1])]
  BY <1>4 DEF v, G
<1>6. GrepAfter(cfg, files) = C[Len(files)] BY DEF GrepAfter
<1> HIDE DEF C
<1> QED BY <1>5, <1>6

\* The files are files.
AreFiles(files) == \A k \in 1..Len(files) : IsFile(files[k])

\* What is printed so far, whether something was found, and whether a file could not be read.
GrepSoFar(cfg, files, k, s) ==
    /\ s \in GrepState /\ Tidy(cfg.before + cfg.after > 0, s.out)
    /\ \A i \in DOMAIN s.out : s.out[i].file \in 0..k
    /\ \A j \in 1..k, kind \in Kinds : In(s.out, OfKind(j, kind)) = In(Part(cfg, j, files[j]), OfKind(j, kind))
    /\ s.found <=> \E j \in 1..k : files[j].readable /\ HitsOf(cfg, files[j]) # {}
    /\ ~cfg.quiet => (s.bad <=> \E j \in 1..k : ~files[j].readable)

\* What is about a file is of no other one.
LEMMA OtherFile ==
    ASSUME NEW f, NEW s \in Seq(GrepEntry), About(f, s), NEW j, j # f, NEW kind \in Kinds
    PROVE  In(s, OfKind(j, kind)) = <<>>
<1> DEFINE K == OfKind(j, kind)
<1>1. Separator.kind = "sep" /\ "sep" \notin Kinds
  BY EntriesAre DEF Kinds
<1>2. \A k \in DOMAIN s : s[k] \notin K BY <1>1 DEF About, OfKind
<1> HIDE DEF K
<1>3. In(s, K) = <<>> BY <1>2, InNone
<1> QED BY <1>3 DEF K

\* One file more is printed after the others.
LEMMA GrepNext ==
    ASSUME NEW cfg, IsCommand(cfg), NEW files, NEW k \in Nat, IsFile(files[k + 1]), NEW s,
           GrepSoFar(cfg, files, k, s)
    PROVE  GrepSoFar(cfg, files, k + 1, GrepFile(cfg, k + 1, files[k + 1], s))
<1> DEFINE j == k + 1
           file == files[j]
           t == GrepFile(cfg, j, file, s)
           p == Part(cfg, j, file)
           o == s.out
           w == o \o p
           context == cfg.before + cfg.after > 0
<1>0. j \in Nat /\ j > 0 /\ j = k + 1 /\ IsFile(file) OBVIOUS
<1>1. /\ s \in GrepState /\ o \in Seq(GrepEntry) /\ Tidy(context, o)
      /\ \A i \in DOMAIN o : o[i].file \in 0..k
      /\ \A i \in 1..k, kind \in Kinds : In(o, OfKind(i, kind)) = In(Part(cfg, i, files[i]), OfKind(i, kind))
      /\ s.found <=> \E i \in 1..k : files[i].readable /\ HitsOf(cfg, files[i]) # {}
      /\ ~cfg.quiet => (s.bad <=> \E i \in 1..k : ~files[i].readable)
  BY DEF GrepSoFar, GrepState
<1> HIDE DEF j
<1>2. p \in Seq(GrepEntry) /\ Tidy(context, p) /\ About(j, p)
  BY <1>0, PartIs
<1>3. /\ t \in GrepState
      /\ t.out = w
      /\ t.found <=> s.found \/ (file.readable /\ HitsOf(cfg, file) # {})
      /\ ~cfg.quiet => (t.bad <=> s.bad \/ ~file.readable)
  <2>1. IsCommand(cfg) /\ j \in Nat /\ IsFile(file) /\ s \in GrepState
    BY <1>0, <1>1
  <2>2. o = s.out OBVIOUS
  <2> HIDE DEF file, o
  <2> QED BY ONLY <2>1, <2>2, GrepFileIs DEF t, w, p
<1>4. Separator.kind = "sep" /\ Separator.file = 0 BY EntriesAre
<1>5. \A i : i \in 1..j <=> i \in 1..k \/ i = j BY <1>0
<1>6. t.found <=> \E i \in 1..j : files[i].readable /\ HitsOf(cfg, files[i]) # {}
  <2> HIDE DEF t
  <2> QED BY <1>1, <1>3, <1>5
<1>7. ~cfg.quiet => (t.bad <=> \E i \in 1..j : ~files[i].readable)
  <2> HIDE DEF t
  <2> QED BY <1>1, <1>3, <1>5
<1> HIDE DEF t, file, p, o, context
<1>8. /\ Len(o) \in Nat /\ Len(p) \in Nat /\ DOMAIN o = 1..Len(o) /\ DOMAIN p = 1..Len(p)
      /\ DOMAIN w = 1..Len(o) + Len(p) /\ w \in Seq(GrepEntry)
      /\ \A i \in 1..Len(o) : w[i] = o[i]
      /\ \A i \in 1..Len(p) : w[Len(o) + i] = p[i]
  <2>1. o \in Seq(GrepEntry) /\ p \in Seq(GrepEntry) BY <1>1, <1>2
  <2> QED BY ONLY <2>1, ConcatElements DEF w
<1>9. \A i \in DOMAIN p : p[i].file \in 0..j
  BY <1>0, <1>2, <1>4 DEF About
<1>10. ASSUME NEW i \in DOMAIN w PROVE w[i].file \in 0..j
  <2>1. CASE i \in 1..Len(o)
    <3>1. w[i].file \in 0..k BY <1>1, <1>8, <2>1
    <3> QED BY <1>0, <3>1
  <2>2. CASE i \notin 1..Len(o)
    <3> DEFINE l == i - Len(o)
    <3>1. i \in 1..Len(o) + Len(p) BY <1>8
    <3>2. l \in 1..Len(p) /\ i = Len(o) + l BY <1>8, <2>2, <3>1
    <3> HIDE DEF l
    <3> QED BY <1>8, <1>9, <3>2
  <2> QED BY <2>1, <2>2
<1>11. Tidy(context, w)
  <2>1. ASSUME IsLine(o, Len(o)), IsLine(p, 1) PROVE ~Leaves(o[Len(o)], p[1])
    <3>1. o[Len(o)].file \in 0..k BY <1>1, <2>1 DEF IsLine
    <3>2. p[1].file = j BY <1>2, <1>4, <2>1 DEF IsLine, About
    <3>3. o[Len(o)].file # p[1].file BY <1>0, <3>1, <3>2
    <3> QED BY <3>3 DEF Leaves
  <2> QED BY <1>1, <1>2, <2>1, TidyConcat DEF w
<1>12. ASSUME NEW i \in 1..j, NEW kind \in Kinds
       PROVE  In(w, OfKind(i, kind)) = In(Part(cfg, i, files[i]), OfKind(i, kind))
  <2> DEFINE K == OfKind(i, kind)
  <2>1. In(w, K) = In(o, K) \o In(p, K)
    <3>1. o \in Seq(GrepEntry) /\ p \in Seq(GrepEntry) BY <1>1, <1>2
    <3> HIDE DEF K
    <3> QED BY ONLY <3>1, InConcat DEF w
  <2>2. In(o, K) \in Seq(GrepEntry) /\ In(p, K) \in Seq(GrepEntry)
    BY <1>1, <1>2, InType
  <2>3. CASE i \in 1..k
    <3>1. i # j BY <1>0, <2>3
    <3>2. In(p, K) = <<>> BY <1>2, <3>1, OtherFile
    <3>3. In(o, K) = In(Part(cfg, i, files[i]), K) BY <1>1, <2>3
    <3>4. In(o, K) \o <<>> = In(o, K) BY <2>2, ConcatEmptySeq
    <3> HIDE DEF K, w
    <3> QED BY <2>1, <3>2, <3>3, <3>4 DEF K
  <2>4. CASE i = j
    <3>1. \A l \in DOMAIN o : o[l] \notin K
      <4>1. \A l \in DOMAIN o : o[l].file # j BY <1>0, <1>1
      <4> QED BY <2>4, <4>1 DEF OfKind
    <3> HIDE DEF K, w
    <3>2. In(o, K) = <<>> BY <1>1, <3>1, InNone
    <3>3. <<>> \o In(p, K) = In(p, K) BY <2>2, ConcatEmptySeq
    <3>4. p = Part(cfg, i, files[i]) BY <2>4 DEF p, file
    <3> QED BY <2>1, <3>2, <3>3, <3>4 DEF K
  <2> QED BY <1>5, <2>3, <2>4
<1> HIDE DEF w
<1>13. GrepSoFar(cfg, files, j, t)
  BY <1>3, <1>6, <1>7, <1>10, <1>11, <1>12 DEF GrepSoFar, context
<1> QED BY <1>13 DEF t, file, j

\* After the last file.
LEMMA GrepAtEnd ==
    ASSUME NEW cfg, IsCommand(cfg), NEW files, Len(files) \in Nat, AreFiles(files)
    PROVE  GrepSoFar(cfg, files, Len(files), GrepAfter(cfg, files))
<1> DEFINE n == Len(files)
           v == [out |-> <<>>, found |-> FALSE, bad |-> FALSE]
<1>1. PICK h : /\ h = [k \in 0..n |-> IF k = 0 THEN v ELSE GrepFile(cfg, k, files[k], h[k - 1])]
               /\ GrepAfter(cfg, files) = h[n]
  BY GrepAfterIs
<1> HIDE DEF v, n
<1>2. n \in Nat BY DEF n
<1>3. h[0] = v /\ \A k \in 1..n : h[k] = GrepFile(cfg, k, files[k], h[k - 1])
  <2>1. ASSUME NEW k \in 0..n PROVE h[k] = IF k = 0 THEN v ELSE GrepFile(cfg, k, files[k], h[k - 1])
    BY <1>1
  <2> QED BY <1>2, <2>1
<1> DEFINE T == {k \in Nat : k <= n => GrepSoFar(cfg, files, k, h[k])}
<1>4. 0 \in T
  <2> DEFINE e == <<>>
  <2>1. v.out = e /\ v.found = FALSE /\ v.bad = FALSE /\ v \in GrepState
    BY DEF v, GrepState
  <2>2. Tidy(cfg.before + cfg.after > 0, e) /\ DOMAIN e = {}
    <3>1. DOMAIN e = {} OBVIOUS
    <3> HIDE DEF e
    <3> QED BY <3>1 DEF Tidy
  <2>3. 1..0 = {} OBVIOUS
  <2> HIDE DEF e
  <2>4. GrepSoFar(cfg, files, 0, v) BY <2>1, <2>2, <2>3 DEF GrepSoFar
  <2> QED BY <1>3, <2>4
<1>5. ASSUME NEW k \in Nat, k \in T PROVE k + 1 \in T
  <2> SUFFICES ASSUME k + 1 <= n PROVE GrepSoFar(cfg, files, k + 1, h[k + 1])
    OBVIOUS
  <2> DEFINE j == k + 1
  <2>1. j \in 1..n /\ j - 1 = k /\ k <= n BY <1>2
  <2>2. GrepSoFar(cfg, files, k, h[k]) BY <1>5, <2>1
  <2>3. IsFile(files[k + 1])
    <3>1. IsFile(files[j])
      <4> HIDE DEF j
      <4> QED BY <2>1 DEF AreFiles, n
    <3> QED BY <3>1
  <2>4. GrepSoFar(cfg, files, k + 1, GrepFile(cfg, k + 1, files[k + 1], h[k]))
    BY <2>2, <2>3, GrepNext
  <2>5. h[k + 1] = GrepFile(cfg, k + 1, files[k + 1], h[k])
    <3>1. h[j] = GrepFile(cfg, j, files[j], h[k])
      <4> HIDE DEF j
      <4> QED BY <1>3, <2>1
    <3> QED BY <3>1
  <2> QED BY <2>4, <2>5
<1>6. Nat \subseteq T
  <2> HIDE DEF T
  <2> QED BY <1>4, <1>5, SetInduction
<1>7. n \in T /\ n <= n
  <2> HIDE DEF T
  <2> QED BY <1>2, <1>6
<1> QED BY <1>1, <1>7 DEF n

\* The selected lines of a file, if it can be read.
HitsAt(cfg, file) == IF ~file.readable THEN {} ELSE HitsOf(cfg, file)

\* The numbers of the lines that are printed.
Numbers(s) == [k \in DOMAIN s |-> s[k].number]

\* What is printed about a file.
FileShown(cfg, file, f, readable, s) ==
    LET W == HitsAt(cfg, file)
        notice == file.binary /\ cfg.binaryFiles = "binary" /\ W # {}
        near == {i \in DOMAIN file.lines : \E h \in W : i \in h - cfg.before..h + cfg.after}
        prints == ~cfg.quiet /\ cfg.show = "lines" /\ ~notice
        of(kind) == Those(s, {k \in DOMAIN s : s[k].kind = kind /\ s[k].file = f})
    IN  /\ Numbers(of("line")) = IF prints THEN Listed(Len(file.lines), near) ELSE <<>>
        /\ \A x \in ToSet(of("line")) : x.mark = ":" <=> x.number \in W
        /\ (of("binary") # <<>>) <=> notice /\ ~cfg.quiet
        /\ (of("name") # <<>>) <=>
             /\ ~cfg.quiet /\ readable /\ ~notice
             /\ cfg.show = IF W # {} THEN "with" ELSE "without"
        /\ of("count") = IF ~cfg.quiet /\ readable /\ ~notice /\ cfg.show = "count"
                         THEN <<Entry("count", f, Cardinality(W), "")>> ELSE <<>>

\* What grep prints and how it ends.
GrepRight(cfg, files, o) ==
    LET readable == {f \in DOMAIN files : files[f].readable}
    IN  /\ \A f \in DOMAIN files : FileShown(cfg, files[f], f, f \in readable, o.out)
        /\ Tidy(cfg.before + cfg.after > 0, o.out)
        /\ o.status = IF ~cfg.quiet /\ readable # DOMAIN files THEN 2
                      ELSE IF \E f \in readable : HitsAt(cfg, files[f]) # {} THEN 0 ELSE 1

\* The lines shown are the lines they are shown for.
LEMMA ShownNumbers ==
    ASSUME NEW f \in Nat, NEW H, NEW q \in Seq(Nat)
    PROVE  /\ Numbers(Shown(f, H, q)) = q
           /\ \A x \in ToSet(Shown(f, H, q)) : x.mark = ":" <=> x.number \in H
<1> DEFINE s == Shown(f, H, q)
           n == Len(q)
<1>1. /\ s \in Seq(GrepEntry) /\ Len(s) = n /\ \A k \in 1..n : s[k] = LineOf(f, H, q[k])
  BY ShownIs
<1>2. n \in Nat /\ DOMAIN s = 1..n /\ DOMAIN q = 1..n /\ \A k \in 1..n : q[k] \in Nat
  BY <1>1, LenProperties, ElementOfSeq
<1>3. q = [k \in 1..n |-> q[k]]
  <2>1. q \in [1..Len(q) -> Nat] BY LenProperties
  <2> QED BY <2>1
<1> HIDE DEF s, n
<1>4. ASSUME NEW k \in 1..n
      PROVE  s[k].number = q[k] /\ (s[k].mark = ":" <=> q[k] \in H)
  <2>1. q[k] \in Nat BY <1>2
  <2>2. /\ LineOf(f, H, q[k]).number = q[k]
        /\ LineOf(f, H, q[k]).mark = IF q[k] \in H THEN ":" ELSE "-"
    BY <2>1, LineIs
  <2> QED BY <1>1, <2>2
<1>5. Numbers(s) = q
  <2>1. Numbers(s) = [k \in 1..n |-> s[k].number] BY <1>2 DEF Numbers
  <2> QED BY <1>3, <1>4, <2>1
<1>6. ASSUME NEW x \in ToSet(s) PROVE x.mark = ":" <=> x.number \in H
  <2>1. PICK k \in 1..n : x = s[k] BY <1>2 DEF ToSet
  <2> QED BY <1>4, <2>1
<1> QED BY <1>5, <1>6 DEF s

\* What has the right part of a file shows the file.
LEMMA PartShown ==
    ASSUME NEW cfg, IsCommand(cfg), NEW f \in Nat, NEW file, IsFile(file), NEW s \in Seq(GrepEntry),
           \A kind \in Kinds : In(s, OfKind(f, kind)) = In(Part(cfg, f, file), OfKind(f, kind))
    PROVE  FileShown(cfg, file, f, file.readable, s)
<1> DEFINE W == HitsAt(cfg, file)
           notice == file.binary /\ cfg.binaryFiles = "binary" /\ W # {}
           near == {i \in DOMAIN file.lines : \E h \in W : i \in h - cfg.before..h + cfg.after}
           prints == ~cfg.quiet /\ cfg.show = "lines" /\ ~notice
           of(kind) == Those(s, {k \in DOMAIN s : s[k].kind = kind /\ s[k].file = f})
           p == Part(cfg, f, file)
           N == IF prints THEN Listed(Len(file.lines), near) ELSE <<>>
           with == cfg.show = IF W # {} THEN "with" ELSE "without"
           c == <<Entry("count", f, Cardinality(W), "")>>
           e == <<>>
           r == file.readable
<1>1. ASSUME NEW kind \in Kinds PROVE of(kind) = In(p, OfKind(f, kind))
  <2>1. \A k \in DOMAIN s : s[k] \in GrepEntry
    BY LenProperties, ElementOfSeq
  <2>2. {k \in DOMAIN s : s[k].kind = kind /\ s[k].file = f} = {k \in DOMAIN s : s[k] \in OfKind(f, kind)}
    BY <2>1 DEF OfKind
  <2>3. of(kind) = In(s, OfKind(f, kind)) BY <2>2 DEF In
  <2> HIDE DEF of, p
  <2> QED BY <2>3 DEF p
<1>2. "line" \in Kinds /\ "binary" \in Kinds /\ "name" \in Kinds /\ "count" \in Kinds
  BY DEF Kinds
<1>3. Len(file.lines) \in Nat /\ DOMAIN file.lines = 1..Len(file.lines)
  BY LenProperties DEF IsFile
<1>4. /\ Numbers(of("line")) = N
      /\ \A x \in ToSet(of("line")) : x.mark = ":" <=> x.number \in W
      /\ (of("binary") # e) <=> notice /\ ~cfg.quiet
      /\ (of("name") # e) <=> (~cfg.quiet /\ r /\ ~notice) /\ with
      /\ of("count") = IF ~cfg.quiet /\ r /\ ~notice /\ cfg.show = "count" THEN c ELSE e
  <2>1. CASE r
    <3>1. W = HitsOf(cfg, file) BY <2>1 DEF HitsAt
    <3>2. (notice <=> Notice(cfg, file)) /\ near = NearOf(cfg, file)
      <4> HIDE DEF W
      <4> QED BY <3>1 DEF Notice, NearOf
    <3>3. N = LineNumbers(cfg, file)
      <4> HIDE DEF W, notice, near
      <4> QED BY <3>2 DEF LineNumbers, Prints
    <3>4. PartRight(cfg, f, file, p) BY <2>1, PartIs
    <3> HIDE DEF W, notice, near, N, p, of
    <3>5. /\ of("line") = Shown(f, W, N)
          /\ (of("binary") # e) <=> (notice /\ ~cfg.quiet)
          /\ (of("name") # e) <=> (~cfg.quiet /\ ~notice /\ with)
          /\ of("count") = IF ~cfg.quiet /\ ~notice /\ cfg.show = "count" THEN c ELSE e
      <4>1. of("line") = Shown(f, W, N)
        BY <1>1, <1>2, <3>1, <3>3, <3>4 DEF PartRight
      <4>2. (of("binary") # e) <=> (notice /\ ~cfg.quiet)
        BY <1>1, <1>2, <3>2, <3>4 DEF PartRight
      <4>3. (of("name") # e) <=> (~cfg.quiet /\ ~notice /\ with)
        BY <1>1, <1>2, <3>1, <3>2, <3>4 DEF PartRight
      <4>4. of("count") = IF ~cfg.quiet /\ ~notice /\ cfg.show = "count" THEN c ELSE e
        <5>1. of("count") = IF ~cfg.quiet /\ ~Notice(cfg, file) /\ cfg.show = "count" THEN c ELSE e
          BY <1>1, <1>2, <3>1, <3>4 DEF PartRight
        <5> HIDE DEF c, e
        <5> QED BY <3>2, <5>1
      <4> HIDE DEF with, c, e
      <4> QED BY <4>1, <4>2, <4>3, <4>4
    <3>6. N \in Seq(Nat)
      <4>1. near \subseteq 1..Len(file.lines) BY <1>3 DEF near
      <4>2. Listed(Len(file.lines), near) \in Seq(near)
        BY <1>3, <4>1, ListedSet
      <4>3. near \subseteq Nat BY <4>1
      <4>4. Listed(Len(file.lines), near) \in Seq(Nat)
        BY <4>2, <4>3, SeqMonotonic
      <4>5. <<>> \in Seq(Nat) OBVIOUS
      <4> QED BY <4>4, <4>5 DEF N
    <3>7. /\ Numbers(Shown(f, W, N)) = N
          /\ \A x \in ToSet(Shown(f, W, N)) : x.mark = ":" <=> x.number \in W
      BY <3>6, ShownNumbers
    <3> HIDE DEF with, c, e, r
    <3>8. /\ (of("name") # e) <=> (~cfg.quiet /\ r /\ ~notice) /\ with
          /\ of("count") = IF ~cfg.quiet /\ r /\ ~notice /\ cfg.show = "count" THEN c ELSE e
      BY <2>1, <3>5
    <3> QED BY <3>5, <3>7, <3>8
  <2>2. CASE ~r
    <3>1. W = {} BY <2>2 DEF HitsAt
    <3>2. ~notice BY <3>1
    <3>3. near = {} BY <3>1
    <3>4. N = e
      <4>1. Listed(Len(file.lines), {}) = <<>> BY <1>3, NothingShown
      <4> HIDE DEF prints, near
      <4> QED BY <3>3, <4>1
    <3>5. p = e BY <2>2, PartIs
    <3> HIDE DEF W, notice, near, N, p, of
    <3>6. ASSUME NEW kind \in Kinds PROVE of(kind) = e
      <4>1. In(<<>>, OfKind(f, kind)) = <<>> BY NothingTidy
      <4> QED BY <1>1, <3>5, <4>1
    <3>7. Numbers(e) = e /\ ToSet(e) = {} BY DEF Numbers, ToSet
    <3>8. of("line") = e /\ of("binary") = e /\ of("name") = e /\ of("count") = e
      BY <1>2, <3>6
    <3> HIDE DEF with, c, e, r
    <3> QED BY <2>2, <3>2, <3>4, <3>7, <3>8
  <2> QED BY <2>1, <2>2
<1> HIDE DEF of, W, near
<1> QED BY <1>4 DEF FileShown, of, W, near

\* grep shows of every file what it has to show, in the order of the lines, and its
\* status is what it found.
LEMMA GrepHolds ==
    ASSUME NEW cfg, IsCommand(cfg), NEW S, NEW files \in Seq(S), AreFiles(files)
    PROVE  GrepRight(cfg, files, grep(cfg, files))
<1> DEFINE n == Len(files)
           s == GrepAfter(cfg, files)
           o == grep(cfg, files)
           readable == {f \in DOMAIN files : files[f].readable}
           missing == ~cfg.quiet /\ readable # DOMAIN files
           hit == \E f \in readable : HitsAt(cfg, files[f]) # {}
<1>1. n \in Nat /\ DOMAIN files = 1..n BY LenProperties
<1>2. o = [out |-> s.out, status |-> IF s.bad /\ ~cfg.quiet THEN 2 ELSE IF s.found THEN 0 ELSE 1]
  BY DEF grep, GrepAfter
<1>3. o.out = s.out /\ o.status = IF s.bad /\ ~cfg.quiet THEN 2 ELSE IF s.found THEN 0 ELSE 1
  <2> HIDE DEF s, o
  <2> QED BY <1>2
<1>4. GrepSoFar(cfg, files, n, s) BY <1>1, GrepAtEnd
<1> HIDE DEF n, s, o
<1>5. /\ s.out \in Seq(GrepEntry) /\ Tidy(cfg.before + cfg.after > 0, s.out)
      /\ \A f \in 1..n, kind \in Kinds : In(s.out, OfKind(f, kind)) = In(Part(cfg, f, files[f]), OfKind(f, kind))
      /\ s.found <=> \E f \in 1..n : files[f].readable /\ HitsOf(cfg, files[f]) # {}
      /\ ~cfg.quiet => (s.bad <=> \E f \in 1..n : ~files[f].readable)
  BY <1>4 DEF GrepSoFar, GrepState
<1>6. ASSUME NEW f \in DOMAIN files PROVE FileShown(cfg, files[f], f, f \in readable, o.out)
  <2>1. f \in 1..n /\ f \in Nat /\ IsFile(files[f])
    BY <1>1 DEF AreFiles, n
  <2>3. FileShown(cfg, files[f], f, files[f].readable, o.out)
    BY <1>3, <1>5, <2>1, PartShown
  <2>4. f \in readable <=> files[f].readable OBVIOUS
  <2> DEFINE a == files[f].readable
             b == f \in readable
  <2>5. FileShown(cfg, files[f], f, a, o.out) /\ (a <=> b) BY <2>3, <2>4
  <2> HIDE DEF a, b
  <2>6. FileShown(cfg, files[f], f, b, o.out) BY <2>5 DEF FileShown
  <2> QED BY <2>6 DEF b
<1>7. hit <=> s.found BY <1>1, <1>5 DEF HitsAt
<1>8. missing <=> s.bad /\ ~cfg.quiet BY <1>1, <1>5
<1>9. o.status = IF missing THEN 2 ELSE IF hit THEN 0 ELSE 1
  <2> HIDE DEF missing, hit
  <2> QED BY <1>3, <1>7, <1>8
<1>10. Tidy(cfg.before + cfg.after > 0, o.out) BY <1>3, <1>5
<1>11. GrepRight(cfg, files, o)
  <2> HIDE DEF o
  <2> QED BY <1>6, <1>9, <1>10 DEF GrepRight
<1> QED BY <1>11 DEF o

------------------------------------------------------------------------------
(***************************************************************************)
(* GlobMatches for any pattern and any text.  Both the matcher and its     *)
(* reference are recursions over the pattern, so the two are compared from *)
(* its end (BackwardInduction): the places of the text from which the rest *)
(* of the pattern matches are those from which the text can be cut for its *)
(* remaining elements (MatchesFromHere).                                   *)
(***************************************************************************)
\* What stands between the brackets, without the sign of a negated class.
InBrackets(class) == IF class # <<>> /\ class[1] = Caret THEN Tail(class) ELSE class

RangeAt(b, i) == i + 2 <= Len(b) /\ b[i + 1] = Dash

\* What the equations of match_char_class and of ClassSet say of a place.
HitAt(h, b, c, i) ==
    IF i > Len(b) THEN FALSE
    ELSE IF RangeAt(b, i) THEN (c >= b[i] /\ c <= b[i + 2]) \/ h[i + 3]
    ELSE b[i] = c \/ h[i + 1]

NamedFrom(f, b, i) ==
    IF i > Len(b) THEN {}
    ELSE IF RangeAt(b, i) THEN b[i]..b[i + 2] \cup f[i + 3]
    ELSE {b[i]} \cup f[i + 1]

LEMMA HitsExist ==
    ASSUME NEW b \in Seq(Int), NEW c \in Int
    PROVE  \E h : h = [i \in 1..Len(b) + 1 |-> HitAt(h, b, c, i)]
<1> DEFINE n == Len(b) + 1
           D == 1..n
           Step == [h \in [D -> BOOLEAN] |-> [i \in D |-> HitAt(h, b, c, i)]]
<1>1. n \in Nat OBVIOUS
<1>2. Step \in [[D -> BOOLEAN] -> [D -> BOOLEAN]]
  <2>1. ASSUME NEW h \in [D -> BOOLEAN], NEW i \in D PROVE HitAt(h, b, c, i) \in BOOLEAN
    BY Zenon DEF HitAt
  <2> QED BY <2>1
<1>3. FromBehind(Step, n, BOOLEAN)
  <2>1. ASSUME NEW g \in [D -> BOOLEAN], NEW h \in [D -> BOOLEAN], NEW i \in D,
               \A j \in i + 1..n : g[j] = h[j]
        PROVE  Step[g][i] = Step[h][i]
    <3>1. i <= Len(b) => i + 1 \in i + 1..n OBVIOUS
    <3>2. RangeAt(b, i) => i + 3 \in i + 1..n BY DEF RangeAt
    <3>3. HitAt(g, b, c, i) = HitAt(h, b, c, i)
      <4>1. CASE i > Len(b) BY <4>1 DEF HitAt
      <4>2. CASE ~(i > Len(b)) /\ RangeAt(b, i)
        <5>1. g[i + 3] = h[i + 3] BY <2>1, <3>2, <4>2
        <5> QED BY <4>2, <5>1, Zenon DEF HitAt
      <4>3. CASE ~(i > Len(b)) /\ ~RangeAt(b, i)
        <5>1. g[i + 1] = h[i + 1] BY <2>1, <3>1, <4>3
        <5> QED BY <4>3, <5>1, Zenon DEF HitAt
      <4> QED BY <4>1, <4>2, <4>3
    <3> QED BY <3>3
  <2> HIDE DEF Step
  <2> QED BY <2>1 DEF FromBehind
<1>4. PICK h \in [D -> BOOLEAN] : FixedPoint(Step, h)
  <2> HIDE DEF Step, n
  <2> QED BY <1>1, <1>2, <1>3, BackwardRecursion
<1>5. h = [i \in D |-> HitAt(h, b, c, i)] BY <1>4 DEF FixedPoint
<1> QED BY <1>5

LEMMA ClassSetExists ==
    ASSUME NEW b \in Seq(Int)
    PROVE  \E f : f = [i \in 1..Len(b) + 1 |-> NamedFrom(f, b, i)]
<1> DEFINE n == Len(b) + 1
           D == 1..n
           V == SUBSET Int
           Step == [f \in [D -> V] |-> [i \in D |-> NamedFrom(f, b, i)]]
<1>1. n \in Nat /\ {} \in V OBVIOUS
<1>2. ASSUME NEW i \in D
      PROVE  /\ ~(i > Len(b)) => i + 1 \in i + 1..n /\ i + 1 \in D /\ b[i] \in Int
             /\ ~(i > Len(b)) /\ RangeAt(b, i) => i + 3 \in i + 1..n /\ i + 3 \in D /\ b[i]..b[i + 2] \subseteq Int
  BY ElementOfSeq DEF RangeAt
<1>3. Step \in [[D -> V] -> [D -> V]]
  <2>1. ASSUME NEW f \in [D -> V], NEW i \in D PROVE NamedFrom(f, b, i) \in V
    <3> HIDE DEF D
    <3> QED BY <1>2 DEF NamedFrom
  <2> QED BY <2>1
<1>4. FromBehind(Step, n, V)
  <2>1. ASSUME NEW g \in [D -> V], NEW h \in [D -> V], NEW i \in D,
               \A j \in i + 1..n : g[j] = h[j]
        PROVE  Step[g][i] = Step[h][i]
    <3>1. NamedFrom(g, b, i) = NamedFrom(h, b, i)
      BY <1>2, <2>1 DEF NamedFrom
    <3> QED BY <3>1
  <2> HIDE DEF Step
  <2> QED BY <2>1 DEF FromBehind
<1>5. PICK f \in [D -> V] : FixedPoint(Step, f)
  <2> HIDE DEF Step, n, V
  <2> QED BY <1>1, <1>3, <1>4, BackwardRecursion
<1>6. f = [i \in D |-> NamedFrom(f, b, i)] BY <1>5 DEF FixedPoint
<1> QED BY <1>6

\* match_char_class accepts the characters that a class names, or the others.
LEMMA ClassIs ==
    ASSUME NEW class \in Seq(Int), NEW c \in Int
    PROVE  match_char_class(class, c) <=>
             IF class # <<>> /\ class[1] = Caret
             THEN Len(class) > 1 /\ c \notin ClassSet(class)
             ELSE c \in ClassSet(class)
<1> DEFINE b == InBrackets(class)
           n == Len(b) + 1
           negate == class # <<>> /\ class[1] = Caret
           H == CHOOSE h : h = [i \in 1..n |-> HitAt(h, b, c, i)]
           F == CHOOSE f : f = [i \in 1..n |-> NamedFrom(f, b, i)]
<1>1. b \in Seq(Int) /\ (negate => b = Tail(class) /\ Len(b) = Len(class) - 1) /\ (~negate => b = class)
  BY HeadTailProperties DEF InBrackets
<1>2. H = [i \in 1..n |-> HitAt(H, b, c, i)]
  <2> HIDE DEF b
  <2> QED BY <1>1, HitsExist
<1>3. F = [i \in 1..n |-> NamedFrom(F, b, i)]
  <2> HIDE DEF b
  <2> QED BY <1>1, ClassSetExists
<1>4. match_char_class(class, c) <=> (b # <<>> /\ (H[1] # negate))
  BY DEF match_char_class, InBrackets, HitAt, RangeAt
<1>5. ClassSet(class) = F[1]
  BY DEF ClassSet, InBrackets, NamedFrom, RangeAt
<1> HIDE DEF H, F, b
<1>6. n \in Nat /\ 1 \in 1..n /\ \A i \in 1..Len(b) : b[i] \in Int
  BY <1>1, ElementOfSeq
<1>7. \A i \in 1..n : H[i] <=> c \in F[i]
  <2> DEFINE T == {i \in 1..n : H[i] <=> c \in F[i]}
  <2>1. ASSUME NEW i \in 1..n, \A j \in i + 1..n : j \in T PROVE i \in T
    <3>1. H[i] = HitAt(H, b, c, i) /\ F[i] = NamedFrom(F, b, i)
      BY <1>2, <1>3
    <3>2. CASE i > Len(b) BY <3>1, <3>2 DEF HitAt, NamedFrom
    <3>3. CASE ~(i > Len(b)) /\ RangeAt(b, i)
      <4>1. i + 3 \in i + 1..n /\ b[i] \in Int /\ b[i + 2] \in Int
        <5>1. Len(b) \in Nat BY <1>1, LenProperties
        <5>2. i \in 1..Len(b) /\ i + 2 \in 1..Len(b) /\ i + 3 \in i + 1..n
          BY <3>3, <5>1 DEF RangeAt
        <5> QED BY <1>6, <5>2
      <4>2. H[i + 3] <=> c \in F[i + 3] BY <2>1, <4>1
      <4>3. F[i] = b[i]..b[i + 2] \cup F[i + 3]
        BY <3>1, <3>3 DEF NamedFrom
      <4>4. H[i] = ((c >= b[i] /\ c <= b[i + 2]) \/ H[i + 3])
        BY <3>1, <3>3, Zenon DEF HitAt
      <4>5. (c >= b[i] /\ c <= b[i + 2]) <=> c \in b[i]..b[i + 2]
        BY <4>1
      <4>6. H[i] <=> c \in F[i] BY <4>2, <4>3, <4>4, <4>5, Zenon
      <4> QED BY <4>6
    <3>4. CASE ~(i > Len(b)) /\ ~RangeAt(b, i)
      <4>1. i + 1 \in i + 1..n BY <1>1, <3>4
      <4>2. H[i + 1] <=> c \in F[i + 1] BY <2>1, <4>1
      <4>3. F[i] = {b[i]} \cup F[i + 1] BY <3>1, <3>4 DEF NamedFrom
      <4>4. H[i] = (b[i] = c \/ H[i + 1]) BY <3>1, <3>4, Zenon DEF HitAt
      <4>5. H[i] <=> c \in F[i] BY <4>2, <4>3, <4>4, Zenon
      <4> QED BY <4>5
    <3> QED BY <3>2, <3>3, <3>4
  <2>2. 1..n \subseteq T
    <3> HIDE DEF T, n
    <3> QED BY <1>6, <2>1, BackwardInduction
  <2> QED BY <2>2
<1>8. H[1] \in BOOLEAN
  <2>1. H[1] = HitAt(H, b, c, 1) BY <1>2, <1>6
  <2>2. HitAt(H, b, c, 1) \in BOOLEAN
    <3>1. CASE 1 > Len(b) BY <3>1 DEF HitAt
    <3>2. CASE ~(1 > Len(b)) /\ RangeAt(b, 1) BY <3>2, Zenon DEF HitAt
    <3>3. CASE ~(1 > Len(b)) /\ ~RangeAt(b, 1) BY <3>3, Zenon DEF HitAt
    <3> QED BY <3>1, <3>2, <3>3
  <2> QED BY <2>1, <2>2
<1>9. H[1] <=> c \in F[1] BY <1>6, <1>7
<1>10. b = <<>> => F[1] = {} BY <1>1, <1>3, <1>6 DEF NamedFrom
<1>11. negate => (b # <<>> <=> Len(class) > 1) BY <1>1, EmptySeq
<1>12. CASE negate
  <2>1. (H[1] # negate) <=> c \notin F[1] BY <1>8, <1>9, <1>12, Zenon
  <2> QED BY <1>4, <1>5, <1>11, <1>12, <2>1, Zenon
<1>13. CASE ~negate
  <2>1. (H[1] # negate) <=> c \in F[1] BY <1>8, <1>9, <1>13, Zenon
  <2> QED BY <1>4, <1>5, <1>10, <1>13, <2>1, Zenon
<1> QED BY <1>12, <1>13

\* A bracket that closes lies behind the one that opens.
LEMMA BracketEndIs ==
    ASSUME NEW p \in Seq(Int), NEW i \in 1..Len(p)
    PROVE  BracketEnd(p, i) = 0 \/ BracketEnd(p, i) \in i + 1..Len(p)
<1> DEFINE ends == {k \in i + 1..Len(p) : p[k] = Close}
<1>1. BracketEnd(p, i) = IF ends = {} THEN 0 ELSE CHOOSE k \in ends : \A l \in ends : k <= l
  BY DEF BracketEnd
<1>2. CASE ends = {} BY <1>1, <1>2
<1>3. CASE ends # {}
  <2>1. ends \subseteq Nat OBVIOUS
  <2>2. \E k \in ends : \A l \in ends : k <= l
    <3> HIDE DEF ends
    <3> QED BY <1>3, <2>1, LeastNat
  <2>3. BracketEnd(p, i) \in ends
    <3> HIDE DEF ends
    <3> QED BY <1>1, <1>3, <2>2
  <2> QED BY <2>3
<1> QED BY <1>2, <1>3

\* The place behind a run of stars.
BehindStars(p, i, k) ==
    /\ k \in i..Len(p) + 1
    /\ \A l \in i..k - 1 : p[l] = Star
    /\ k <= Len(p) => p[k] # Star

LEMMA AfterStarsIs ==
    ASSUME NEW p \in Seq(Int), NEW i \in 1..Len(p)
    PROVE  BehindStars(p, i, AfterStars(p, i))
<1> DEFINE S == {k \in i..Len(p) + 1 : k <= Len(p) => p[k] # Star}
<1>1. S \subseteq Nat /\ Len(p) + 1 \in S OBVIOUS
<1>2. PICK k \in S : \A l \in S : k <= l
  <2> HIDE DEF S
  <2> QED BY <1>1, LeastNat
<1>3. \A l \in i..k - 1 : p[l] = Star
  <2>1. ASSUME NEW l \in i..k - 1, p[l] # Star PROVE FALSE
    <3>1. l \in S BY <2>1
    <3> QED BY <1>2, <3>1
  <2> QED BY <2>1
<1>4. BehindStars(p, i, k) BY <1>3 DEF BehindStars
<1> QED BY <1>4 DEF AfterStars, BehindStars

\* Of two stars side by side both are before the same place.
LEMMA AfterStarsNext ==
    ASSUME NEW p \in Seq(Int), NEW i \in 1..Len(p), p[i] = Star
    PROVE  IF i + 1 <= Len(p) /\ p[i + 1] = Star THEN AfterStars(p, i) = AfterStars(p, i + 1)
           ELSE AfterStars(p, i) = i + 1
<1> DEFINE a == AfterStars(p, i)
           b == AfterStars(p, i + 1)
<1>1. BehindStars(p, i, a) BY AfterStarsIs
<1>2. CASE i + 1 <= Len(p) /\ p[i + 1] = Star
  <2>1. i + 1 \in 1..Len(p) BY <1>2
  <2>2. BehindStars(p, i + 1, b) BY <2>1, AfterStarsIs
  <2> HIDE DEF a, b
  <2>3. a \in Int /\ b \in Int /\ a >= i + 1 /\ b >= i + 2 /\ a <= Len(p) + 1 /\ b <= Len(p) + 1
    BY <1>1, <1>2, <2>2 DEF BehindStars
  <2>4. ~(a < b)
    <3>1. a < b => a \in i + 1..b - 1 /\ a <= Len(p) BY <2>3
    <3> QED BY <1>1, <2>2, <3>1 DEF BehindStars
  <2>5. ~(b < a)
    <3>1. b < a => b \in i..a - 1 /\ b <= Len(p) BY <2>3
    <3> QED BY <1>1, <2>2, <3>1 DEF BehindStars
  <2>6. a = b BY <2>3, <2>4, <2>5
  <2> QED BY <1>2, <2>6 DEF a, b
<1>3. CASE ~(i + 1 <= Len(p) /\ p[i + 1] = Star)
  <2> HIDE DEF a
  <2>1. a \in i..Len(p) + 1 /\ a # i BY <1>1 DEF BehindStars
  <2>2. a > i + 1 => i + 1 \in i..a - 1 /\ i + 1 <= Len(p) BY <2>1
  <2>3. a = i + 1 BY <1>1, <1>3, <2>1, <2>2 DEF BehindStars
  <2> QED BY <1>3, <2>3 DEF a
<1> QED BY <1>2, <1>3

\* What the equation of wildcard_match says of a place of the pattern.
MatchFrom(f, p, t, i) ==
    IF i > Len(p) THEN {Len(t) + 1}
    ELSE IF p[i] = Star
    THEN IF AfterStars(p, i) > Len(p) THEN 1..Len(t) + 1
         ELSE {j \in 1..Len(t) + 1 : \E k \in j..Len(t) + 1 : k \in f[AfterStars(p, i)]}
    ELSE {j \in 1..Len(t) :
            IF p[i] = Question THEN j + 1 \in f[i + 1]
            ELSE IF p[i] = Open /\ BracketEnd(p, i) # 0
            THEN /\ match_char_class(SubSeq(p, i + 1, BracketEnd(p, i) - 1), t[j])
                 /\ j + 1 \in f[BracketEnd(p, i) + 1]
            ELSE p[i] = t[j] /\ j + 1 \in f[i + 1]}

LEMMA MatchExists ==
    ASSUME NEW p \in Seq(Int), NEW t \in Seq(Int)
    PROVE  \E f : f = [i \in 1..Len(p) + 1 |-> MatchFrom(f, p, t, i)]
<1> DEFINE n == Len(p) + 1
           D == 1..n
           V == SUBSET Nat
           Step == [f \in [D -> V] |-> [i \in D |-> MatchFrom(f, p, t, i)]]
<1>1. n \in Nat /\ {} \in V OBVIOUS
<1>2. ASSUME NEW i \in D, ~(i > Len(p))
      PROVE  /\ i + 1 \in i + 1..n
             /\ p[i] = Star => AfterStars(p, i) \in i + 1..n
             /\ BracketEnd(p, i) # 0 => BracketEnd(p, i) + 1 \in i + 1..n
  <2>1. i \in 1..Len(p) BY <1>2
  <2>2. p[i] = Star => AfterStars(p, i) \in i + 1..n
    BY <2>1, AfterStarsIs DEF BehindStars
  <2>3. BracketEnd(p, i) # 0 => BracketEnd(p, i) + 1 \in i + 1..n
    BY <2>1, BracketEndIs
  <2> QED BY <2>1, <2>2, <2>3
<1>3. Step \in [[D -> V] -> [D -> V]]
  <2>1. ASSUME NEW f \in [D -> V], NEW i \in D PROVE MatchFrom(f, p, t, i) \in V
    BY DEF MatchFrom
  <2> QED BY <2>1
<1>4. FromBehind(Step, n, V)
  <2>1. ASSUME NEW g \in [D -> V], NEW h \in [D -> V], NEW i \in D,
               \A j \in i + 1..n : g[j] = h[j]
        PROVE  Step[g][i] = Step[h][i]
    <3>1. MatchFrom(g, p, t, i) = MatchFrom(h, p, t, i)
      <4>1. CASE i > Len(p) BY <4>1 DEF MatchFrom
      <4>2. CASE ~(i > Len(p)) /\ p[i] = Star
        <5>1. g[AfterStars(p, i)] = h[AfterStars(p, i)]
          BY <1>2, <2>1, <4>2
        <5> QED BY <4>2, <5>1 DEF MatchFrom
      <4>3. CASE ~(i > Len(p)) /\ p[i] # Star
        <5>1. /\ g[i + 1] = h[i + 1]
              /\ BracketEnd(p, i) # 0 => g[BracketEnd(p, i) + 1] = h[BracketEnd(p, i) + 1]
          BY <1>2, <2>1, <4>3
        <5> QED BY <4>3, <5>1 DEF MatchFrom
      <4> QED BY <4>1, <4>2, <4>3
    <3> QED BY <3>1
  <2> HIDE DEF Step
  <2> QED BY <2>1 DEF FromBehind
<1>5. PICK f \in [D -> V] : FixedPoint(Step, f)
  <2> HIDE DEF Step, n, V
  <2> QED BY <1>1, <1>3, <1>4, BackwardRecursion
<1>6. f = [i \in D |-> MatchFrom(f, p, t, i)] BY <1>5 DEF FixedPoint
<1> QED BY <1>6

PatternElement == [class : Seq(Int)] \cup [char : Int]

\* The element at a place of the pattern, and where the next one begins.
HasClass(p, i) == p[i] = Open /\ BracketEnd(p, i) # 0
ElementAt(p, i) ==
    IF HasClass(p, i) THEN [class |-> SubSeq(p, i + 1, BracketEnd(p, i) - 1)] ELSE [char |-> p[i]]
BehindElement(p, i) == IF HasClass(p, i) THEN BracketEnd(p, i) + 1 ELSE i + 1

\* What the equation of Elements says of a place.
ElementsFrom(f, p, i) ==
    IF i > Len(p) THEN <<>>
    ELSE IF p[i] = Open /\ BracketEnd(p, i) # 0
    THEN <<[class |-> SubSeq(p, i + 1, BracketEnd(p, i) - 1)]>> \o f[BracketEnd(p, i) + 1]
    ELSE <<[char |-> p[i]]>> \o f[i + 1]

LEMMA ElementsFromIs ==
    ASSUME NEW f, NEW p, NEW i
    PROVE  ElementsFrom(f, p, i) =
             IF i > Len(p) THEN <<>> ELSE <<ElementAt(p, i)>> \o f[BehindElement(p, i)]
<1>1. CASE HasClass(p, i)
  BY <1>1 DEF ElementsFrom, ElementAt, BehindElement, HasClass
<1>2. CASE ~HasClass(p, i)
  BY <1>2 DEF ElementsFrom, ElementAt, BehindElement, HasClass
<1> QED BY <1>1, <1>2

LEMMA ElementIs ==
    ASSUME NEW p \in Seq(Int), NEW i \in 1..Len(p)
    PROVE  /\ ElementAt(p, i) \in PatternElement
           /\ BehindElement(p, i) \in i + 1..Len(p) + 1
<1>1. p[i] \in Int BY ElementOfSeq
<1>2. BehindElement(p, i) \in i + 1..Len(p) + 1
  BY BracketEndIs DEF BehindElement, HasClass
<1>3. CASE HasClass(p, i)
  <2>1. BracketEnd(p, i) \in i + 1..Len(p)
    BY <1>3, BracketEndIs DEF HasClass
  <2>2. SubSeq(p, i + 1, BracketEnd(p, i) - 1) \in Seq(Int)
    BY <2>1, SubSeqProperties
  <2> QED BY <1>2, <1>3, <2>2 DEF ElementAt, PatternElement
<1>4. CASE ~HasClass(p, i)
  BY <1>1, <1>2, <1>4 DEF ElementAt, PatternElement
<1> QED BY <1>3, <1>4

\* Elements takes the pattern apart from every place on.
LEMMA ElementsAre ==
    ASSUME NEW p \in Seq(Int)
    PROVE  \E f \in [1..Len(p) + 1 -> Seq(PatternElement)] :
             /\ f = [i \in 1..Len(p) + 1 |-> ElementsFrom(f, p, i)]
             /\ Elements(p) = f[1]
<1> DEFINE n == Len(p) + 1
           D == 1..n
           V == Seq(PatternElement)
           Step == [f \in [D -> V] |-> [i \in D |-> ElementsFrom(f, p, i)]]
<1>1. n \in Nat /\ <<>> \in V /\ 1 \in D OBVIOUS
<1>2. ASSUME NEW i \in D, ~(i > Len(p))
      PROVE  BehindElement(p, i) \in i + 1..n /\ BehindElement(p, i) \in D /\ <<ElementAt(p, i)>> \in V
  <2>1. i \in 1..Len(p) BY <1>2
  <2>2. BehindElement(p, i) \in i + 1..n /\ ElementAt(p, i) \in PatternElement
    BY <2>1, ElementIs
  <2> QED BY <2>2
<1>3. Step \in [[D -> V] -> [D -> V]]
  <2>1. ASSUME NEW f \in [D -> V], NEW i \in D PROVE ElementsFrom(f, p, i) \in V
    <3>1. CASE i > Len(p) BY <1>1, <3>1, ElementsFromIs
    <3>2. CASE ~(i > Len(p))
      <4>1. f[BehindElement(p, i)] \in V /\ <<ElementAt(p, i)>> \in V
        BY <1>2, <3>2
      <4>2. <<ElementAt(p, i)>> \o f[BehindElement(p, i)] \in V
        BY <4>1, ConcatProperties
      <4> QED BY <3>2, <4>2, ElementsFromIs
    <3> QED BY <3>1, <3>2
  <2> QED BY <2>1
<1>4. FromBehind(Step, n, V)
  <2>1. ASSUME NEW g \in [D -> V], NEW h \in [D -> V], NEW i \in D,
               \A j \in i + 1..n : g[j] = h[j]
        PROVE  Step[g][i] = Step[h][i]
    <3>1. ElementsFrom(g, p, i) = ElementsFrom(h, p, i)
      BY <1>2, <2>1, ElementsFromIs
    <3> QED BY <3>1
  <2> HIDE DEF Step
  <2> QED BY <2>1 DEF FromBehind
<1>5. PICK g \in [D -> V] : FixedPoint(Step, g)
  <2> HIDE DEF Step, n, V
  <2> QED BY <1>1, <1>3, <1>4, BackwardRecursion
<1>6. g = [i \in D |-> ElementsFrom(g, p, i)] BY <1>5 DEF FixedPoint
<1> DEFINE C == CHOOSE f : f = [i \in D |-> ElementsFrom(f, p, i)]
<1>7. C = [i \in D |-> ElementsFrom(C, p, i)] BY <1>6
<1>8. Elements(p) = C[1] BY DEF Elements, ElementsFrom
<1> HIDE DEF C
<1>9. \A i \in D : C[i] = g[i]
  <2> DEFINE T == {i \in D : C[i] = g[i]}
  <2>1. ASSUME NEW i \in 1..n, \A j \in i + 1..n : j \in T PROVE i \in T
    <3>1. ElementsFrom(C, p, i) = ElementsFrom(g, p, i)
      BY <1>2, <2>1, ElementsFromIs
    <3> QED BY <1>6, <1>7, <3>1
  <2>2. 1..n \subseteq T
    <3> HIDE DEF T, n
    <3> QED BY <1>1, <2>1, BackwardInduction
  <2> QED BY <2>2
<1> QED BY <1>1, <1>6, <1>8, <1>9

\* The i-th element takes what stands between a and b.
PieceOf(s, t, i, a, b) == a <= b /\ Accepts(s[i], SubSeq(t, a + 1, b))

\* From place j on, the text can be cut into one piece for each element.
CutInto(s, t, j) ==
    \E end \in [0..Len(s) -> 0..Len(t)] :
      /\ end[0] = j - 1 /\ end[Len(s)] = Len(t)
      /\ \A i \in DOMAIN s : PieceOf(s, t, i, end[i - 1], end[i])

LEMMA CutIntoNone ==
    ASSUME NEW t \in Seq(Int), NEW j \in 1..Len(t) + 1
    PROVE  CutInto(<<>>, t, j) <=> j = Len(t) + 1
<1>1. Len(<<>>) = 0 /\ DOMAIN <<>> = {} /\ Len(t) \in Nat OBVIOUS
<1>2. ASSUME CutInto(<<>>, t, j) PROVE j = Len(t) + 1
  BY <1>1, <1>2 DEF CutInto
<1>3. ASSUME j = Len(t) + 1 PROVE CutInto(<<>>, t, j)
  <2> DEFINE end == [i \in 0..0 |-> Len(t)]
  <2>1. end \in [0..0 -> 0..Len(t)] /\ end[0] = j - 1 /\ end[0] = Len(t)
    BY <1>1, <1>3
  <2> HIDE DEF end
  <2> QED BY <1>1, <2>1 DEF CutInto
<1> QED BY <1>2, <1>3

LEMMA FrontElement ==
    ASSUME NEW V, NEW x \in V, NEW r \in Seq(V)
    PROVE  /\ <<x>> \o r \in Seq(V) /\ Len(<<x>> \o r) = Len(r) + 1
           /\ DOMAIN (<<x>> \o r) = 1..Len(r) + 1
           /\ (<<x>> \o r)[1] = x
           /\ \A i \in 1..Len(r) : (<<x>> \o r)[i + 1] = r[i]
<1>1. <<x>> \in Seq(V) /\ Len(<<x>>) = 1 /\ <<x>>[1] = x OBVIOUS
<1>2. /\ <<x>> \o r \in Seq(V) /\ Len(<<x>> \o r) = Len(r) + 1
      /\ \A i \in 1..Len(r) + 1 : (<<x>> \o r)[i] = IF i <= 1 THEN <<x>>[i] ELSE r[i - 1]
  BY <1>1, ConcatProperties
<1> QED BY <1>1, <1>2

\* The first piece goes to the first element.
LEMMA CutIntoFirst ==
    ASSUME NEW V, NEW x \in V, NEW r \in Seq(V), NEW t \in Seq(Int), NEW j \in 1..Len(t) + 1
    PROVE  CutInto(<<x>> \o r, t, j) <=>
             \E k \in j..Len(t) + 1 : Accepts(x, SubSeq(t, j, k - 1)) /\ CutInto(r, t, k)
<1> DEFINE s == <<x>> \o r
<1>1. /\ Len(s) = Len(r) + 1 /\ DOMAIN s = 1..Len(r) + 1 /\ s[1] = x
      /\ \A i \in 1..Len(r) : s[i + 1] = r[i]
  BY FrontElement
<1>2. Len(r) \in Nat /\ Len(t) \in Nat /\ DOMAIN r = 1..Len(r) OBVIOUS
<1> HIDE DEF s
<1>3. ASSUME CutInto(s, t, j)
      PROVE  \E k \in j..Len(t) + 1 : Accepts(x, SubSeq(t, j, k - 1)) /\ CutInto(r, t, k)
  <2>1. PICK end \in [0..Len(s) -> 0..Len(t)] :
          /\ end[0] = j - 1 /\ end[Len(s)] = Len(t)
          /\ \A i \in DOMAIN s : PieceOf(s, t, i, end[i - 1], end[i])
    BY <1>3 DEF CutInto
  <2> DEFINE k == end[1] + 1
             rest == [i \in 0..Len(r) |-> end[i + 1]]
  <2>2. 1 \in DOMAIN s /\ end[1] \in 0..Len(t)
    <3>1. 1 \in DOMAIN s /\ 1 \in 0..Len(s) BY ONLY <1>1, <1>2
    <3>2. end[1] \in 0..Len(t)
      BY ONLY <3>1, end \in [0..Len(s) -> 0..Len(t)]
    <3> QED BY ONLY <3>1, <3>2
  <2>3. PieceOf(s, t, 1, j - 1, end[1])
    <3>1. 1 - 1 = 0 OBVIOUS
    <3> QED BY <2>1, <2>2, <3>1
  <2>4. k \in j..Len(t) + 1 /\ Accepts(x, SubSeq(t, j, k - 1))
    <3>1. j - 1 + 1 = j /\ k - 1 = end[1] BY <2>2
    <3>2. j - 1 <= end[1] /\ Accepts(x, SubSeq(t, j - 1 + 1, end[1]))
      BY <1>1, <2>3 DEF PieceOf
    <3>3. Accepts(x, SubSeq(t, j, k - 1)) BY <3>1, <3>2
    <3>4. k \in j..Len(t) + 1 BY <1>2, <2>2, <3>2
    <3> QED BY <3>3, <3>4
  <2>5. rest \in [0..Len(r) -> 0..Len(t)] /\ rest[0] = k - 1 /\ rest[Len(r)] = Len(t)
    BY <1>1, <1>2, <2>1, <2>2
  <2>6. ASSUME NEW i \in DOMAIN r
        PROVE  PieceOf(r, t, i, rest[i - 1], rest[i])
    <3>1. i + 1 \in DOMAIN s /\ s[i + 1] = r[i] /\ i + 1 - 1 = i
      BY <1>1, <1>2
    <3>2. rest[i - 1] = end[i] /\ rest[i] = end[i + 1] BY <1>2
    <3>3. PieceOf(s, t, i + 1, end[i], end[i + 1])
      <4> DEFINE m == i + 1
      <4>1. m \in DOMAIN s /\ m - 1 = i BY <3>1
      <4> HIDE DEF m
      <4>2. PieceOf(s, t, m, end[m - 1], end[m]) BY ONLY <2>1, <4>1
      <4> QED BY <4>1, <4>2 DEF m
    <3> QED BY <3>1, <3>2, <3>3 DEF PieceOf
  <2>7. CutInto(r, t, k)
    <3> HIDE DEF rest, k
    <3> QED BY <2>5, <2>6 DEF CutInto
  <2> QED BY <2>4, <2>7
<1>4. ASSUME NEW k \in j..Len(t) + 1, Accepts(x, SubSeq(t, j, k - 1)), CutInto(r, t, k)
      PROVE  CutInto(s, t, j)
  <2>1. PICK rest \in [0..Len(r) -> 0..Len(t)] :
          /\ rest[0] = k - 1 /\ rest[Len(r)] = Len(t)
          /\ \A i \in DOMAIN r : PieceOf(r, t, i, rest[i - 1], rest[i])
    BY <1>4 DEF CutInto
  <2> DEFINE end == [i \in 0..Len(s) |-> IF i = 0 THEN j - 1 ELSE rest[i - 1]]
  <2>3. \A i \in 0..Len(r) : end[i + 1] = rest[i] BY <1>1, <1>2
  <2>2. end \in [0..Len(s) -> 0..Len(t)] /\ end[0] = j - 1 /\ end[Len(s)] = Len(t)
    <3>1. ASSUME NEW i \in 0..Len(s) PROVE end[i] \in 0..Len(t)
      <4>1. CASE i = 0 BY <1>2, <4>1
      <4>2. CASE i # 0
        <5>1. i - 1 \in 0..Len(r) BY <1>1, <1>2, <4>2
        <5> QED BY <2>1, <4>2, <5>1
      <4> QED BY <4>1, <4>2
    <3>2. 0 \in 0..Len(s) /\ Len(r) \in 0..Len(r) /\ Len(s) = Len(r) + 1
      BY <1>1, <1>2
    <3>3. end[0] = j - 1 /\ end[Len(s)] = Len(t) BY <2>1, <2>3, <3>2
    <3> QED BY <3>1, <3>3
  <2> HIDE DEF end
  <2>4. ASSUME NEW i \in DOMAIN s
        PROVE  PieceOf(s, t, i, end[i - 1], end[i])
    <3>1. CASE i = 1
      <4>1. end[1] = k - 1 /\ i - 1 = 0 BY <1>2, <2>1, <2>3, <3>1
      <4>2. end[i - 1] + 1 = j /\ end[i] = k - 1 /\ end[i - 1] <= end[i]
        BY <2>2, <3>1, <4>1
      <4> QED BY <1>1, <1>4, <3>1, <4>2 DEF PieceOf
    <3>2. CASE i # 1
      <4>1. i - 1 \in DOMAIN r /\ i - 1 \in 0..Len(r) /\ i - 1 - 1 \in 0..Len(r) /\ i - 1 + 1 = i /\ i - 1 - 1 + 1 = i - 1
        BY <1>1, <1>2, <3>2
      <4>2. end[i] = rest[i - 1] /\ end[i - 1] = rest[i - 1 - 1] /\ s[i] = r[i - 1]
        <5>1. end[i - 1 + 1] = rest[i - 1] /\ end[i - 1 - 1 + 1] = rest[i - 1 - 1]
          BY <2>3, <4>1
        <5>2. s[i - 1 + 1] = r[i - 1] BY <1>1, <1>2, <4>1
        <5> QED BY <4>1, <5>1, <5>2
      <4>3. PieceOf(r, t, i - 1, rest[i - 1 - 1], rest[i - 1])
        BY <2>1, <4>1
      <4> QED BY <4>2, <4>3 DEF PieceOf
    <3> QED BY <3>1, <3>2
  <2> QED BY <2>2, <2>4 DEF CutInto
<1> QED BY <1>3, <1>4 DEF s

\* The one character a piece of a text may be.
LEMMA OneCharacter ==
    ASSUME NEW t \in Seq(Int), NEW j \in 1..Len(t) + 1, NEW k \in j..Len(t) + 1
    PROVE  /\ SubSeq(t, j, k - 1) \in Seq(Int) /\ Len(SubSeq(t, j, k - 1)) = k - j
           /\ k = j + 1 => /\ j \in 1..Len(t) /\ t[j] \in Int
                           /\ SubSeq(t, j, k - 1) = <<t[j]>> /\ SubSeq(t, j, k - 1)[1] = t[j]
<1> DEFINE piece == SubSeq(t, j, k - 1)
<1>1. piece \in Seq(Int) /\ Len(piece) = k - j /\ \A i \in 1..k - j : piece[i] = t[j + i - 1]
  BY SubSeqProperties
<1> HIDE DEF piece
<1>2. ASSUME k = j + 1
      PROVE  j \in 1..Len(t) /\ t[j] \in Int /\ piece = <<t[j]>> /\ piece[1] = t[j]
  <2>1. j \in 1..Len(t) /\ k - j = 1 /\ j + 1 - 1 = j BY <1>2
  <2>2. piece[1] = t[j] /\ Len(piece) = 1 BY <1>1, <2>1
  <2>3. t[j] \in Int BY <2>1, ElementOfSeq
  <2>4. piece = <<t[j]>> BY <1>1, <2>2, <2>3
  <2> QED BY <2>1, <2>2, <2>3, <2>4
<1> QED BY <1>1, <1>2 DEF piece

\* What an element of the pattern takes of the text.
TakesOne(p, t, i, j) ==
    \/ p[i] = Question
    \/ /\ p[i] # Question
       /\ IF HasClass(p, i)
          THEN match_char_class(SubSeq(p, i + 1, BracketEnd(p, i) - 1), t[j])
          ELSE p[i] = t[j]

LEMMA ElementTakes ==
    ASSUME NEW p \in Seq(Int), NEW t \in Seq(Int), NEW i \in 1..Len(p),
           NEW j \in 1..Len(t) + 1, NEW k \in j..Len(t) + 1
    PROVE  Accepts(ElementAt(p, i), SubSeq(t, j, k - 1)) <=>
             p[i] = Star \/ (k = j + 1 /\ TakesOne(p, t, i, j))
<1> DEFINE piece == SubSeq(t, j, k - 1)
<1>1. /\ piece \in Seq(Int) /\ Len(piece) = k - j
      /\ k = j + 1 => j \in 1..Len(t) /\ t[j] \in Int /\ piece = <<t[j]>> /\ piece[1] = t[j]
  BY OneCharacter
<1> HIDE DEF piece
<1>2. Len(piece) = 1 <=> k = j + 1 BY <1>1
<1>3. p[i] \in Int /\ Star # Open /\ Question # Open /\ Star # Question
  BY ElementOfSeq DEF Star, Open, Question
<1>4. CASE HasClass(p, i)
  <2> DEFINE class == SubSeq(p, i + 1, BracketEnd(p, i) - 1)
  <2>1. BracketEnd(p, i) \in i + 1..Len(p)
    BY <1>4, BracketEndIs DEF HasClass
  <2>2. class \in Seq(Int)
    <3> DEFINE c == i + 1
               d == BracketEnd(p, i) - 1
    <3>1. c \in Int /\ d \in Int /\ \A z \in c..d : p[z] \in Int
      <4> DEFINE e == BracketEnd(p, i)
      <4>1. Len(p) \in Nat /\ \A z \in 1..Len(p) : p[z] \in Int
        BY ElementOfSeq
      <4>2. e \in i + 1..Len(p) /\ i \in 1..Len(p) BY <2>1
      <4> HIDE DEF e
      <4>3. i + 1 \in Int /\ e - 1 \in Int /\ \A z \in i + 1..e - 1 : z \in 1..Len(p)
        BY ONLY <4>1, <4>2
      <4> QED BY <4>1, <4>3 DEF e
    <3> HIDE DEF c, d
    <3>2. SubSeq(p, c, d) \in Seq(Int) BY ONLY <3>1, SubSeqProperties
    <3> QED BY <3>2 DEF c, d
  <2>3. ElementAt(p, i) = [class |-> class] /\ p[i] # Star /\ p[i] # Question
    BY <1>3, <1>4 DEF ElementAt, HasClass
  <2> HIDE DEF class
  <2>4. "class" \in DOMAIN ElementAt(p, i) /\ ElementAt(p, i).class = class
    BY <2>3
  <2>5. Accepts(ElementAt(p, i), piece) <=>
          /\ Len(piece) = 1
          /\ IF class # <<>> /\ class[1] = Caret
             THEN Len(class) > 1 /\ piece[1] \notin ClassSet(class)
             ELSE piece[1] \in ClassSet(class)
    BY <2>4 DEF Accepts
  <2>6. ASSUME k = j + 1
        PROVE  match_char_class(class, t[j]) <=>
                 IF class # <<>> /\ class[1] = Caret
                 THEN Len(class) > 1 /\ t[j] \notin ClassSet(class)
                 ELSE t[j] \in ClassSet(class)
    BY <1>1, <2>2, <2>6, ClassIs
  <2>7. TakesOne(p, t, i, j) <=> match_char_class(class, t[j])
    BY <1>4, <2>3 DEF TakesOne, class
  <2>8. CASE k = j + 1
    BY <1>1, <1>2, <2>3, <2>5, <2>6, <2>7, <2>8 DEF piece
  <2>9. CASE k # j + 1 BY <1>2, <2>3, <2>5, <2>9 DEF piece
  <2> QED BY <2>8, <2>9
<1>5. CASE ~HasClass(p, i)
  <2>1. ElementAt(p, i) = [char |-> p[i]] BY <1>5 DEF ElementAt
  <2>2. "class" \notin DOMAIN ElementAt(p, i) /\ ElementAt(p, i).char = p[i]
    BY <2>1
  <2>3. Accepts(ElementAt(p, i), piece) <=>
          \/ p[i] = Star
          \/ p[i] = Question /\ Len(piece) = 1
          \/ p[i] \notin {Star, Question} /\ piece = <<p[i]>>
    BY <2>2 DEF Accepts
  <2>4. piece = <<p[i]>> <=> k = j + 1 /\ p[i] = t[j]
    <3>1. ASSUME piece = <<p[i]>> PROVE k = j + 1 /\ p[i] = t[j]
      <4>1. Len(piece) = 1 /\ piece[1] = p[i] BY <1>3, <3>1
      <4> QED BY <1>1, <1>2, <4>1
    <3>2. ASSUME k = j + 1, p[i] = t[j] PROVE piece = <<p[i]>>
      BY <1>1, <3>2
    <3> QED BY <3>1, <3>2
  <2> QED BY <1>2, <1>5, <2>3, <2>4 DEF TakesOne, piece
<1> QED BY <1>4, <1>5

\* The places of a text at or before one of S.
AtOrBefore(S, n) == {j \in 1..n : \E k \in j..n : k \in S}

\* The places from which the text can be cut for the elements.
CutPlaces(s, t) == {j \in 1..Len(t) + 1 : CutInto(s, t, j)}

\* A star looks behind the stars that follow; looking at the next place is the same.
LEMMA StarsAreOne ==
    ASSUME NEW p \in Seq(Int), NEW t \in Seq(Int), NEW f,
           \A j \in 1..Len(p) + 1 : f[j] = MatchFrom(f, p, t, j),
           NEW i \in 1..Len(p), p[i] = Star
    PROVE  f[i] = AtOrBefore(f[i + 1], Len(t) + 1)
<1>1. /\ i \in 1..Len(p) + 1 /\ i + 1 \in 1..Len(p) + 1 /\ ~(i > Len(p))
      /\ f[i] = MatchFrom(f, p, t, i) /\ f[i + 1] = MatchFrom(f, p, t, i + 1)
  OBVIOUS
<1>2. f[i] = IF AfterStars(p, i) > Len(p) THEN 1..Len(t) + 1
             ELSE AtOrBefore(f[AfterStars(p, i)], Len(t) + 1)
  BY <1>1 DEF MatchFrom, AtOrBefore
<1>3. CASE i + 1 <= Len(p) /\ p[i + 1] = Star
  <2>1. AfterStars(p, i) = AfterStars(p, i + 1) BY <1>3, AfterStarsNext
  <2>2. ~(i + 1 > Len(p)) BY <1>3
  <2>3. f[i + 1] = IF AfterStars(p, i + 1) > Len(p) THEN 1..Len(t) + 1
                   ELSE AtOrBefore(f[AfterStars(p, i + 1)], Len(t) + 1)
    BY <1>1, <1>3, <2>2 DEF MatchFrom, AtOrBefore
  <2>4. AtOrBefore(1..Len(t) + 1, Len(t) + 1) = 1..Len(t) + 1
    BY DEF AtOrBefore
  <2>5. \A S : AtOrBefore(AtOrBefore(S, Len(t) + 1), Len(t) + 1) = AtOrBefore(S, Len(t) + 1)
    BY DEF AtOrBefore
  <2> QED BY <1>2, <2>1, <2>3, <2>4, <2>5
<1>4. CASE i + 1 > Len(p)
  <2>1. AfterStars(p, i) = i + 1 BY <1>4, AfterStarsNext
  <2>2. f[i + 1] = {Len(t) + 1} BY <1>1, <1>4 DEF MatchFrom
  <2>3. AtOrBefore({Len(t) + 1}, Len(t) + 1) = 1..Len(t) + 1
    BY DEF AtOrBefore
  <2> QED BY <1>2, <1>4, <2>1, <2>2, <2>3
<1>5. CASE i + 1 <= Len(p) /\ p[i + 1] # Star
  <2>1. AfterStars(p, i) = i + 1 /\ ~(i + 1 > Len(p))
    BY <1>5, AfterStarsNext
  <2> QED BY <1>2, <2>1
<1> QED BY <1>3, <1>4, <1>5

\* wildcard_match, place by place: where the pattern matches from i on is where
\* the text can be cut for its elements from i on.
BothSides(f, e, p, t, i) ==
    /\ \A j \in 1..Len(p) + 1 : f[j] = MatchFrom(f, p, t, j)
    /\ e \in [1..Len(p) + 1 -> Seq(PatternElement)]
    /\ \A j \in 1..Len(p) + 1 : e[j] = ElementsFrom(e, p, j)
    /\ \A j \in i + 1..Len(p) + 1 : f[j] = CutPlaces(e[j], t)

LEMMA MatchesFromHere ==
    ASSUME NEW p \in Seq(Int), NEW t \in Seq(Int), NEW f, NEW e,
           NEW i \in 1..Len(p) + 1, BothSides(f, e, p, t, i)
    PROVE  f[i] = CutPlaces(e[i], t)
<1>0. /\ \A j \in 1..Len(p) + 1 : f[j] = MatchFrom(f, p, t, j)
      /\ e \in [1..Len(p) + 1 -> Seq(PatternElement)]
      /\ \A j \in 1..Len(p) + 1 : e[j] = ElementsFrom(e, p, j)
      /\ \A j \in i + 1..Len(p) + 1 : f[j] = CutPlaces(e[j], t)
  BY DEF BothSides
<1>1. f[i] = MatchFrom(f, p, t, i) /\ e[i] = ElementsFrom(e, p, i)
  BY <1>0
<1>2. CASE i > Len(p)
  <2>1. f[i] = {Len(t) + 1} /\ e[i] = <<>>
    BY <1>1, <1>2 DEF MatchFrom, ElementsFrom
  <2>2. CutPlaces(<<>>, t) = {Len(t) + 1} BY CutIntoNone DEF CutPlaces
  <2> QED BY <2>1, <2>2
<1>3. CASE ~(i > Len(p))
  <2> DEFINE x == ElementAt(p, i)
             b == BehindElement(p, i)
             n == Len(t) + 1
  <2>1. /\ i \in 1..Len(p) /\ i + 1 \in i + 1..Len(p) + 1
        /\ x \in PatternElement /\ b \in i + 1..Len(p) + 1
    BY <1>3, ElementIs
  <2>2. e[i] = <<x>> \o e[b] /\ e[b] \in Seq(PatternElement)
    <3>1. ElementsFrom(e, p, i) = IF i > Len(p) THEN <<>> ELSE <<x>> \o e[b]
      BY ElementsFromIs
    <3>2. b \in 1..Len(p) + 1 BY <2>1
    <3> HIDE DEF b, x
    <3> QED BY <1>0, <1>1, <1>3, <3>1, <3>2
  <2>3. f[b] = CutPlaces(e[b], t) /\ f[i + 1] = CutPlaces(e[i + 1], t)
    BY <1>0, <2>1
  <2>4. ASSUME NEW j \in 1..n, NEW k \in j..n
        PROVE  Accepts(x, SubSeq(t, j, k - 1)) <=> p[i] = Star \/ (k = j + 1 /\ TakesOne(p, t, i, j))
    BY <2>1, ElementTakes
  <2>5. ASSUME NEW j \in 1..n
        PROVE  CutInto(e[i], t, j) <=>
                 \E k \in j..n : Accepts(x, SubSeq(t, j, k - 1)) /\ CutInto(e[b], t, k)
    <3> HIDE DEF x, b
    <3>1. CutInto(<<x>> \o e[b], t, j) <=>
            \E k \in j..n : Accepts(x, SubSeq(t, j, k - 1)) /\ CutInto(e[b], t, k)
      BY <2>1, <2>2, CutIntoFirst
    <3> QED BY <2>2, <3>1
  <2>6. ASSUME NEW j \in 1..n, NEW k \in j..n PROVE CutInto(e[b], t, k) <=> k \in f[b]
    <3>1. k \in 1..Len(t) + 1 OBVIOUS
    <3> HIDE DEF b
    <3> QED BY <2>3, <3>1 DEF CutPlaces
  <2>7. ASSUME NEW j \in 1..n
        PROVE  CutInto(e[i], t, j) <=>
                 \E k \in j..n : (p[i] = Star \/ (k = j + 1 /\ TakesOne(p, t, i, j))) /\ k \in f[b]
    <3> HIDE DEF x, b, n
    <3> QED BY <2>4, <2>5, <2>6
  <2>9. CASE p[i] = Star
    <3>1. b = i + 1 BY <2>9 DEF BehindElement, HasClass, Star, Open
    <3>2. f[i] = AtOrBefore(f[b], n)
      <4>1. f[i] = AtOrBefore(f[i + 1], Len(t) + 1)
        <5>1. /\ p \in Seq(Int) /\ t \in Seq(Int) /\ i \in 1..Len(p) /\ p[i] = Star
              /\ \A j \in 1..Len(p) + 1 : f[j] = MatchFrom(f, p, t, j)
          BY <1>0, <2>1, <2>9
        <5> QED BY ONLY <5>1, StarsAreOne
      <4> QED BY <3>1, <4>1
    <3>3. CutPlaces(e[i], t) = {j \in 1..n : \E k \in j..n : k \in f[b]}
      <4> HIDE DEF b, x
      <4> QED BY <2>7, <2>9 DEF CutPlaces
    <3> QED BY <3>2, <3>3 DEF AtOrBefore
  <2>10. CASE p[i] # Star
    <3>1. f[i] = {j \in 1..Len(t) : TakesOne(p, t, i, j) /\ j + 1 \in f[b]}
      <4>1. CASE p[i] = Question
        <5>1. b = i + 1
          BY <4>1 DEF BehindElement, HasClass, Question, Open
        <5>2. f[i] = {j \in 1..Len(t) : j + 1 \in f[i + 1]}
          BY <1>1, <1>3, <2>10, <4>1 DEF MatchFrom
        <5> HIDE DEF b
        <5> QED BY <4>1, <5>1, <5>2 DEF TakesOne
      <4>2. CASE p[i] # Question /\ HasClass(p, i)
        <5>1. b = BracketEnd(p, i) + 1 /\ p[i] = Open /\ BracketEnd(p, i) # 0
          BY <4>2 DEF BehindElement, HasClass
        <5>2. f[i] = {j \in 1..Len(t) :
                        /\ match_char_class(SubSeq(p, i + 1, BracketEnd(p, i) - 1), t[j])
                        /\ j + 1 \in f[BracketEnd(p, i) + 1]}
          BY <1>1, <1>3, <2>10, <4>2, <5>1 DEF MatchFrom
        <5> HIDE DEF b
        <5> QED BY <4>2, <5>1, <5>2 DEF TakesOne
      <4>3. CASE p[i] # Question /\ ~HasClass(p, i)
        <5>1. b = i + 1 /\ ~(p[i] = Open /\ BracketEnd(p, i) # 0)
          BY <4>3 DEF BehindElement, HasClass
        <5>2. f[i] = {j \in 1..Len(t) : p[i] = t[j] /\ j + 1 \in f[i + 1]}
          BY <1>1, <1>3, <2>10, <4>3, <5>1 DEF MatchFrom
        <5> HIDE DEF b
        <5> QED BY <4>3, <5>1, <5>2 DEF TakesOne
      <4> QED BY <4>1, <4>2, <4>3
    <3>2. ASSUME NEW j \in 1..n
          PROVE  CutInto(e[i], t, j) <=> j \in 1..Len(t) /\ TakesOne(p, t, i, j) /\ j + 1 \in f[b]
      <4> HIDE DEF b, x
      <4>1. CutInto(e[i], t, j) <=> \E k \in j..n : k = j + 1 /\ TakesOne(p, t, i, j) /\ k \in f[b]
        BY <2>7, <2>10
      <4>2. j \in 1..Len(t) <=> j + 1 \in j..n OBVIOUS
      <4> QED BY <4>1, <4>2
    <3>3. CutPlaces(e[i], t) = {j \in 1..n : j \in 1..Len(t) /\ TakesOne(p, t, i, j) /\ j + 1 \in f[b]}
      <4> HIDE DEF b, x
      <4> QED BY <3>2 DEF CutPlaces
    <3>4. 1..Len(t) \subseteq 1..n OBVIOUS
    <3> HIDE DEF b, x, n
    <3> QED BY <3>1, <3>3, <3>4
  <2> QED BY <2>9, <2>10
<1> QED BY <1>2, <1>3

\* wildcard_match accepts exactly the texts the pattern describes.
LEMMA WildcardIsMatches ==
    ASSUME NEW p \in Seq(Int), NEW t \in Seq(Int)
    PROVE  wildcard_match(p, t) <=> Matches(p, t)
<1> DEFINE f == CHOOSE f : f = [i \in 1..Len(p) + 1 |-> MatchFrom(f, p, t, i)]
           n == Len(p) + 1
<1>1. f = [i \in 1..Len(p) + 1 |-> MatchFrom(f, p, t, i)] BY MatchExists
<1>1a. \A j \in 1..Len(p) + 1 : f[j] = MatchFrom(f, p, t, j)
  <2> HIDE DEF f
  <2> QED BY <1>1
<1>2. wildcard_match(p, t) <=> 1 \in f[1]
  BY DEF wildcard_match, MatchFrom
<1> HIDE DEF f
<1>3. PICK e \in [1..n -> Seq(PatternElement)] :
        e = [i \in 1..n |-> ElementsFrom(e, p, i)] /\ Elements(p) = e[1]
  BY ElementsAre
<1>3a. \A j \in 1..Len(p) + 1 : e[j] = ElementsFrom(e, p, j) BY <1>3
<1>4. \A i \in 1..n : f[i] = CutPlaces(e[i], t)
  <2> DEFINE T == {i \in 1..n : f[i] = CutPlaces(e[i], t)}
  <2>1. ASSUME NEW i \in 1..n, \A j \in i + 1..n : j \in T PROVE i \in T
    <3>1. \A j \in i + 1..Len(p) + 1 : f[j] = CutPlaces(e[j], t) BY <2>1
    <3>2. f[i] = CutPlaces(e[i], t)
      <4>1. BothSides(f, e, p, t, i)
        BY <1>1a, <1>3, <1>3a, <3>1 DEF BothSides
      <4> QED
        BY ONLY <4>1, p \in Seq(Int), t \in Seq(Int), i \in 1..Len(p) + 1, MatchesFromHere
    <3> QED BY <3>2
  <2>2. n \in Nat OBVIOUS
  <2>3. 1..n \subseteq T
    <3> HIDE DEF T, n
    <3> QED BY <2>1, <2>2, BackwardInduction
  <2> QED BY <2>3
<1>5. 1 \in 1..n /\ 1 \in 1..Len(t) + 1 OBVIOUS
<1>6. wildcard_match(p, t) <=> CutInto(Elements(p), t, 1)
  BY <1>2, <1>3, <1>4, <1>5 DEF CutPlaces
<1>7. CutInto(Elements(p), t, 1) <=> Matches(p, t)
  <2>1. 1 - 1 = 0 OBVIOUS
  <2> QED BY <2>1 DEF CutInto, Matches, PieceOf
<1> QED BY <1>6, <1>7
==============================================================================
