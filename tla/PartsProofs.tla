---------------------------- MODULE PartsProofs ----------------------------
(***************************************************************************)
(* The machines of Parts, for any values of their constants.  Each has an  *)
(* inductive invariant of its own, which only its steps can disturb; the   *)
(* theorems behind them are about the composition.  A machine's section    *)
(* ends in three lemmas: its invariant holds at the start, a step keeps it, *)
(* and it implies the property.  The last section is about TailFollow.     *)
(***************************************************************************)
EXTENDS Parts, TailFollow, SeqFacts, FiniteSetTheorems


-----------------------------------------------------------------------------
(***************************************************************************)
(* SmallVector: no block is leaked or owned twice, nothing is written outside *)
(* the storage, and the operations implement those of Vectors.             *)
(***************************************************************************)
\* What the code keeps besides: an object outside its lifetime is as its
\* constructor will find it, and elements only lie where an object points.
Tidy ==
  /\ \A v \in Vecs : v \notin alive => begin[v] = v /\ capac[v] = InlineSize
  /\ \A p \in Places : mem[p] # <<>> => \E v \in alive : begin[v] = p

VecInv == VecTypeOK /\ BlocksOwned /\ InBounds /\ Tidy

\* Where an object points, and whose place that is.
LEMMA PlaceOf ==
  ASSUME VecInv, NEW v \in Vecs
  PROVE  /\ begin[v] \in Places
         /\ isSmall(v) \/ (begin[v] \in heap /\ begin[v] \in Blocks /\ v \in alive)
         /\ \A r \in Vecs : r # v => begin[r] # begin[v]
         /\ \A r \in Vecs : r # v => begin[r] # v
         /\ v \notin heap /\ v \notin Blocks
         /\ Elts(v) \in Seq(Values)
         /\ capac[v] \in Nat
  BY SmallVectorAssumption DEF VecInv, VecTypeOK, BlocksOwned, Places, isSmall, Elts

\* Nothing lies in a block that is free, nor inside an object that points
\* elsewhere.
LEMMA NothingLies ==
  ASSUME VecInv
  PROVE  /\ \A b \in Blocks \ heap : mem[b] = <<>>
         /\ \A v \in Vecs : ~isSmall(v) => mem[v] = <<>>
         /\ \A v \in Vecs \ alive : Elts(v) = <<>>
<1>1. \A b \in Blocks \ heap : mem[b] = <<>>
  <2> TAKE b \in Blocks \ heap
  <2> SUFFICES ASSUME mem[b] # <<>> PROVE FALSE OBVIOUS
  <2>1. PICK v \in alive : begin[v] = b BY DEF VecInv, Tidy, Places
  <2>2. v \in Vecs BY DEF VecInv, VecTypeOK
  <2> QED BY <2>1, <2>2, PlaceOf DEF isSmall
<1>2. \A v \in Vecs : ~isSmall(v) => mem[v] = <<>>
  <2> TAKE v \in Vecs
  <2> SUFFICES ASSUME ~isSmall(v), mem[v] # <<>> PROVE FALSE OBVIOUS
  <2>1. PICK r \in alive : begin[r] = v BY DEF VecInv, Tidy, Places
  <2>2. r \in Vecs BY DEF VecInv, VecTypeOK
  <2> QED BY <2>1, <2>2, PlaceOf DEF isSmall
<1>3. \A v \in Vecs \ alive : Elts(v) = <<>>
  <2> TAKE v \in Vecs \ alive
  <2> SUFFICES ASSUME Elts(v) # <<>> PROVE FALSE OBVIOUS
  <2>1. begin[v] = v BY DEF VecInv, Tidy
  <2>2. PICK r \in alive : begin[r] = v
    BY <2>1 DEF VecInv, Tidy, Places, Elts
  <2>3. r \in Vecs BY DEF VecInv, VecTypeOK
  <2> QED BY <2>1, <2>2, <2>3, PlaceOf
<1> QED BY <1>1, <1>2, <1>3

\* Growing into a free block and filling it keeps the invariant, gives v its
\* elements and leaves those of the others alone.
LEMMA GrowKeeps ==
  ASSUME VecInv, NEW v \in Vecs, alive' = alive \cup {v},
         NEW s \in Seq(Values), NEW c \in Nat, Len(s) <= c, NEW b \in Blocks \ heap,
         begin' = [begin EXCEPT ![v] = b],
         capac' = [capac EXCEPT ![v] = c],
         mem' = [mem EXCEPT ![begin[v]] = <<>>, ![b] = s],
         heap' = (heap \ {begin[v]}) \cup {b}
  PROVE  /\ VecInv'
         /\ Elts(v)' = s
         /\ \A r \in Vecs : r # v => Elts(r)' = Elts(r)
<1>0. alive' \subseteq Vecs BY DEF VecInv, VecTypeOK
<1>3. b \in Places /\ b \notin Vecs /\ \A r \in Vecs : begin[r] # b
  BY SmallVectorAssumption, PlaceOf DEF Places, isSmall
<1>4. VecTypeOK'
  <2>1. begin' \in [Vecs -> Places] /\ capac' \in [Vecs -> Nat] /\ heap' \subseteq Blocks
    BY <1>3 DEF VecInv, VecTypeOK
  <2>2. <<>> \in Seq(Values) OBVIOUS
  <2>3. mem' \in [Places -> Seq(Values)]
    BY <1>3, <1>0, <2>2 DEF VecInv, VecTypeOK
  <2> QED BY <2>1, <2>3, <1>0 DEF VecTypeOK
<1>5. begin'[v] = b /\ \A r \in Vecs : r # v => begin'[r] = begin[r]
  BY DEF VecInv, VecTypeOK
<1>6. BlocksOwned'
  <2>1. \A r \in Vecs : begin'[r] = r \/ (r \in alive' /\ begin'[r] \in heap')
    BY <1>5, PlaceOf DEF isSmall
  <2>2. \A r, q \in Vecs : begin'[r] = begin'[q] => r = q
    BY <1>3, <1>5, PlaceOf
  <2>3. \A p \in heap' : \E r \in alive' : begin'[r] = p
    <3> TAKE p \in heap'
    <3>1. CASE p = b BY <3>1, <1>5
    <3>2. CASE p # b
      <4>1. p \in heap /\ p # begin[v] BY <3>2
      <4>2. PICK r \in alive : begin[r] = p
        BY <4>1 DEF VecInv, BlocksOwned
      <4> QED BY <4>1, <4>2, <1>5 DEF VecInv, VecTypeOK
    <3> QED BY <3>1, <3>2
  <2> QED BY <2>1, <2>2, <2>3 DEF BlocksOwned
<1>7. Elts(v)' = s BY <1>3, <1>5 DEF Elts, VecInv, VecTypeOK
<1>8. \A r \in Vecs : r # v => Elts(r)' = Elts(r)
  BY <1>3, <1>5, PlaceOf DEF Elts, VecInv, VecTypeOK
<1>9. \A r \in Vecs : r # v => capac'[r] = capac[r]
  BY DEF VecInv, VecTypeOK
<1>10. capac'[v] = c BY DEF VecInv, VecTypeOK
<1>11. InBounds'
  BY <1>3, <1>5, <1>7, <1>8, <1>9, <1>10, <1>0 DEF VecInv, InBounds, isSmall
<1>12. Tidy'
  <2>1. \A r \in Vecs : r \notin alive' => begin'[r] = r /\ capac'[r] = InlineSize
    BY <1>5, <1>9 DEF VecInv, Tidy
  <2>2. \A p \in Places : mem'[p] # <<>> => \E r \in alive' : begin'[r] = p
    <3> TAKE p \in Places
    <3> SUFFICES ASSUME mem'[p] # <<>> PROVE \E r \in alive' : begin'[r] = p
      OBVIOUS
    <3>1. CASE p = b BY <3>1, <1>5
    <3>2. CASE p # b
      <4>1. p # begin[v] /\ mem[p] # <<>>
        BY <3>2, <1>3, PlaceOf DEF VecInv, VecTypeOK
      <4>2. PICK r \in alive : begin[r] = p BY <4>1 DEF VecInv, Tidy
      <4> QED BY <4>1, <4>2, <1>5 DEF VecInv, VecTypeOK
    <3> QED BY <3>1, <3>2
  <2> QED BY <2>1, <2>2 DEF Tidy
<1> QED BY <1>4, <1>6, <1>7, <1>8, <1>11, <1>12 DEF VecInv

\* Growing and filling keeps the invariant, gives v its elements and leaves
\* those of the others alone.
LEMMA FillKeeps ==
  ASSUME VecInv, NEW v \in Vecs, alive' = alive \cup {v},
         NEW kept \in Seq(Values), NEW new \in Seq(Values), Fill(v, kept, new)
  PROVE  /\ VecInv'
         /\ Elts(v)' = kept \o new
         /\ \A r \in Vecs : r # v => Elts(r)' = Elts(r)
<1> DEFINE s == kept \o new
           n == Len(kept) + Len(new)
<1>1. s \in Seq(Values) /\ Len(s) = n /\ n \in Nat OBVIOUS
<1>2. alive' \subseteq Vecs BY DEF VecInv, VecTypeOK
<1> HIDE DEF s, n
<1>3. CASE n <= capac[v]
  <2>1. mem' = [mem EXCEPT ![begin[v]] = s] /\ UNCHANGED <<begin, capac, heap>>
    BY <1>3 DEF Fill, s, n
  <2>2. VecTypeOK' BY <2>1, <1>1, <1>2, PlaceOf DEF VecInv, VecTypeOK
  <2>3. BlocksOwned' BY <2>1 DEF VecInv, BlocksOwned
  <2>4. Elts(v)' = s BY <2>1, PlaceOf DEF Elts, VecInv, VecTypeOK
  <2>5. \A r \in Vecs : r # v => Elts(r)' = Elts(r)
    BY <2>1, PlaceOf DEF Elts, VecInv, VecTypeOK
  <2>6. InBounds'
    BY <2>1, <2>4, <2>5, <1>1, <1>3 DEF VecInv, InBounds, isSmall
  <2>7. Tidy' BY <2>1, PlaceOf DEF VecInv, VecTypeOK, Tidy
  <2> QED BY <2>2, <2>3, <2>4, <2>5, <2>6, <2>7 DEF VecInv, s
<1>4. CASE ~(n <= capac[v])
  <2>1. PICK b \in Blocks \ heap :
          /\ begin' = [begin EXCEPT ![v] = b]
          /\ capac' = [capac EXCEPT ![v] = MallocForGrow(capac[v], n)]
          /\ mem' = [mem EXCEPT ![begin[v]] = <<>>, ![b] = s]
          /\ heap' = (heap \ {begin[v]}) \cup {b}
    BY <1>4 DEF Fill, s, n
  <2>2. MallocForGrow(capac[v], n) \in Nat /\ n <= MallocForGrow(capac[v], n)
    BY <1>1, PlaceOf DEF MallocForGrow
  <2> QED BY <2>1, <2>2, <1>1, GrowKeeps DEF s
<1> QED BY <1>3, <1>4

\* Taking over the block of another vector keeps the invariant, gives v the
\* elements of r and leaves r empty.
LEMMA StealKeeps ==
  ASSUME VecInv, NEW v \in Vecs, NEW r \in alive, v # r, alive' = alive \cup {v},
         ~isSmall(r), Steal(v, r)
  PROVE  /\ VecInv'
         /\ Elts(v)' = Elts(r)
         /\ Elts(r)' = <<>>
         /\ \A w \in Vecs : w # v /\ w # r => Elts(w)' = Elts(w)
<1>1. r \in Vecs /\ alive' \subseteq Vecs BY DEF VecInv, VecTypeOK
<1>2. /\ begin' = [begin EXCEPT ![v] = begin[r], ![r] = r]
      /\ capac' = [capac EXCEPT ![v] = capac[r], ![r] = 0]
      /\ mem' = [mem EXCEPT ![begin[v]] = <<>>]
      /\ heap' = heap \ {begin[v]}
  BY DEF Steal
<1>3. /\ begin'[v] = begin[r] /\ begin'[r] = r
      /\ \A w \in Vecs : w # v /\ w # r => begin'[w] = begin[w]
  BY <1>1, <1>2 DEF VecInv, VecTypeOK
<1>4. /\ capac'[v] = capac[r] /\ capac'[r] = 0
      /\ \A w \in Vecs : w # v /\ w # r => capac'[w] = capac[w]
  BY <1>1, <1>2 DEF VecInv, VecTypeOK
<1>5. mem'[begin[v]] = <<>> /\ \A p \in Places : p # begin[v] => mem'[p] = mem[p]
  BY <1>2, PlaceOf DEF VecInv, VecTypeOK
<1>6. VecTypeOK'
  <2>1. begin' \in [Vecs -> Places] /\ heap' \subseteq Blocks
    BY <1>1, <1>2, PlaceOf DEF VecInv, VecTypeOK, Places
  <2>2. capac' \in [Vecs -> Nat]
    BY <1>1, <1>2, PlaceOf DEF VecInv, VecTypeOK
  <2>3. <<>> \in Seq(Values) OBVIOUS
  <2>4. mem' \in [Places -> Seq(Values)]
    BY <1>2, <2>3 DEF VecInv, VecTypeOK
  <2> QED BY <1>1, <2>1, <2>2, <2>4 DEF VecTypeOK
<1>7. mem[r] = <<>> /\ r # begin[v] BY <1>1, NothingLies, PlaceOf
<1>8. Elts(v)' = Elts(r) BY <1>1, <1>3, <1>5, PlaceOf DEF Elts
<1>9. Elts(r)' = <<>> BY <1>1, <1>3, <1>5, <1>7 DEF Elts, Places
<1>10. \A w \in Vecs : w # v /\ w # r => Elts(w)' = Elts(w)
  BY <1>3, <1>5, PlaceOf DEF Elts
<1>11. BlocksOwned'
  <2>1. \A w \in Vecs : begin'[w] = w \/ (w \in alive' /\ begin'[w] \in heap')
    <3> TAKE w \in Vecs
    <3>1. CASE w = v
      <4>1. begin[r] \in heap /\ begin[r] # begin[v] BY <1>1, PlaceOf
      <4> QED BY <3>1, <4>1, <1>2, <1>3
    <3>2. CASE w = r BY <3>2, <1>3
    <3>3. CASE w # v /\ w # r
      <4>1. begin[w] # begin[v] /\ begin'[w] = begin[w]
        BY <3>3, <1>3, PlaceOf
      <4>2. begin[w] = w \/ (w \in alive /\ begin[w] \in heap)
        BY DEF VecInv, BlocksOwned
      <4> QED BY <4>1, <4>2, <1>2
    <3> QED BY <3>1, <3>2, <3>3
  <2>2. \A w, q \in Vecs : begin'[w] = begin'[q] => w = q
    BY <1>1, <1>3, PlaceOf
  <2>3. \A c \in heap' : \E w \in alive' : begin'[w] = c
    <3> TAKE c \in heap'
    <3>1. c \in heap /\ c # begin[v] BY <1>2
    <3>2. PICK w \in alive : begin[w] = c
      BY <3>1 DEF VecInv, BlocksOwned
    <3>3. CASE w = r BY <3>2, <3>3, <1>3
    <3>4. CASE w # r BY <3>1, <3>2, <3>4, <1>3 DEF VecInv, VecTypeOK
    <3> QED BY <3>3, <3>4
  <2> QED BY <2>1, <2>2, <2>3 DEF BlocksOwned
<1>12. InBounds'
  <2> SUFFICES ASSUME NEW w \in Vecs
               PROVE  /\ Len(Elts(w)') <= capac'[w]
                      /\ begin'[w] = w => capac'[w] <= InlineSize
    BY DEF InBounds, isSmall, Elts
  <2>1. CASE w = v
    BY <2>1, <1>1, <1>3, <1>4, <1>8, PlaceOf DEF VecInv, InBounds
  <2>2. CASE w = r BY <2>2, <1>4, <1>9, SmallVectorAssumption
  <2>3. CASE w # v /\ w # r
    BY <2>3, <1>3, <1>4, <1>10 DEF VecInv, InBounds, isSmall
  <2> QED BY <2>1, <2>2, <2>3
<1>13. Tidy'
  <2>1. \A w \in Vecs : w \notin alive' => begin'[w] = w /\ capac'[w] = InlineSize
    BY <1>3, <1>4 DEF VecInv, Tidy
  <2>2. \A p \in Places : mem'[p] # <<>> => \E w \in alive' : begin'[w] = p
    <3> TAKE p \in Places
    <3> SUFFICES ASSUME mem'[p] # <<>> PROVE \E w \in alive' : begin'[w] = p
      OBVIOUS
    <3>1. p # begin[v] /\ mem[p] # <<>> BY <1>5
    <3>2. PICK w \in alive : begin[w] = p BY <3>1 DEF VecInv, Tidy
    <3>3. CASE w = r BY <3>2, <3>3, <1>3
    <3>4. CASE w # r BY <3>1, <3>2, <3>4, <1>3 DEF VecInv, VecTypeOK
    <3> QED BY <3>3, <3>4
  <2> QED BY <2>1, <2>2 DEF Tidy
<1> QED BY <1>6, <1>8, <1>9, <1>10, <1>11, <1>12, <1>13 DEF VecInv

\* The move assignment from inline elements: the block v had is freed, and may
\* be the one malloc returns for the elements.
LEMMA RefillKeeps ==
  ASSUME VecInv, NEW v \in alive, NEW r \in alive, v # r, UNCHANGED alive,
         isSmall(r), NEW b \in Blocks \ (heap \ {begin[v]}),
         begin' = [begin EXCEPT ![v] = b],
         capac' = [capac EXCEPT ![v] = MallocForGrow(0, Len(Elts(r)))],
         mem' = [mem EXCEPT ![begin[v]] = <<>>, ![r] = <<>>, ![b] = Elts(r)],
         heap' = (heap \ {begin[v]}) \cup {b}
  PROVE  /\ VecInv'
         /\ Elts(v)' = Elts(r)
         /\ Elts(r)' = <<>>
         /\ \A w \in Vecs : w # v /\ w # r => Elts(w)' = Elts(w)
<1>1. v \in Vecs /\ r \in Vecs BY DEF VecInv, VecTypeOK
<1>2. /\ MallocForGrow(0, Len(Elts(r))) \in Nat
      /\ Len(Elts(r)) <= MallocForGrow(0, Len(Elts(r)))
  BY <1>1, PlaceOf DEF MallocForGrow
<1>3. b \in Places /\ b \notin Vecs /\ \A w \in Vecs : w # v => begin[w] # b
  BY <1>1, SmallVectorAssumption, PlaceOf DEF Places, isSmall
<1>4. begin'[v] = b /\ \A w \in Vecs : w # v => begin'[w] = begin[w]
  BY <1>1 DEF VecInv, VecTypeOK
<1>5. /\ capac'[v] = MallocForGrow(0, Len(Elts(r)))
      /\ \A w \in Vecs : w # v => capac'[w] = capac[w]
  BY <1>1 DEF VecInv, VecTypeOK
<1>6. /\ mem'[b] = Elts(r)
      /\ \A p \in Places : p # b /\ (p = begin[v] \/ p = r) => mem'[p] = <<>>
      /\ \A p \in Places : p # b /\ p # begin[v] /\ p # r => mem'[p] = mem[p]
  BY <1>1, <1>3, PlaceOf DEF VecInv, VecTypeOK
<1>7. VecTypeOK'
  <2>1. begin' \in [Vecs -> Places] /\ capac' \in [Vecs -> Nat] /\ heap' \subseteq Blocks
    BY <1>2, <1>3 DEF VecInv, VecTypeOK
  <2>2. <<>> \in Seq(Values) /\ Elts(r) \in Seq(Values) BY <1>1, PlaceOf
  <2>3. mem' \in [Places -> Seq(Values)] BY <2>2 DEF VecInv, VecTypeOK
  <2> QED BY <2>1, <2>3 DEF VecInv, VecTypeOK
<1>8. Elts(v)' = Elts(r) BY <1>4, <1>6 DEF Elts
<1>9. Elts(r)' = <<>>
  <2>1. r \in Places /\ r # b /\ begin'[r] = r
    BY <1>1, <1>3, <1>4 DEF isSmall, Places
  <2>2. mem'[r] = <<>> BY <1>6, <2>1
  <2> QED BY <2>1, <2>2 DEF Elts
<1>10. \A w \in Vecs : w # v /\ w # r => Elts(w)' = Elts(w)
  <2> TAKE w \in Vecs
  <2> HAVE w # v /\ w # r
  <2>1. begin[w] \in Places /\ begin[w] # b /\ begin'[w] = begin[w]
    BY <1>3, <1>4, PlaceOf
  <2>2. begin[w] # begin[v] /\ begin[w] # r BY <1>1, PlaceOf DEF isSmall
  <2> QED BY <2>1, <2>2, <1>6 DEF Elts
<1>11. BlocksOwned'
  <2>1. \A w \in Vecs : begin'[w] = w \/ (w \in alive' /\ begin'[w] \in heap')
    BY <1>1, <1>4, PlaceOf DEF isSmall
  <2>2. \A w, q \in Vecs : begin'[w] = begin'[q] => w = q
    BY <1>3, <1>4, PlaceOf
  <2>3. \A c \in heap' : \E w \in alive' : begin'[w] = c
    <3> TAKE c \in heap'
    <3>1. CASE c = b BY <3>1, <1>4
    <3>2. CASE c # b
      <4>1. c \in heap /\ c # begin[v] BY <3>2
      <4>2. PICK w \in alive : begin[w] = c
        BY <4>1 DEF VecInv, BlocksOwned
      <4> QED BY <4>1, <4>2, <1>4 DEF VecInv, VecTypeOK
    <3> QED BY <3>1, <3>2
  <2> QED BY <2>1, <2>2, <2>3 DEF BlocksOwned
<1>12. InBounds'
  <2> SUFFICES ASSUME NEW w \in Vecs
               PROVE  /\ Len(Elts(w)') <= capac'[w]
                      /\ begin'[w] = w => capac'[w] <= InlineSize
    BY DEF InBounds, isSmall, Elts
  <2>1. CASE w = v BY <2>1, <1>2, <1>3, <1>4, <1>5, <1>8
  <2>2. CASE w = r
    <3>1. capac'[w] = capac[w] /\ capac[w] \in Nat /\ begin'[w] = begin[w]
      BY <2>2, <1>1, <1>4, <1>5, PlaceOf
    <3>2. Len(Elts(w)') = 0 BY <2>2, <1>9
    <3> QED BY <3>1, <3>2 DEF VecInv, InBounds, isSmall
  <2>3. CASE w # v /\ w # r
    BY <2>3, <1>4, <1>5, <1>10 DEF VecInv, InBounds, isSmall
  <2> QED BY <2>1, <2>2, <2>3
<1>13. Tidy'
  <2>1. \A w \in Vecs : w \notin alive' => begin'[w] = w /\ capac'[w] = InlineSize
    BY <1>4, <1>5 DEF VecInv, Tidy
  <2>2. \A p \in Places : mem'[p] # <<>> => \E w \in alive' : begin'[w] = p
    <3> TAKE p \in Places
    <3> SUFFICES ASSUME mem'[p] # <<>> PROVE \E w \in alive' : begin'[w] = p
      OBVIOUS
    <3>1. CASE p = b BY <3>1, <1>4
    <3>2. CASE p # b
      <4>1. p # begin[v] /\ mem[p] # <<>> BY <3>2, <1>6
      <4>2. PICK w \in alive : begin[w] = p BY <4>1 DEF VecInv, Tidy
      <4> QED BY <4>1, <4>2, <1>4 DEF VecInv, VecTypeOK
    <3> QED BY <3>1, <3>2
  <2> QED BY <2>1, <2>2 DEF Tidy
<1> QED BY <1>7, <1>8, <1>9, <1>10, <1>11, <1>12, <1>13 DEF VecInv

\* Giving up the block and the elements: what the destructor does, and the move
\* assignment from an empty vector.
LEMMA ReleaseKeeps ==
  ASSUME VecInv, NEW v \in alive, NEW n \in Nat, n <= InlineSize,
         \/ alive' = alive
         \/ alive' = alive \ {v} /\ n = InlineSize,
         begin' = [begin EXCEPT ![v] = v],
         capac' = [capac EXCEPT ![v] = n],
         mem' = [mem EXCEPT ![begin[v]] = <<>>],
         heap' = heap \ {begin[v]}
  PROVE  /\ VecInv'
         /\ Elts(v)' = <<>>
         /\ \A w \in Vecs : w # v => Elts(w)' = Elts(w)
<1>1. v \in Vecs /\ alive' \subseteq Vecs BY DEF VecInv, VecTypeOK
<1>2. begin'[v] = v /\ \A w \in Vecs : w # v => begin'[w] = begin[w]
  BY <1>1 DEF VecInv, VecTypeOK
<1>3. capac'[v] = n /\ \A w \in Vecs : w # v => capac'[w] = capac[w]
  BY <1>1 DEF VecInv, VecTypeOK
<1>4. mem'[begin[v]] = <<>> /\ \A p \in Places : p # begin[v] => mem'[p] = mem[p]
  BY <1>1, PlaceOf DEF VecInv, VecTypeOK
<1>5. VecTypeOK'
  <2>1. begin' \in [Vecs -> Places] /\ heap' \subseteq Blocks
    BY <1>1 DEF VecInv, VecTypeOK, Places
  <2>2. capac' \in [Vecs -> Nat] BY <1>1 DEF VecInv, VecTypeOK
  <2>3. <<>> \in Seq(Values) OBVIOUS
  <2>4. mem' \in [Places -> Seq(Values)] BY <2>3 DEF VecInv, VecTypeOK
  <2> QED BY <1>1, <2>1, <2>2, <2>4 DEF VecTypeOK
<1>6. Elts(v)' = <<>>
  <2>1. v \in Places BY <1>1 DEF Places
  <2>2. CASE isSmall(v) BY <2>2, <1>2, <1>4 DEF Elts, isSmall
  <2>3. CASE ~isSmall(v)
    BY <2>1, <2>3, <1>1, <1>2, <1>4, NothingLies DEF Elts, isSmall
  <2> QED BY <2>2, <2>3
<1>7. \A w \in Vecs : w # v => Elts(w)' = Elts(w)
  BY <1>1, <1>2, <1>4, PlaceOf DEF Elts
<1>8. BlocksOwned'
  <2>1. \A w \in Vecs : begin'[w] = w \/ (w \in alive' /\ begin'[w] \in heap')
    <3> TAKE w \in Vecs
    <3>1. CASE w = v BY <3>1, <1>2
    <3>2. CASE w # v BY <3>2, <1>1, <1>2, PlaceOf DEF isSmall
    <3> QED BY <3>1, <3>2
  <2>2. \A w, q \in Vecs : begin'[w] = begin'[q] => w = q
    BY <1>1, <1>2, PlaceOf
  <2>3. \A c \in heap' : \E w \in alive' : begin'[w] = c
    <3> TAKE c \in heap'
    <3>1. c \in heap /\ c # begin[v] OBVIOUS
    <3>2. PICK w \in alive : begin[w] = c
      BY <3>1 DEF VecInv, BlocksOwned
    <3> QED BY <3>1, <3>2, <1>2 DEF VecInv, VecTypeOK
  <2> QED BY <2>1, <2>2, <2>3 DEF BlocksOwned
<1>9. InBounds'
  <2> SUFFICES ASSUME NEW w \in Vecs
               PROVE  /\ Len(Elts(w)') <= capac'[w]
                      /\ begin'[w] = w => capac'[w] <= InlineSize
    BY DEF InBounds, isSmall, Elts
  <2>1. CASE w = v BY <2>1, <1>3, <1>6
  <2>2. CASE w # v
    BY <2>2, <1>2, <1>3, <1>7 DEF VecInv, InBounds, isSmall
  <2> QED BY <2>1, <2>2
<1>10. Tidy'
  <2>1. \A w \in Vecs : w \notin alive' => begin'[w] = w /\ capac'[w] = InlineSize
    BY <1>2, <1>3 DEF VecInv, Tidy
  <2>2. \A p \in Places : mem'[p] # <<>> => \E w \in alive' : begin'[w] = p
    <3> TAKE p \in Places
    <3> SUFFICES ASSUME mem'[p] # <<>> PROVE \E w \in alive' : begin'[w] = p
      OBVIOUS
    <3>1. p # begin[v] /\ mem[p] # <<>> BY <1>4
    <3>2. PICK w \in alive : begin[w] = p BY <3>1 DEF VecInv, Tidy
    <3> QED BY <3>1, <3>2, <1>2 DEF VecInv, VecTypeOK
  <2> QED BY <2>1, <2>2 DEF Tidy
<1> QED BY <1>5, <1>6, <1>7, <1>8, <1>9, <1>10 DEF VecInv

-----------------------------------------------------------------------------
LEMMA CopiesType ==
  ASSUME NEW n \in Nat, NEW x \in Values
  PROVE  Copies(n, x) \in Seq(Values)
  BY DEF Copies

LEMMA RunsType == Runs \subseteq Seq(Values)
  BY CopiesType, SmallVectorAssumption DEF Runs

\* The variables that hold a sequence are those of the objects that are alive.
LEMMA LiveIsAlive == VecInv => Abs!LiveVecs = alive
<1> SUFFICES ASSUME VecInv PROVE Abs!LiveVecs = alive OBVIOUS
<1>1. \A v \in Vecs : Elts(v) # Dead BY PlaceOf, SmallVectorAssumption
<1> QED BY <1>1 DEF Abs!LiveVecs, Contents, VecInv, VecTypeOK

\* One vector becomes s, the others keep their elements.
LEMMA BecomesOne ==
  ASSUME VecInv, NEW v \in Vecs, NEW s, alive' = alive \cup {v}, Elts(v)' = s,
         \A w \in Vecs : w # v => Elts(w)' = Elts(w)
  PROVE  Abs!Becomes(v, s)
  BY DEF Abs!Becomes, Contents, VecInv, VecTypeOK

LEMMA BecomesTwo ==
  ASSUME VecInv, NEW v \in Vecs, NEW r \in alive, v # r, alive' = alive \cup {v},
         Elts(v)' = Elts(r), Elts(r)' = <<>>,
         \A w \in Vecs : w # v /\ w # r => Elts(w)' = Elts(w)
  PROVE  Abs!MoveTo(v, r)
<1>1. r \in Vecs /\ r \in Abs!LiveVecs /\ Contents[r] = Elts(r)
  BY LiveIsAlive DEF VecInv, VecTypeOK, Contents
<1>2. Contents' = [Contents EXCEPT ![v] = Contents[r], ![r] = <<>>]
  BY <1>1 DEF Contents, VecInv, VecTypeOK
<1> QED BY <1>1, <1>2 DEF Abs!MoveTo

LEMMA NoneAppended ==
  <<>> \in Seq(Values) /\ \A s \in Seq(Values) : <<>> \o s = s
  OBVIOUS

-----------------------------------------------------------------------------
\* Each operation keeps the invariant and does what Vectors says.
LEMMA ConstructRefines ==
  ASSUME VecInv, NEW v \in Vecs, NEW s \in Seq(Values), ConstructVec(v, s)
  PROVE  VecInv' /\ Abs!Construct(v, s)
<1>1. v \notin alive /\ alive' = alive \cup {v} /\ Fill(v, <<>>, s)
  BY DEF ConstructVec
<1>2. /\ VecInv'
      /\ Elts(v)' = <<>> \o s
      /\ \A r \in Vecs : r # v => Elts(r)' = Elts(r)
  BY <1>1, FillKeeps, NoneAppended
<1>3. Abs!Becomes(v, s) BY <1>1, <1>2, BecomesOne, NoneAppended
<1> QED BY <1>1, <1>2, <1>3, LiveIsAlive DEF Abs!Construct

LEMMA ConstructCopyRefines ==
  ASSUME VecInv, NEW v \in Vecs, NEW r \in Vecs, ConstructCopy(v, r)
  PROVE  VecInv' /\ v # r /\ Abs!CopyTo(v, r)
<1>1. r \in alive /\ ConstructVec(v, Elts(r)) /\ v # r
  BY DEF ConstructCopy, ConstructVec
<1>2. VecInv' /\ Abs!Construct(v, Elts(r))
  BY <1>1, ConstructRefines, PlaceOf
<1>3. Contents[r] = Elts(r) BY <1>1 DEF Contents
<1> QED BY <1>1, <1>2, <1>3, LiveIsAlive DEF Abs!Construct, Abs!CopyTo

LEMMA CopyAssignRefines ==
  ASSUME VecInv, NEW v \in Vecs, NEW r \in Vecs, CopyAssign(v, r)
  PROVE  VecInv' /\ v # r /\ Abs!CopyTo(v, r)
<1>1. v \in alive /\ r \in alive /\ v # r /\ alive' = alive \cup {v} /\ Fill(v, <<>>, Elts(r))
  BY DEF CopyAssign
<1>2. /\ VecInv'
      /\ Elts(v)' = <<>> \o Elts(r)
      /\ \A w \in Vecs : w # v => Elts(w)' = Elts(w)
  BY <1>1, FillKeeps, PlaceOf, NoneAppended
<1>3. Abs!Becomes(v, Elts(r))
  BY <1>1, <1>2, BecomesOne, NoneAppended, PlaceOf
<1>4. Contents[r] = Elts(r) BY <1>1 DEF Contents
<1> QED BY <1>1, <1>2, <1>3, <1>4, LiveIsAlive DEF Abs!CopyTo

LEMMA AppendRefines ==
  ASSUME VecInv, NEW v \in Vecs, NEW s \in Seq(Values), v \in alive,
         UNCHANGED alive, Fill(v, Elts(v), s)
  PROVE  VecInv' /\ Abs!Extend(v, s)
<1>1. alive' = alive \cup {v} /\ Elts(v) \in Seq(Values) BY PlaceOf
<1>2. /\ VecInv'
      /\ Elts(v)' = Elts(v) \o s
      /\ \A w \in Vecs : w # v => Elts(w)' = Elts(w)
  BY <1>1, FillKeeps, NoneAppended
<1>3. Abs!Becomes(v, Elts(v) \o s) BY <1>1, <1>2, BecomesOne
<1>4. Contents[v] = Elts(v) BY DEF Contents
<1> QED BY <1>2, <1>3, <1>4, LiveIsAlive DEF Abs!Extend

LEMMA AssignRefines ==
  ASSUME VecInv, NEW v \in Vecs, NEW s \in Seq(Values), AssignTo(v, s)
  PROVE  VecInv' /\ Abs!Assign(v, s)
<1>1. v \in alive /\ alive' = alive \cup {v} /\ Fill(v, <<>>, s)
  BY DEF AssignTo
<1>2. /\ VecInv'
      /\ Elts(v)' = <<>> \o s
      /\ \A w \in Vecs : w # v => Elts(w)' = Elts(w)
  BY <1>1, FillKeeps, NoneAppended
<1>3. Abs!Becomes(v, s) BY <1>1, <1>2, BecomesOne, NoneAppended
<1> QED BY <1>1, <1>2, <1>3, LiveIsAlive DEF Abs!Assign

LEMMA MoveRefines ==
  ASSUME VecInv, NEW v \in Vecs, NEW r \in Vecs, ConstructMove(v, r) \/ MoveAssign(v, r)
  PROVE  VecInv' /\ v # r /\ Abs!MoveTo(v, r)
<1>1. r \in alive /\ v # r /\ alive' = alive \cup {v}
  BY DEF ConstructMove, MoveAssign
<1>2. CASE ~isSmall(r) /\ Steal(v, r)
  <2>1. /\ VecInv'
        /\ Elts(v)' = Elts(r)
        /\ Elts(r)' = <<>>
        /\ \A w \in Vecs : w # v /\ w # r => Elts(w)' = Elts(w)
    BY <1>1, <1>2, StealKeeps
  <2> QED BY <1>1, <2>1, BecomesTwo
<1>3. CASE ConstructMove(v, r) /\ Elts(r) = <<>>
  <2>1. v \notin alive /\ UNCHANGED <<begin, capac, mem, heap>>
    BY <1>3 DEF ConstructMove, Steal
  <2>2. \A w \in Vecs : Elts(w)' = Elts(w) BY <2>1 DEF Elts
  <2>3. Elts(v) = <<>> BY <2>1, NothingLies
  <2>4. VecInv'
    <3>1. VecTypeOK' /\ InBounds'
      BY <1>1, <2>1 DEF VecInv, VecTypeOK, InBounds, Elts, isSmall
    <3>2. BlocksOwned' /\ Tidy'
      BY <1>1, <2>1 DEF VecInv, BlocksOwned, Tidy
    <3> QED BY <3>1, <3>2 DEF VecInv
  <2> QED BY <1>1, <1>3, <2>2, <2>3, <2>4, BecomesTwo
<1>4. CASE ConstructMove(v, r) /\ Elts(r) # <<>> /\ isSmall(r)
  <2>1. /\ v \notin alive
        /\ mem' = [mem EXCEPT ![v] = Elts(r), ![r] = <<>>]
        /\ UNCHANGED <<begin, capac, heap>>
    BY <1>4 DEF ConstructMove
  <2>2. begin[v] = v /\ capac[v] = InlineSize /\ begin[r] = r
    BY <2>1, <1>4 DEF VecInv, Tidy, isSmall
  <2>3. v \in Places /\ r \in Places BY DEF Places
  <2>4. Elts(v)' = Elts(r) /\ Elts(r)' = <<>>
    BY <1>1, <2>1, <2>2, <2>3 DEF Elts, VecInv, VecTypeOK
  <2>5. \A w \in Vecs : w # v /\ w # r => Elts(w)' = Elts(w)
    BY <2>1, <2>2, PlaceOf DEF Elts, VecInv, VecTypeOK
  <2>6. VecTypeOK'
    <3>1. <<>> \in Seq(Values) /\ Elts(r) \in Seq(Values) BY PlaceOf
    <3>2. mem' \in [Places -> Seq(Values)]
      BY <2>1, <3>1 DEF VecInv, VecTypeOK
    <3> QED BY <1>1, <2>1, <3>2 DEF VecInv, VecTypeOK
  <2>7. BlocksOwned' BY <1>1, <2>1 DEF VecInv, BlocksOwned
  <2>8. InBounds'
    <3> SUFFICES ASSUME NEW w \in Vecs
                 PROVE  /\ Len(Elts(w)') <= capac'[w]
                        /\ begin'[w] = w => capac'[w] <= InlineSize
      BY DEF InBounds, isSmall, Elts
    <3>1. capac'[w] = capac[w] /\ begin'[w] = begin[w] /\ capac[w] \in Nat
      BY <2>1, PlaceOf
    <3>2. CASE w = v
      <4>1. Len(Elts(r)) <= capac[r] /\ capac[r] <= InlineSize /\ capac[r] \in Nat
        BY <1>4, PlaceOf DEF VecInv, InBounds
      <4>2. Len(Elts(r)) \in Nat BY PlaceOf
      <4> QED BY <3>1, <3>2, <4>1, <4>2, <2>2, <2>4, SmallVectorAssumption
    <3>3. CASE w = r
      <4>1. Len(Elts(w)') = 0 BY <3>3, <2>4
      <4> QED BY <3>1, <3>3, <4>1 DEF VecInv, InBounds, isSmall
    <3>4. CASE w # v /\ w # r
      BY <3>1, <3>4, <2>5 DEF VecInv, InBounds, isSmall
    <3> QED BY <3>2, <3>3, <3>4
  <2>9. Tidy'
    <3>1. \A w \in Vecs : w \notin alive' => begin'[w] = w /\ capac'[w] = InlineSize
      BY <1>1, <2>1 DEF VecInv, Tidy
    <3>2. \A p \in Places : mem'[p] # <<>> => \E w \in alive' : begin'[w] = p
      <4> TAKE p \in Places
      <4> SUFFICES ASSUME mem'[p] # <<>> PROVE \E w \in alive' : begin'[w] = p
        OBVIOUS
      <4>1. CASE p = v BY <4>1, <1>1, <2>1, <2>2
      <4>2. CASE p # v
        <5>1. mem[p] # <<>> BY <4>2, <2>1 DEF VecInv, VecTypeOK
        <5> QED BY <5>1, <1>1, <2>1 DEF VecInv, Tidy
      <4> QED BY <4>1, <4>2
    <3> QED BY <3>1, <3>2 DEF Tidy
  <2> QED BY <1>1, <2>4, <2>5, <2>6, <2>7, <2>8, <2>9, BecomesTwo DEF VecInv
<1>5. CASE MoveAssign(v, r) /\ isSmall(r) /\ Elts(r) = <<>>
  <2>1. /\ v \in alive /\ UNCHANGED alive
        /\ begin' = [begin EXCEPT ![v] = v]
        /\ capac' = [capac EXCEPT ![v] = 0]
        /\ mem' = [mem EXCEPT ![begin[v]] = <<>>]
        /\ heap' = heap \ {begin[v]}
    BY <1>5 DEF MoveAssign
  <2>2. 0 \in Nat /\ 0 <= InlineSize BY SmallVectorAssumption
  <2>3. /\ VecInv'
        /\ Elts(v)' = <<>>
        /\ \A w \in Vecs : w # v => Elts(w)' = Elts(w)
    BY <2>1, <2>2, ReleaseKeeps
  <2> QED BY <1>1, <1>5, <2>3, BecomesTwo
<1>6. CASE MoveAssign(v, r) /\ isSmall(r) /\ Elts(r) # <<>>
  <2>1. v \in alive /\ UNCHANGED alive BY <1>6 DEF MoveAssign
  <2>2. PICK b \in Blocks \ (heap \ {begin[v]}) :
          /\ begin' = [begin EXCEPT ![v] = b]
          /\ capac' = [capac EXCEPT ![v] = MallocForGrow(0, Len(Elts(r)))]
          /\ mem' = [mem EXCEPT ![begin[v]] = <<>>, ![r] = <<>>, ![b] = Elts(r)]
          /\ heap' = (heap \ {begin[v]}) \cup {b}
    BY <1>6 DEF MoveAssign
  <2>3. /\ VecInv'
        /\ Elts(v)' = Elts(r)
        /\ Elts(r)' = <<>>
        /\ \A w \in Vecs : w # v /\ w # r => Elts(w)' = Elts(w)
    BY <1>1, <1>6, <2>1, <2>2, RefillKeeps
  <2> QED BY <1>1, <2>3, BecomesTwo
<1> QED BY <1>2, <1>3, <1>4, <1>5, <1>6 DEF ConstructMove, MoveAssign

LEMMA DestroyRefines ==
  ASSUME VecInv, NEW v \in Vecs, DestroyVec(v)
  PROVE  VecInv' /\ Abs!Destroy(v)
<1>1. /\ v \in alive
      /\ alive' = alive \ {v}
      /\ begin' = [begin EXCEPT ![v] = v]
      /\ capac' = [capac EXCEPT ![v] = InlineSize]
      /\ mem' = [mem EXCEPT ![begin[v]] = <<>>]
      /\ heap' = heap \ {begin[v]}
  BY DEF DestroyVec
<1>2. InlineSize \in Nat /\ InlineSize <= InlineSize
  BY SmallVectorAssumption
<1>3. VecInv' /\ \A w \in Vecs : w # v => Elts(w)' = Elts(w)
  <2> DEFINE n == InlineSize
  <2>1. /\ n \in Nat /\ n <= InlineSize
        /\ alive' = alive \/ (alive' = alive \ {v} /\ n = InlineSize)
        /\ capac' = [capac EXCEPT ![v] = n]
    BY <1>1, <1>2
  <2> HIDE DEF n
  <2> QED BY <1>1, <2>1, ReleaseKeeps
<1>4. Contents' = [Contents EXCEPT ![v] = Dead]
  BY <1>1, <1>3 DEF Contents
<1> QED BY <1>1, <1>3, <1>4, LiveIsAlive DEF Abs!Destroy, Abs!Becomes

LEMMA TruncateRefines ==
  ASSUME VecInv, NEW v \in Vecs, NEW n \in 0..MaxSize, Truncate(v, n)
  PROVE  /\ VecInv'
         /\ v \in alive /\ n \in 0..Len(Contents[v])
         /\ Abs!Shorten(v, n)
<1>1. /\ v \in alive /\ n < Len(Elts(v)) /\ n \in Nat
      /\ mem' = [mem EXCEPT ![begin[v]] = SubSeq(Elts(v), 1, n)]
      /\ UNCHANGED <<alive, begin, capac, heap>>
  BY SmallVectorAssumption DEF Truncate, Elts
<1>2. Elts(v) \in Seq(Values) /\ Len(Elts(v)) \in Nat BY PlaceOf
<1>3. SubSeq(Elts(v), 1, n) \in Seq(Values) /\ Len(SubSeq(Elts(v), 1, n)) = n
  BY <1>1, <1>2
<1>4. Elts(v)' = SubSeq(Elts(v), 1, n)
  BY <1>1, PlaceOf DEF Elts, VecInv, VecTypeOK
<1>5. \A w \in Vecs : w # v => Elts(w)' = Elts(w)
  BY <1>1, PlaceOf DEF Elts, VecInv, VecTypeOK
<1>6. VecTypeOK' /\ BlocksOwned'
  <2>1. mem' \in [Places -> Seq(Values)]
    BY <1>1, <1>3 DEF VecInv, VecTypeOK
  <2> QED BY <1>1, <2>1 DEF VecInv, VecTypeOK, BlocksOwned
<1>7. InBounds'
  <2> SUFFICES ASSUME NEW w \in Vecs
               PROVE  /\ Len(Elts(w)') <= capac'[w]
                      /\ begin'[w] = w => capac'[w] <= InlineSize
    BY DEF InBounds, isSmall, Elts
  <2>1. capac'[w] = capac[w] /\ begin'[w] = begin[w] /\ capac[w] \in Nat
    BY <1>1, PlaceOf
  <2>2. Len(Elts(w)) <= capac[w] /\ (begin[w] = w => capac[w] <= InlineSize)
    BY DEF VecInv, InBounds, isSmall
  <2>3. CASE w = v
    <3>1. Len(Elts(w)') = n BY <2>3, <1>3, <1>4
    <3> QED BY <2>1, <2>2, <2>3, <3>1, <1>1, <1>2
  <2>4. CASE w # v BY <2>1, <2>2, <2>4, <1>5
  <2> QED BY <2>3, <2>4
<1>8. Tidy'
  <2>1. \A w \in Vecs : w \notin alive' => begin'[w] = w /\ capac'[w] = InlineSize
    BY <1>1 DEF VecInv, Tidy
  <2>2. \A p \in Places : mem'[p] # <<>> => \E w \in alive' : begin'[w] = p
    <3> TAKE p \in Places
    <3>1. CASE p = begin[v] BY <3>1, <1>1
    <3>2. CASE p # begin[v] BY <3>2, <1>1 DEF VecInv, VecTypeOK, Tidy
    <3> QED BY <3>1, <3>2
  <2> QED BY <2>1, <2>2 DEF Tidy
<1>9. Contents[v] = Elts(v) BY <1>1 DEF Contents
<1>10. Abs!Becomes(v, SubSeq(Elts(v), 1, n))
  <2>1. alive' = alive \cup {v} BY <1>1
  <2> QED BY <2>1, <1>4, <1>5, BecomesOne
<1>11. n \in 0..Len(Contents[v]) BY <1>1, <1>2, <1>9
<1> QED
  BY <1>1, <1>6, <1>7, <1>8, <1>9, <1>10, <1>11, LiveIsAlive DEF VecInv, Abs!Shorten

LEMMA ResizeRefines ==
  ASSUME VecInv, NEW v \in Vecs, NEW n \in 0..MaxSize, ResizeUp(v, n)
  PROVE  LET s == Copies(n - Len(Elts(v)), Default) IN
         VecInv' /\ s \in Runs /\ Abs!Extend(v, s)
<1> DEFINE k == n - Len(Elts(v))
           s == Copies(k, Default)
<1>1. v \in alive /\ Len(Elts(v)) < n /\ UNCHANGED alive /\ Fill(v, Elts(v), s)
  BY DEF ResizeUp
<1>2. Len(Elts(v)) \in Nat /\ n \in Nat /\ n <= MaxSize
  BY PlaceOf, SmallVectorAssumption
<1>3. k \in Nat /\ k \in 0..MaxSize BY <1>1, <1>2, SmallVectorAssumption
<1> HIDE DEF k
<1>4. s \in Runs /\ s \in Seq(Values)
  BY <1>3, CopiesType, SmallVectorAssumption DEF Runs
<1> HIDE DEF s
<1>5. VecInv' /\ Abs!Extend(v, s) BY <1>1, <1>4, AppendRefines
<1> QED BY <1>4, <1>5 DEF s, k

LEMMA ReserveRefines ==
  ASSUME VecInv, NEW v \in Vecs, NEW n \in 0..MaxSize, Reserve(v, n)
  PROVE  VecInv' /\ UNCHANGED Contents
<1>1. v \in alive /\ alive' = alive \cup {v} /\ UNCHANGED alive /\ n \in Nat /\ capac[v] < n
  BY SmallVectorAssumption DEF Reserve
<1>2. PICK b \in Blocks \ heap :
        /\ begin' = [begin EXCEPT ![v] = b]
        /\ capac' = [capac EXCEPT ![v] = MallocForGrow(capac[v], n)]
        /\ mem' = [mem EXCEPT ![begin[v]] = <<>>, ![b] = Elts(v)]
        /\ heap' = (heap \ {begin[v]}) \cup {b}
  BY DEF Reserve
<1>3. /\ Elts(v) \in Seq(Values) /\ MallocForGrow(capac[v], n) \in Nat
      /\ Len(Elts(v)) <= MallocForGrow(capac[v], n)
  BY <1>1, PlaceOf DEF MallocForGrow, VecInv, InBounds
<1>4. VecInv' /\ \A w \in Vecs : Elts(w)' = Elts(w)
  BY <1>1, <1>2, <1>3, GrowKeeps
<1> QED BY <1>1, <1>4 DEF Contents

-----------------------------------------------------------------------------
\* Every operation, in the words of the property.
LEMMA EachRefines == VecInv => OperationsRefine
<1> SUFFICES ASSUME VecInv PROVE OperationsRefine OBVIOUS
<1>1. ASSUME NEW v \in Vecs, NEW s \in Runs
      PROVE  /\ ConstructVec(v, s) => Abs!Construct(v, s)
             /\ AppendTo(v, s) => Abs!Extend(v, s)
             /\ AssignTo(v, s) => Abs!Assign(v, s)
  <2>1. s \in Seq(Values) BY RunsType
  <2>2. ConstructVec(v, s) => Abs!Construct(v, s)
    BY <2>1, ConstructRefines
  <2>3. AppendTo(v, s) => Abs!Extend(v, s)
    BY <2>1, AppendRefines DEF AppendTo
  <2>4. AssignTo(v, s) => Abs!Assign(v, s) BY <2>1, AssignRefines
  <2> QED BY <2>2, <2>3, <2>4
<1>2. ASSUME NEW v \in Vecs, NEW r \in Vecs
      PROVE  /\ ConstructCopy(v, r) \/ CopyAssign(v, r) => Abs!CopyTo(v, r)
             /\ ConstructMove(v, r) \/ MoveAssign(v, r) => Abs!MoveTo(v, r)
  BY ConstructCopyRefines, CopyAssignRefines, MoveRefines
<1>3. ASSUME NEW v \in Vecs
      PROVE  DestroyVec(v) => Abs!Destroy(v)
  BY DestroyRefines
<1>4. ASSUME NEW v \in Vecs, NEW n \in 0..MaxSize
      PROVE  /\ Truncate(v, n) => Abs!Shorten(v, n)
             /\ ResizeUp(v, n) => Abs!Extend(v, Copies(n - Len(Elts(v)), Default))
             /\ Reserve(v, n) => UNCHANGED Contents
  <2>1. Truncate(v, n) => Abs!Shorten(v, n) BY TruncateRefines
  <2>2. ResizeUp(v, n) => Abs!Extend(v, Copies(n - Len(Elts(v)), Default))
    BY ResizeRefines
  <2>3. Reserve(v, n) => UNCHANGED Contents BY ReserveRefines
  <2> QED BY <2>1, <2>2, <2>3
<1> QED BY <1>1, <1>2, <1>3, <1>4 DEF OperationsRefine

\* A step keeps the invariant and is a step of Vectors, or none.
LEMMA StepRefines ==
  ASSUME VecInv, [VecNext]_vecVars
  PROVE  VecInv' /\ [Abs!VectorsNext]_Contents
<1>1. ASSUME NEW v \in Vecs, NEW s \in Runs,
             ConstructVec(v, s) \/ AppendTo(v, s) \/ AssignTo(v, s)
      PROVE  VecInv' /\ Abs!VectorsNext
  <2>1. s \in Seq(Values) BY RunsType
  <2>2. VecInv' /\ (Abs!Construct(v, s) \/ Abs!Extend(v, s) \/ Abs!Assign(v, s))
    BY <1>1, <2>1, ConstructRefines, AppendRefines, AssignRefines DEF AppendTo
  <2> QED BY <2>2 DEF Abs!VectorsNext
<1>2. ASSUME NEW v \in Vecs, NEW r \in Vecs,
             \/ ConstructCopy(v, r) \/ ConstructMove(v, r)
             \/ CopyAssign(v, r) \/ MoveAssign(v, r)
      PROVE  VecInv' /\ Abs!VectorsNext
  <2>1. VecInv' /\ v # r /\ (Abs!CopyTo(v, r) \/ Abs!MoveTo(v, r))
    BY <1>2, ConstructCopyRefines, CopyAssignRefines, MoveRefines
  <2> QED BY <2>1 DEF Abs!VectorsNext
<1>3. ASSUME NEW v \in Vecs, DestroyVec(v)
      PROVE  VecInv' /\ Abs!VectorsNext
  <2>1. VecInv' /\ Abs!Destroy(v) BY <1>3, DestroyRefines
  <2>2. v \in Abs!LiveVecs BY <2>1 DEF Abs!Destroy
  <2> QED BY <2>1, <2>2 DEF Abs!VectorsNext
<1>4. ASSUME NEW v \in Vecs, NEW n \in 0..MaxSize, Truncate(v, n)
      PROVE  VecInv' /\ Abs!VectorsNext
  <2>1. VecInv' /\ n \in 0..Len(Contents[v]) /\ Abs!Shorten(v, n)
    BY <1>4, TruncateRefines
  <2>2. v \in Abs!LiveVecs BY <2>1 DEF Abs!Shorten
  <2> QED BY <2>1, <2>2 DEF Abs!VectorsNext
<1>5. ASSUME NEW v \in Vecs, NEW n \in 0..MaxSize, ResizeUp(v, n)
      PROVE  VecInv' /\ Abs!VectorsNext
  <2>1. PICK s \in Runs : VecInv' /\ Abs!Extend(v, s)
    BY <1>5, ResizeRefines
  <2> QED BY <2>1 DEF Abs!VectorsNext
<1>6. ASSUME NEW v \in Vecs, NEW n \in 0..MaxSize, Reserve(v, n)
      PROVE  VecInv' /\ UNCHANGED Contents
  BY <1>6, ReserveRefines
<1>7. CASE UNCHANGED vecVars
  <2>1. VecTypeOK' /\ BlocksOwned' /\ Tidy'
    BY <1>7 DEF vecVars, VecInv, VecTypeOK, BlocksOwned, Tidy
  <2>2. InBounds' BY <1>7 DEF vecVars, VecInv, InBounds, isSmall, Elts
  <2>3. UNCHANGED Contents BY <1>7 DEF vecVars, Contents, Elts
  <2> QED BY <2>1, <2>2, <2>3 DEF VecInv
<1> QED BY <1>1, <1>2, <1>3, <1>4, <1>5, <1>6, <1>7 DEF VecNext

LEMMA InitRefines == VecInit => VecInv /\ Abs!VectorsInit
<1> SUFFICES ASSUME VecInit PROVE VecInv /\ Abs!VectorsInit OBVIOUS
<1>1. VecTypeOK
  <2>1. <<>> \in Seq(Values) OBVIOUS
  <2> QED BY <2>1, SmallVectorAssumption DEF VecInit, VecTypeOK, Places
<1>2. BlocksOwned /\ Tidy BY DEF VecInit, BlocksOwned, Tidy
<1>3. InBounds
  <2> SUFFICES ASSUME NEW v \in Vecs
               PROVE  Len(Elts(v)) <= capac[v] /\ (isSmall(v) => capac[v] <= InlineSize)
    BY DEF InBounds
  <2>1. Elts(v) = <<>> /\ capac[v] = InlineSize
    BY DEF VecInit, Elts, Places
  <2>2. Len(Elts(v)) = 0 BY <2>1
  <2> QED BY <2>1, <2>2, SmallVectorAssumption
<1>4. Abs!VectorsInit BY DEF VecInit, Abs!VectorsInit, Contents
<1> QED BY <1>1, <1>2, <1>3, <1>4 DEF VecInv

-----------------------------------------------------------------------------
(***************************************************************************)
(* timeout: the status tells how the command ended.                        *)
(***************************************************************************)
\* The command runs while it is waited for; when the wait has expired, the
\* duration was over.
TimeoutInv ==
  /\ wait \in [duration : Durations, pc : {"start", "waiting", "expired", "done"},
               status : Nat]
  /\ child \in [state : {"none", "running", "ended"}, code : Nat]
  /\ clock \in Nat
  /\ wait.pc = "start" => child.state = "none"
  /\ wait.pc \in {"waiting", "expired"} => child.state # "none"
  /\ wait.pc = "expired" => /\ wait.duration # 0
                            /\ wait.duration < DwordMod => clock >= wait.duration
  /\ StatusTellsOutcome

LEMMA TimeoutBegins == TimeoutInit => TimeoutInv
<1> SUFFICES ASSUME TimeoutInit PROVE TimeoutInv OBVIOUS
<1>1. PICK d \in Durations : wait = [duration |-> d, pc |-> "start", status |-> 0]
  BY DEF TimeoutInit
<1> QED BY <1>1 DEF TimeoutInit, TimeoutInv, StatusTellsOutcome

\* A duration that fits a DWORD is the one that is waited for.
LEMMA DurationFits ==
  ASSUME NEW d \in Nat, NEW m \in Nat \ {0}, d < m
  PROVE  d % m = d
  OBVIOUS

LEMMA TimeoutKeeps ==
  ASSUME TimeoutInv, [TimeoutNext]_timeoutVars
  PROVE  TimeoutInv'
<1> USE TimeoutAssumption
<1>1. CASE LaunchFails
  <2>1. PICK s \in {126, 127} : wait' = [wait EXCEPT !.pc = "done", !.status = s]
    BY <1>1 DEF LaunchFails, Return
  <2>2. UNCHANGED <<child, clock>> /\ child.state = "none"
    BY <1>1 DEF LaunchFails, TimeoutInv
  <2>3. s \in Nat OBVIOUS
  <2> QED BY <2>1, <2>2, <2>3 DEF TimeoutInv, StatusTellsOutcome
<1>2. CASE Launch BY <1>2 DEF Launch, TimeoutInv, StatusTellsOutcome
<1>3. CASE ChildEnds
  BY <1>3 DEF ChildEnds, TimeoutInv, StatusTellsOutcome
<1>4. CASE Tick BY <1>4 DEF Tick, TimeoutInv, StatusTellsOutcome
<1>5. CASE ChildWaited
  BY <1>5 DEF ChildWaited, Return, TimeoutInv, StatusTellsOutcome
<1>6. CASE WaitExpires
  <2>1. wait.duration \in Nat /\ DwordMod \in Nat \ {0}
    BY DEF TimeoutInv
  <2>2. wait.duration # 0 /\ clock >= wait.duration % DwordMod
    BY <1>6 DEF WaitExpires, timeout_ms
  <2>3. wait.duration < DwordMod => clock >= wait.duration
    BY <2>1, <2>2, DurationFits
  <2> QED BY <1>6, <2>2, <2>3 DEF WaitExpires, TimeoutInv, StatusTellsOutcome
<1>7. CASE Terminate
  <2>1. /\ wait.pc = "expired" /\ wait.duration # 0 /\ child.state # "none"
        /\ wait.duration < DwordMod => clock >= wait.duration
        /\ wait' = [wait EXCEPT !.pc = "done", !.status = 124] /\ clock' = clock
    BY <1>7 DEF Terminate, Return, TimeoutInv
  <2>2. child' \in [state : {"none", "running", "ended"}, code : Nat] /\ child'.state = "ended"
    BY <1>7, <2>1 DEF Terminate, TimeoutInv
  <2>3. /\ wait' \in [duration : Durations, pc : {"start", "waiting", "expired", "done"}, status : Nat]
        /\ wait'.pc = "done" /\ wait'.status = 124 /\ wait'.duration = wait.duration
        /\ clock' \in Nat
    <3>1. /\ wait \in [duration : Durations, pc : {"start", "waiting", "expired", "done"}, status : Nat]
          /\ clock \in Nat
      BY DEF TimeoutInv
    <3> QED BY ONLY <2>1, <3>1
  <2> QED BY <2>1, <2>2, <2>3 DEF TimeoutInv, StatusTellsOutcome
<1>8. CASE UNCHANGED timeoutVars
  BY <1>8 DEF timeoutVars, TimeoutInv, StatusTellsOutcome
<1> QED BY <1>1, <1>2, <1>3, <1>4, <1>5, <1>6, <1>7, <1>8 DEF TimeoutNext

-----------------------------------------------------------------------------
(***************************************************************************)
(* tee: a status of 0 says that every file has all lines.                  *)
(***************************************************************************)
TeeState ==
  [pc : {"open", "read", "write", "close", "done"}, args : TeeArgs,
   append : BOOLEAN, exit : BOOLEAN, next : Nat \ {0}, read : Nat, status : {0, 1}]
TeeStream == [file : TeeFiles, at : Nat, buffer : Seq(Nat), failed : BOOLEAN]

TeeTypes ==
  /\ tee \in TeeState
  /\ streams \in Seq(TeeStream)
  /\ disk \in [TeeFiles -> Seq(Nat)]

\* The lines after line a, up to line n; and a file that has the first n lines
\* after what it held.
LinesBetween(a, n) == [k \in 1..n - a |-> a + k]
Kept(n) == <<0>> \o Lines(n)
HeldFirst(d) == Len(d) >= 1 /\ d[1] = 0

\* How many lines the i-th stream has been given.
Given(i) == IF tee.pc = "write" /\ i >= tee.next THEN tee.read - 1 ELSE tee.read

\* A stream that has not failed holds the lines it was given and did not write.
Holds(s, n) == ~s.failed => s.at <= n /\ s.buffer = LinesBetween(s.at, n)

\* The file of a stream, which may be the only one on it: without -a it holds the
\* first lines, as many as its streams have written.
Alone(i) == \A j \in DOMAIN streams : streams[j].file = streams[i].file => j = i
FileOk(append, n, d, s, only) ==
  IF append THEN only /\ ~s.failed => d = Kept(s.at)
  ELSE d = Lines(Len(d)) /\ Len(d) <= n /\ (~s.failed => s.at <= Len(d))

\* A file has a stream if it was named so far, and only one if named once.
Streaming(f) == \E i \in DOMAIN streams : streams[i].file = f
NamedBelow(n, f) == \E j \in DOMAIN tee.args : j < n /\ tee.args[j] = f
NamedTwice(f) ==
  \E k, l \in DOMAIN tee.args : k # l /\ tee.args[k] = f /\ tee.args[l] = f

StreamsOfNames ==
  /\ \A i, j \in DOMAIN streams :
       streams[i].file = streams[j].file /\ i # j => NamedTwice(streams[i].file)
  /\ tee.pc = "open" => \A f \in TeeFiles : Streaming(f) <=> NamedBelow(tee.next, f)
  /\ tee.pc \in {"read", "write", "close"} =>
       \A j \in DOMAIN tee.args : tee.args[j] # Dash => Streaming(tee.args[j])

LinesKept ==
  /\ tee.append => \A f \in TeeFiles : HeldFirst(disk[f])
  /\ tee.pc = "open" => tee.read = 0 /\ (tee.append => \A f \in TeeFiles : disk[f] = <<0>>)
  /\ tee.pc = "write" => tee.read >= 1
  /\ tee.pc # "done" => \A i \in DOMAIN streams :
       /\ Holds(streams[i], Given(i))
       /\ FileOk(tee.append, tee.read, disk[streams[i].file], streams[i], Alone(i))
  /\ tee.pc = "close" => \A i \in DOMAIN streams : i < tee.next =>
       ~streams[i].failed /\ streams[i].buffer = <<>>

TeeInv == TeeTypes /\ StreamsOfNames /\ LinesKept /\ TeeZeroMeansCopied

-----------------------------------------------------------------------------
LEMMA LinesType ==
  /\ \A n \in Nat : Lines(n) \in Seq(Nat) /\ Len(Lines(n)) = n
  /\ \A n \in Nat : \A i \in 1..n : Lines(n)[i] = i
  /\ Lines(0) = <<>>
  BY DEF Lines

LEMMA KeptType ==
  ASSUME NEW n \in Nat
  PROVE  /\ Kept(n) \in Seq(Nat) /\ Len(Kept(n)) = n + 1
         /\ \A i \in 1..n + 1 : Kept(n)[i] = i - 1
<1> DEFINE z == <<0>>
           ls == Lines(n)
<1>1. z \in Seq(Nat) /\ Len(z) = 1 /\ z[1] = 0 OBVIOUS
<1>2. ls \in Seq(Nat) /\ Len(ls) = n /\ \A i \in 1..n : ls[i] = i
  BY LinesType
<1> HIDE DEF z, ls
<1>3. /\ z \o ls \in Seq(Nat) /\ Len(z \o ls) = Len(z) + Len(ls)
      /\ \A i \in 1..Len(z) + Len(ls) :
           (z \o ls)[i] = IF i <= Len(z) THEN z[i] ELSE ls[i - Len(z)]
  BY <1>1, <1>2, ConcatProperties
<1>4. z \o ls \in Seq(Nat) /\ Len(z \o ls) = n + 1 /\ \A i \in 1..n + 1 : (z \o ls)[i] = i - 1
  BY <1>1, <1>2, <1>3
<1> QED BY <1>4 DEF Kept, z, ls

LEMMA BetweenType ==
  ASSUME NEW a \in Nat, NEW n \in Nat, a <= n
  PROVE  /\ LinesBetween(a, n) \in Seq(Nat) /\ Len(LinesBetween(a, n)) = n - a
         /\ \A k \in 1..n - a : LinesBetween(a, n)[k] = a + k
         /\ LinesBetween(n, n) = <<>>
  BY DEF LinesBetween

LEMMA BetweenMore ==
  ASSUME NEW a \in Nat, NEW n \in Nat, a <= n
  PROVE  Append(LinesBetween(a, n), n + 1) = LinesBetween(a, n + 1)
<1> DEFINE b == LinesBetween(a, n)
           c == LinesBetween(a, n + 1)
           x == n + 1
<1>1. /\ b \in Seq(Nat) /\ Len(b) = n - a /\ \A k \in 1..n - a : b[k] = a + k
      /\ c \in Seq(Nat) /\ Len(c) = x - a /\ \A k \in 1..x - a : c[k] = a + k
      /\ x \in Nat /\ x = n + 1
  BY DEF LinesBetween
<1> HIDE DEF b, c, x
<1>2. /\ Append(b, x) \in Seq(Nat) /\ Len(Append(b, x)) = Len(b) + 1
      /\ \A k \in 1..Len(b) : Append(b, x)[k] = b[k]
      /\ Append(b, x)[Len(b) + 1] = x
  BY <1>1
<1> DEFINE e == Append(b, x)
<1>3. /\ e \in Seq(Nat) /\ Len(e) = x - a
      /\ \A k \in 1..x - a : e[k] = IF k = x - a THEN x ELSE a + k
  BY <1>1, <1>2
<1> HIDE DEF e
<1>4. Len(e) = Len(c) /\ \A k \in 1..Len(e) : e[k] = c[k] BY <1>1, <1>3
<1>5. e = c BY <1>1, <1>3, <1>4, SeqEqual
<1> QED BY <1>5 DEF b, c, x, e

\* What a stream writes, with -a and without it.
LEMMA WrittenAfter ==
  ASSUME NEW a \in Nat, NEW n \in Nat, a <= n, tee.append, NEW d \in Seq(Nat)
  PROVE  /\ Written(d, a, LinesBetween(a, n)) \in Seq(Nat)
         /\ HeldFirst(d) => HeldFirst(Written(d, a, LinesBetween(a, n)))
         /\ d = Kept(a) => Written(d, a, LinesBetween(a, n)) = Kept(n)
<1> DEFINE b == LinesBetween(a, n)
<1>1. b \in Seq(Nat) /\ Len(b) = n - a /\ \A k \in 1..n - a : b[k] = a + k
  BY BetweenType
<1>2. Written(d, a, b) = d \o b BY DEF Written
<1> HIDE DEF b
<1>3. /\ d \o b \in Seq(Nat) /\ Len(d \o b) = Len(d) + Len(b)
      /\ \A i \in 1..Len(d) + Len(b) : (d \o b)[i] = IF i <= Len(d) THEN d[i] ELSE b[i - Len(d)]
  BY <1>1, ConcatProperties
<1>4. HeldFirst(d) => HeldFirst(d \o b) BY <1>1, <1>3 DEF HeldFirst
<1>5. ASSUME d = Kept(a) PROVE d \o b = Kept(n)
  <2>1. Len(d) = a + 1 /\ \A i \in 1..a + 1 : d[i] = i - 1
    BY <1>5, KeptType
  <2>2. Kept(n) \in Seq(Nat) /\ Len(Kept(n)) = n + 1 /\ \A i \in 1..n + 1 : Kept(n)[i] = i - 1
    BY KeptType
  <2> DEFINE e == d \o b
             c == Kept(n)
  <2>3. e \in Seq(Nat) /\ Len(e) = n + 1 /\ \A i \in 1..n + 1 : e[i] = i - 1
    BY <1>1, <1>3, <2>1
  <2> HIDE DEF e, c
  <2>4. Len(e) = Len(c) /\ \A i \in 1..Len(e) : e[i] = c[i]
    BY <2>2, <2>3 DEF c
  <2> QED BY <2>2, <2>3, <2>4, SeqEqual DEF e, c
<1> QED BY <1>2, <1>3, <1>4, <1>5 DEF b

LEMMA WrittenOver ==
  ASSUME NEW a \in Nat, NEW n \in Nat, a <= n, ~tee.append, NEW m \in Nat, a <= m
  PROVE  Written(Lines(m), a, LinesBetween(a, n)) = Lines(IF n > m THEN n ELSE m)
<1> DEFINE b == LinesBetween(a, n)
           d == Lines(m)
           e == IF n > m THEN n ELSE m
<1>1. Len(b) = n - a /\ \A k \in 1..n - a : b[k] = a + k BY BetweenType
<1>2. Len(d) = m /\ \A i \in 1..m : d[i] = i BY LinesType
<1> HIDE DEF b, d
<1>3. Written(d, a, b) = [k \in 1..e |-> IF k \in a + 1..n THEN b[k - a] ELSE d[k]]
  <2>1. a + Len(b) = n BY <1>1
  <2> QED BY <1>2, <2>1 DEF Written
<1>4. \A k \in 1..e : (IF k \in a + 1..n THEN b[k - a] ELSE d[k]) = k
  BY <1>1, <1>2
<1>5. Written(d, a, b) = [k \in 1..e |-> k] BY <1>3, <1>4
<1> QED BY <1>5 DEF b, d, Lines

\* What the types say of one stream.
LEMMA StreamFacts ==
  ASSUME TeeTypes, NEW i \in DOMAIN streams
  PROVE  /\ i \in Nat \ {0} /\ i <= Len(streams) /\ Len(streams) \in Nat
         /\ streams[i] \in TeeStream
         /\ streams[i].file \in TeeFiles /\ streams[i].at \in Nat
         /\ streams[i].buffer \in Seq(Nat)
         /\ streams[i].failed \in BOOLEAN
         /\ disk[streams[i].file] \in Seq(Nat)
         /\ tee.read \in Nat /\ tee.next \in Nat \ {0} /\ tee.append \in BOOLEAN
<1>1. DOMAIN streams = 1..Len(streams) /\ Len(streams) \in Nat /\ streams[i] \in TeeStream
  BY DEF TeeTypes
<1> QED BY <1>1 DEF TeeTypes, TeeStream, TeeState

LEMMA TeeBegins == TeeInit => TeeInv
<1> SUFFICES ASSUME TeeInit PROVE TeeInv OBVIOUS
<1>1. TeeTypes
  <2>1. <<>> \in Seq(TeeStream) /\ <<0>> \in Seq(Nat) OBVIOUS
  <2>2. tee \in TeeState BY DEF TeeInit, TeeState
  <2> QED BY <2>1, <2>2 DEF TeeInit, TeeTypes
<1>2. streams = <<>> /\ DOMAIN streams = {} /\ tee.pc = "open" /\ tee.next = 1 /\ tee.read = 0
  BY DEF TeeInit
<1>3. tee.args \in TeeArgs /\ DOMAIN tee.args \subseteq Nat \ {0}
  BY <1>1, TeeAssumption DEF TeeTypes, TeeState
<1>4. StreamsOfNames
  BY <1>2, <1>3 DEF StreamsOfNames, Streaming, NamedBelow
<1>5. LinesKept
  <2>1. \A f \in TeeFiles : disk[f] = <<0>> BY DEF TeeInit
  <2>2. HeldFirst(<<0>>) BY DEF HeldFirst
  <2> QED BY <1>2, <2>1, <2>2 DEF LinesKept
<1> QED BY <1>1, <1>2, <1>4, <1>5 DEF TeeInv, TeeZeroMeansCopied

\* tee ends with 1: nothing is promised.
LEMMA LeavingOne ==
  ASSUME TeeInv, Leave(1), UNCHANGED disk,
         streams' \in Seq(TeeStream),
         DOMAIN streams' = DOMAIN streams,
         \A i \in DOMAIN streams : streams'[i].file = streams[i].file
  PROVE  TeeInv'
<1>1. /\ tee' \in TeeState /\ tee'.pc = "done" /\ tee'.status = 1
      /\ tee'.args = tee.args /\ tee'.append = tee.append
  BY DEF TeeInv, TeeTypes, TeeState, Leave
<1>2. TeeTypes' BY <1>1 DEF TeeInv, TeeTypes
<1>3. StreamsOfNames'
  <2>1. \A f : NamedTwice(f)' <=> NamedTwice(f) BY <1>1 DEF NamedTwice
  <2> QED BY <1>1, <2>1 DEF TeeInv, StreamsOfNames
<1>4. LinesKept' BY <1>1 DEF TeeInv, LinesKept
<1> QED BY <1>1, <1>2, <1>3, <1>4 DEF TeeInv, TeeZeroMeansCopied

\* The state of tee with one field changed.
LEMMA TeeWith ==
  ASSUME NEW t \in TeeState
  PROVE  /\ \A x \in {"open", "read", "write", "close", "done"} : [t EXCEPT !.pc = x] \in TeeState
         /\ \A n \in Nat \ {0} : [t EXCEPT !.next = n] \in TeeState
         /\ \A n \in Nat : [t EXCEPT !.read = n] \in TeeState
  BY DEF TeeState

\* The state of tee as its steps change it.
LEMMA TeeMoves ==
  ASSUME TeeTypes
  PROVE  /\ tee.next \in Nat \ {0} /\ tee.read \in Nat /\ tee.next + 1 \in Nat \ {0}
         /\ \A n \in Nat \ {0} :
              LET u == [tee EXCEPT !.next = n] IN
              /\ u \in TeeState /\ u.next = n /\ u.pc = tee.pc /\ u.read = tee.read
              /\ u.args = tee.args /\ u.append = tee.append
         /\ \A x \in {"open", "read", "write", "close", "done"} :
              LET u == [tee EXCEPT !.pc = x] IN
              /\ u \in TeeState /\ u.pc = x /\ u.next = tee.next /\ u.read = tee.read
              /\ u.args = tee.args /\ u.append = tee.append
         /\ \A x \in {"open", "read", "write", "close", "done"} :
              LET u == [tee EXCEPT !.pc = x, !.next = 1] IN
              /\ u \in TeeState /\ u.pc = x /\ u.next = 1 /\ u.read = tee.read
              /\ u.args = tee.args /\ u.append = tee.append
         /\ LET u == [tee EXCEPT !.pc = "write", !.next = 1, !.read = tee.read + 1] IN
            /\ u \in TeeState /\ u.pc = "write" /\ u.next = 1 /\ u.read = tee.read + 1
            /\ u.args = tee.args /\ u.append = tee.append
<1>1. /\ tee \in TeeState /\ tee.next \in Nat \ {0} /\ tee.read \in Nat
      /\ tee.next + 1 \in Nat \ {0} /\ tee.read + 1 \in Nat /\ 1 \in Nat \ {0}
  BY DEF TeeTypes, TeeState
<1>2. \A n \in Nat \ {0} :
        LET u == [tee EXCEPT !.next = n] IN
        /\ u \in TeeState /\ u.next = n /\ u.pc = tee.pc /\ u.read = tee.read
        /\ u.args = tee.args /\ u.append = tee.append
  BY <1>1 DEF TeeState
<1>3. \A x \in {"open", "read", "write", "close", "done"} :
        LET u == [tee EXCEPT !.pc = x] IN
        /\ u \in TeeState /\ u.pc = x /\ u.next = tee.next /\ u.read = tee.read
        /\ u.args = tee.args /\ u.append = tee.append
  BY <1>1 DEF TeeState
<1>4. ASSUME NEW x \in {"open", "read", "write", "close", "done"}
      PROVE  LET u == [tee EXCEPT !.pc = x, !.next = 1] IN
             /\ u \in TeeState /\ u.pc = x /\ u.next = 1 /\ u.read = tee.read
             /\ u.args = tee.args /\ u.append = tee.append
  <2> DEFINE v == [tee EXCEPT !.pc = x]
             u == [v EXCEPT !.next = 1]
  <2>1. /\ v \in TeeState /\ v.pc = x /\ v.read = tee.read
        /\ v.args = tee.args /\ v.append = tee.append
    BY <1>3
  <2> HIDE DEF v
  <2>2. u \in TeeState BY <1>1, <2>1, TeeWith
  <2>3. u.pc = x /\ u.next = 1 /\ u.read = tee.read /\ u.args = tee.args /\ u.append = tee.append
    BY <2>1 DEF TeeState
  <2> QED BY <2>2, <2>3 DEF v
<1>5. LET u == [tee EXCEPT !.pc = "write", !.next = 1, !.read = tee.read + 1] IN
      /\ u \in TeeState /\ u.pc = "write" /\ u.next = 1 /\ u.read = tee.read + 1
      /\ u.args = tee.args /\ u.append = tee.append
  <2> DEFINE v == [tee EXCEPT !.pc = "write", !.next = 1]
             u == [v EXCEPT !.read = tee.read + 1]
  <2>1. /\ v \in TeeState /\ v.pc = "write" /\ v.next = 1 /\ v.read = tee.read
        /\ v.args = tee.args /\ v.append = tee.append
    BY <1>4
  <2> HIDE DEF v
  <2>2. u \in TeeState BY <1>1, <2>1, TeeWith
  <2>3. /\ u.pc = "write" /\ u.next = 1 /\ u.read = tee.read + 1
        /\ u.args = tee.args /\ u.append = tee.append
    BY <2>1 DEF TeeState
  <2> QED BY <2>2, <2>3 DEF v
<1> QED BY <1>1, <1>2, <1>3, <1>4, <1>5

\* The streams that a step leaves on the same files.
LEMMA NamesStay ==
  ASSUME TeeInv, DOMAIN streams' = DOMAIN streams, tee'.args = tee.args,
         \A i \in DOMAIN streams : streams'[i].file = streams[i].file
  PROVE  /\ \A f : Streaming(f)' <=> Streaming(f)
         /\ \A f : NamedTwice(f)' <=> NamedTwice(f)
         /\ \A i \in DOMAIN streams : Alone(i)' = Alone(i)
         /\ \A i, j \in DOMAIN streams :
              (streams[i].file = streams[j].file /\ i # j => NamedTwice(streams[i].file))'
<1>1. /\ \A f : Streaming(f)' <=> Streaming(f)
      /\ \A f : NamedTwice(f)' <=> NamedTwice(f)
  BY DEF Streaming, NamedTwice
<1>2. \A i \in DOMAIN streams : Alone(i)' = Alone(i) BY DEF Alone
<1>3. ASSUME NEW i \in DOMAIN streams, NEW j \in DOMAIN streams
      PROVE  (streams[i].file = streams[j].file /\ i # j => NamedTwice(streams[i].file))'
  BY <1>1 DEF TeeInv, StreamsOfNames
<1> QED BY <1>1, <1>2, <1>3

LEMMA OpenNextKeeps ==
  ASSUME TeeInv, OpenNext
  PROVE  TeeInv'
<1> DEFINE f == tee.args[tee.next]
<1>1. /\ tee.pc = "open" /\ tee.next \in Nat \ {0} /\ tee.args \in Seq(TeeFiles \cup {Dash})
      /\ tee.next \in DOMAIN tee.args /\ f \in TeeFiles \cup {Dash} /\ tee.append \in BOOLEAN
  <2>1. /\ tee.pc = "open" /\ tee.next \in Nat \ {0} /\ tee.next <= Len(tee.args)
        /\ tee.args \in TeeArgs /\ tee.append \in BOOLEAN
    BY DEF OpenNext, TeeInv, TeeTypes, TeeState
  <2>2. tee.args \in Seq(TeeFiles \cup {Dash}) BY <2>1, TeeAssumption
  <2>3. tee.next \in DOMAIN tee.args BY <2>1, <2>2
  <2> QED BY <2>1, <2>2, <2>3
<1>2. /\ tee' \in TeeState /\ tee'.pc = "open" /\ tee'.next = tee.next + 1
      /\ tee'.args = tee.args /\ tee'.read = tee.read /\ tee'.append = tee.append
  BY <1>1, TeeMoves DEF OpenNext, TeeInv
<1>3. tee.read = 0 /\ (tee.append => \A g \in TeeFiles : disk[g] = <<0>>)
  BY <1>1 DEF TeeInv, LinesKept
<1>4. \A g \in TeeFiles : NamedBelow(tee.next, g)' <=> NamedBelow(tee.next, g) \/ g = f
  <2> TAKE g \in TeeFiles
  <2>1. \A j \in DOMAIN tee.args : j < tee.next + 1 <=> j < tee.next \/ j = tee.next
    BY <1>1
  <2> QED BY <1>1, <1>2, <2>1 DEF NamedBelow
<1>5. CASE f = Dash
  <2>1. UNCHANGED <<streams, disk>> BY <1>5 DEF OpenNext
  <2>2. \A g \in TeeFiles : g # f BY <1>5, TeeAssumption
  <2>3. StreamsOfNames'
    BY <1>1, <1>2, <1>4, <2>1, <2>2, NamesStay DEF TeeInv, StreamsOfNames
  <2>4. \A i \in DOMAIN streams : Given(i)' = Given(i) /\ Alone(i)' = Alone(i)
    BY <1>1, <1>2, <2>1, NamesStay DEF Given
  <2>5. LinesKept' BY <1>1, <1>2, <1>3, <2>1, <2>4 DEF TeeInv, LinesKept
  <2> QED BY <1>2, <2>1, <2>3, <2>5 DEF TeeInv, TeeTypes, TeeZeroMeansCopied
<1>6. CASE f # Dash
  <2> DEFINE new == [file |-> f, at |-> 0, buffer |-> <<>>, failed |-> FALSE]
             n == Len(streams)
  <2>1. /\ f \in TeeFiles /\ streams' = Append(streams, new)
        /\ disk' = IF tee.append THEN disk ELSE [disk EXCEPT ![f] = <<>>]
    BY <1>1, <1>6 DEF OpenNext
  <2>2. new \in TeeStream /\ new.file = f /\ new.at = 0 /\ new.buffer = <<>>
    BY <2>1 DEF TeeStream
  <2> HIDE DEF new, f
  <2>3. /\ streams \in Seq(TeeStream) /\ n \in Nat /\ DOMAIN streams = 1..n
        /\ disk \in [TeeFiles -> Seq(Nat)]
    BY DEF TeeInv, TeeTypes
  <2>4. /\ streams' \in Seq(TeeStream) /\ DOMAIN streams' = 1..n + 1
        /\ \A i \in 1..n : streams'[i] = streams[i]
        /\ streams'[n + 1] = new
    BY <2>1, <2>2, <2>3, AppendFacts
  <2> HIDE DEF n
  <2>5. /\ \A i \in 1..n + 1 : i \in 1..n \/ i = n + 1
        /\ n + 1 \in 1..n + 1 /\ 1..n \subseteq 1..n + 1 /\ n + 1 \notin 1..n
    BY <2>3
  <2>6. \A g \in TeeFiles : Streaming(g)' <=> Streaming(g) \/ g = f
    BY <2>2, <2>3, <2>4, <2>5 DEF Streaming
  <2>7. StreamsOfNames'
    <3>1. Streaming(f) => NamedTwice(f)
      <4>1. Streaming(f) => NamedBelow(tee.next, f)
        BY <1>1, <2>1 DEF TeeInv, StreamsOfNames
      <4> QED BY <1>1, <4>1 DEF NamedBelow, NamedTwice, f
    <3>2. ASSUME NEW i \in 1..n + 1, NEW j \in 1..n + 1, streams'[i].file = streams'[j].file,
                 i # j
          PROVE  NamedTwice(streams'[i].file)
      <4>1. CASE i \in 1..n /\ j \in 1..n
        BY <2>3, <2>4, <3>2, <4>1 DEF TeeInv, StreamsOfNames
      <4>2. CASE i = n + 1 \/ j = n + 1
        <5>1. streams'[i].file = f BY <2>2, <2>4, <3>2, <4>2
        <5>2. Streaming(f)
          BY <2>2, <2>3, <2>4, <2>5, <3>2, <4>2 DEF Streaming
        <5> QED BY <3>1, <5>1, <5>2
      <4> QED BY <2>5, <4>1, <4>2
    <3>3. \A g : NamedTwice(g)' <=> NamedTwice(g) BY <1>2 DEF NamedTwice
    <3>4. \A g \in TeeFiles : Streaming(g)' <=> NamedBelow(tee.next, g)'
      BY <1>1, <1>4, <2>6 DEF TeeInv, StreamsOfNames, f
    <3> QED BY <1>2, <2>4, <3>2, <3>3, <3>4 DEF StreamsOfNames
  <2>8. /\ disk' \in [TeeFiles -> Seq(Nat)]
        /\ tee.append => disk' = disk
        /\ ~tee.append => disk'[f] = <<>> /\ \A g \in TeeFiles : g # f => disk'[g] = disk[g]
    <3>1. <<>> \in Seq(Nat) OBVIOUS
    <3> QED BY <2>1, <2>3, <3>1
  <2>9. LinesKept'
    <3>1. ASSUME NEW i \in 1..n + 1
          PROVE  /\ Holds(streams'[i], 0)
                 /\ FileOk(tee.append, 0, disk'[streams'[i].file], streams'[i], Alone(i)')
      <4>0. LinesBetween(0, 0) = <<>> BY BetweenType
      <4>1. ~streams'[i].failed => streams'[i].at = 0 /\ streams'[i].buffer = <<>>
        <5>1. CASE i = n + 1 BY <2>2, <2>4, <5>1
        <5>2. CASE i # n + 1
          <6>1. i \in DOMAIN streams /\ streams'[i] = streams[i]
            BY <2>3, <2>4, <2>5, <5>2
          <6>2. Given(i) = 0 BY <1>1, <1>3 DEF Given
          <6>3. Holds(streams[i], 0) /\ streams[i].at \in Nat
            BY <1>1, <6>1, <6>2, StreamFacts DEF TeeInv, LinesKept
          <6> QED BY <4>0, <6>1, <6>3 DEF Holds
        <5> QED BY <5>1, <5>2
      <4>2. streams'[i].file \in TeeFiles
        <5>1. streams'[i] \in TeeStream
          BY <2>2, <2>3, <2>4, <2>5, StreamFacts DEF TeeInv
        <5> QED BY <5>1 DEF TeeStream
      <4>3. Holds(streams'[i], 0) BY <4>0, <4>1 DEF Holds
      <4>4. CASE tee.append
        <5>1. disk'[streams'[i].file] = <<0>> BY <1>3, <2>8, <4>2, <4>4
        <5>2. Kept(0) = <<0>>
          <6>1. <<0>> \o <<>> = <<0>> OBVIOUS
          <6> QED BY <6>1, LinesType DEF Kept
        <5> QED BY <4>1, <4>3, <4>4, <5>1, <5>2 DEF FileOk
      <4>5. CASE ~tee.append
        <5>1. disk'[streams'[i].file] = <<>>
          <6>1. CASE streams'[i].file = f BY <2>8, <4>5, <6>1
          <6>2. CASE streams'[i].file # f
            <7>1. i \in DOMAIN streams /\ streams'[i] = streams[i]
              BY <2>2, <2>3, <2>4, <2>5, <6>2
            <7>2. FileOk(tee.append, 0, disk[streams[i].file], streams[i], Alone(i))
              BY <1>1, <1>3, <7>1 DEF TeeInv, LinesKept
            <7>3. disk[streams[i].file] \in Seq(Nat) /\ Len(disk[streams[i].file]) <= 0
              BY <4>5, <7>1, <7>2, StreamFacts DEF TeeInv, FileOk
            <7>4. disk[streams[i].file] = <<>> BY <7>3
            <7> QED BY <2>8, <4>2, <4>5, <6>2, <7>1, <7>4
          <6> QED BY <6>1, <6>2
        <5> QED BY <4>1, <4>3, <4>5, <5>1, LinesType DEF FileOk
      <4> QED BY <1>1, <4>4, <4>5
    <3>2. \A i \in 1..n + 1 : Given(i)' = 0
      BY <1>1, <1>2, <1>3 DEF Given
    <3>3. tee'.append => \A g \in TeeFiles : HeldFirst(disk'[g]) /\ disk'[g] = <<0>>
      BY <1>2, <1>3, <2>8 DEF TeeInv, LinesKept
    <3> QED BY <1>2, <1>3, <2>4, <3>1, <3>2, <3>3 DEF LinesKept
  <2> QED
    BY <1>2, <2>4, <2>7, <2>8, <2>9 DEF TeeInv, TeeTypes, TeeZeroMeansCopied
<1> QED BY <1>5, <1>6

\* No stream and no file changes: what is promised of them stays true when the
\* streams have been given as many lines as before.
LEMMA OnlyTeeMoves ==
  ASSUME TeeInv, UNCHANGED <<streams, disk>>, tee' \in TeeState,
         tee'.args = tee.args, tee'.append = tee.append, tee'.read >= tee.read,
         tee.pc \notin {"done"}, tee'.pc \in {"read", "write", "close"},
         tee.pc = "open" => tee.next > Len(tee.args),
         tee'.pc = "write" => tee'.read >= 1,
         tee'.pc = "close" => tee'.next = 1,
         \A i \in DOMAIN streams : Given(i)' = Given(i)
  PROVE  TeeInv'
<1>1. TeeTypes' BY DEF TeeInv, TeeTypes
<1>2. StreamsOfNames'
  <2>1. \A j \in DOMAIN tee.args : tee.args[j] # Dash => Streaming(tee.args[j])
    <3> TAKE j \in DOMAIN tee.args
    <3>1. CASE tee.pc = "open"
      <4>1. tee.args \in Seq(TeeFiles \cup {Dash}) /\ tee.next \in Nat
        BY TeeAssumption DEF TeeInv, TeeTypes, TeeState
      <4>2. j < tee.next BY <3>1, <4>1
      <4>3. tee.args[j] \in TeeFiles \cup {Dash} BY <4>1
      <4> QED BY <3>1, <4>2, <4>3 DEF TeeInv, StreamsOfNames, NamedBelow
    <3>2. CASE tee.pc # "open"
      BY <3>2 DEF TeeInv, TeeTypes, TeeState, StreamsOfNames
    <3> QED BY <3>1, <3>2
  <2> QED BY <2>1, NamesStay DEF StreamsOfNames
<1>3. LinesKept'
  <2>1. ASSUME NEW i \in DOMAIN streams
        PROVE  /\ Holds(streams[i], Given(i))'
               /\ FileOk(tee.append, tee.read, disk[streams[i].file], streams[i], Alone(i))'
    <3>1. /\ Holds(streams[i], Given(i))
          /\ FileOk(tee.append, tee.read, disk[streams[i].file], streams[i], Alone(i))
      BY DEF TeeInv, LinesKept
    <3>2. Alone(i)' = Alone(i) BY NamesStay
    <3>3. tee.read \in Nat /\ tee'.read \in Nat /\ disk[streams[i].file] \in Seq(Nat)
      BY StreamFacts DEF TeeInv, TeeState
    <3> QED BY <3>1, <3>2, <3>3 DEF Holds, FileOk
  <2>2. tee'.next = 1 => \A i \in DOMAIN streams : ~(i < tee'.next)
    BY StreamFacts DEF TeeInv
  <2> QED BY <2>1, <2>2 DEF TeeInv, LinesKept
<1> QED BY <1>1, <1>2, <1>3 DEF TeeInv, TeeZeroMeansCopied

\* The steps that only move tee.
LEMMA PlainStepsKeep ==
  ASSUME TeeInv, OpenDone \/ ReadLine \/ LineDone \/ EndOfInput
  PROVE  TeeInv'
<1>1. tee \in TeeState /\ UNCHANGED <<streams, disk>> /\ tee.read \in Nat
  BY DEF TeeInv, TeeTypes, TeeState, OpenDone, ReadLine, LineDone, EndOfInput
<1>2. CASE OpenDone
  <2>1. /\ tee.pc = "open" /\ tee.next > Len(tee.args) /\ tee' \in TeeState /\ tee'.pc = "read"
        /\ tee'.args = tee.args /\ tee'.append = tee.append /\ tee'.read = tee.read
    BY <1>1, <1>2, TeeMoves DEF OpenDone, TeeInv
  <2>2. \A i \in DOMAIN streams : Given(i)' = Given(i) BY <2>1 DEF Given
  <2> QED BY <1>1, <2>1, <2>2, OnlyTeeMoves
<1>3. CASE ReadLine
  <2>1. /\ tee.pc = "read" /\ tee' \in TeeState /\ tee'.pc = "write" /\ tee'.next = 1
        /\ tee'.args = tee.args /\ tee'.append = tee.append
        /\ tee'.read = tee.read + 1
    BY <1>1, <1>3, TeeMoves DEF ReadLine, TeeInv
  <2>2. \A i \in DOMAIN streams : Given(i)' = Given(i)
    <3> TAKE i \in DOMAIN streams
    <3>1. i >= 1 /\ i \in Nat BY StreamFacts DEF TeeInv
    <3> QED BY <1>1, <2>1, <3>1 DEF Given
  <2> QED BY <1>1, <2>1, <2>2, OnlyTeeMoves
<1>4. CASE LineDone
  <2>1. /\ tee.pc = "write" /\ tee.next > Len(streams) /\ tee' \in TeeState /\ tee'.pc = "read"
        /\ tee'.args = tee.args /\ tee'.append = tee.append /\ tee'.read = tee.read
    BY <1>1, <1>4, TeeMoves DEF LineDone, TeeInv
  <2>2. \A i \in DOMAIN streams : Given(i)' = Given(i)
    <3> TAKE i \in DOMAIN streams
    <3>1. i <= Len(streams) /\ i \in Nat /\ Len(streams) \in Nat /\ tee.next \in Nat
      BY StreamFacts DEF TeeInv
    <3> QED BY <2>1, <3>1 DEF Given
  <2> QED BY <1>1, <2>1, <2>2, OnlyTeeMoves
<1>5. CASE EndOfInput
  <2>1. /\ tee.pc = "read" /\ tee' \in TeeState /\ tee'.pc = "close" /\ tee'.next = 1
        /\ tee'.args = tee.args /\ tee'.append = tee.append /\ tee'.read = tee.read
    BY <1>1, <1>5, TeeMoves DEF EndOfInput, TeeInv
  <2>2. \A i \in DOMAIN streams : Given(i)' = Given(i) BY <2>1 DEF Given
  <2> QED BY <1>1, <2>1, <2>2, OnlyTeeMoves
<1> QED BY <1>2, <1>3, <1>4, <1>5

\* One stream takes the line of its turn, or is closed.  A file it shares with
\* another stream does not get shorter.
LEMMA StreamMoves ==
  ASSUME TeeInv, tee.pc \in {"write", "close"}, NEW i \in DOMAIN streams, i = tee.next,
         NEW t \in TeeStream, t.file = streams[i].file,
         NEW d \in Seq(Nat),
         streams' = [streams EXCEPT ![i] = t],
         disk' = [disk EXCEPT ![t.file] = d],
         tee' = [tee EXCEPT !.next = @ + 1],
         Holds(t, tee.read), FileOk(tee.append, tee.read, d, t, Alone(i)),
         tee.append => HeldFirst(d),
         ~tee.append => Len(disk[t.file]) <= Len(d),
         tee.pc = "close" => ~t.failed /\ t.buffer = <<>>
  PROVE  TeeInv'
<1>1. /\ tee' \in TeeState /\ tee'.pc = tee.pc /\ tee'.next = tee.next + 1
      /\ tee'.args = tee.args /\ tee'.append = tee.append /\ tee'.read = tee.read
      /\ tee.next \in Nat /\ tee.read \in Nat
  BY TeeMoves DEF TeeInv
<1>2. streams \in Seq(TeeStream) /\ disk \in [TeeFiles -> Seq(Nat)]
  BY DEF TeeInv, TeeTypes
<1>3. /\ streams' \in Seq(TeeStream) /\ DOMAIN streams' = DOMAIN streams
      /\ streams'[i] = t
      /\ \A j \in DOMAIN streams : j # i => streams'[j] = streams[j]
  BY <1>2, ExceptSeq
<1>4. /\ disk' \in [TeeFiles -> Seq(Nat)] /\ disk'[t.file] = d
      /\ \A f \in TeeFiles : f # t.file => disk'[f] = disk[f]
  <2>1. t.file \in TeeFiles BY DEF TeeStream
  <2> QED BY <1>2, <2>1
<1>5. \A j \in DOMAIN streams : streams'[j].file = streams[j].file
  BY <1>3
<1>6. StreamsOfNames'
  BY <1>1, <1>3, <1>5, NamesStay DEF TeeInv, StreamsOfNames
<1>7. ASSUME NEW j \in DOMAIN streams
      PROVE  /\ Holds(streams[j], Given(j))'
             /\ FileOk(tee.append, tee.read, disk[streams[j].file], streams[j], Alone(j))'
  <2>1. Alone(j)' = Alone(j) BY <1>1, <1>3, <1>5, NamesStay
  <2>2. CASE j = i
    <3>1. Given(j)' = tee.read BY <1>1, <2>2 DEF Given
    <3>2. disk'[streams'[j].file] = d /\ streams'[j] = t
      BY <1>3, <1>4, <2>2
    <3> QED BY <1>1, <2>1, <2>2, <3>1, <3>2
  <2>3. CASE j # i
    <3>1. Given(j)' = Given(j)
      <4>1. j \in Nat /\ i \in Nat BY StreamFacts DEF TeeInv
      <4>2. j >= tee.next + 1 <=> j >= tee.next BY <2>3, <4>1
      <4> QED BY <1>1, <4>2 DEF Given
    <3>2. /\ Holds(streams[j], Given(j)) /\ streams[j].at \in Nat
          /\ FileOk(tee.append, tee.read, disk[streams[j].file], streams[j], Alone(j))
          /\ streams[j].file \in TeeFiles /\ disk[streams[j].file] \in Seq(Nat)
      BY StreamFacts DEF TeeInv, LinesKept
    <3>3. streams'[j] = streams[j] /\ Holds(streams'[j], Given(j)')
      BY <1>3, <2>3, <3>1, <3>2
    <3>4. CASE streams[j].file # t.file
      BY <1>1, <1>4, <2>1, <3>2, <3>3, <3>4
    <3>5. CASE streams[j].file = t.file
      <4>1. disk'[streams'[j].file] = d BY <1>4, <3>3, <3>5
      <4>2. ~Alone(j) BY <2>3, <3>5 DEF Alone
      <4>3. FileOk(tee.append, tee.read, d, streams[j], Alone(j))
        BY <3>2, <3>5, <4>2 DEF FileOk
      <4> QED BY <1>1, <2>1, <3>3, <4>1, <4>3
    <3> QED BY <3>3, <3>4, <3>5
  <2> QED BY <2>2, <2>3
<1>8. ASSUME tee.pc = "close", NEW j \in DOMAIN streams, j < tee.next + 1
      PROVE  ~streams'[j].failed /\ streams'[j].buffer = <<>>
  <2>1. CASE j = i BY <1>3, <1>8, <2>1
  <2>2. CASE j # i
    <3>1. j \in Nat /\ j < tee.next
      BY <1>1, <1>8, <2>2, StreamFacts DEF TeeInv
    <3> QED BY <1>3, <1>8, <2>2, <3>1 DEF TeeInv, LinesKept
  <2> QED BY <2>1, <2>2
<1>9. tee.append => \A f \in TeeFiles : HeldFirst(disk'[f])
  BY <1>4 DEF TeeInv, LinesKept
<1>10. LinesKept' BY <1>1, <1>3, <1>7, <1>8, <1>9 DEF TeeInv, LinesKept
<1>11. TeeTypes' BY <1>1, <1>3, <1>4 DEF TeeTypes
<1> QED BY <1>1, <1>6, <1>10, <1>11 DEF TeeInv, TeeZeroMeansCopied

\* A stream that has not failed writes all it was given and did not write.
LEMMA FlushKeeps ==
  ASSUME TeeInv, tee.pc \in {"write", "close"}, NEW i \in DOMAIN streams, i = tee.next,
         ~streams[i].failed, streams[i].at <= tee.read,
         Flush(i, LinesBetween(streams[i].at, tee.read)),
         tee' = [tee EXCEPT !.next = @ + 1]
  PROVE  TeeInv'
<1> DEFINE s == streams[i]
           n == tee.read
           b == LinesBetween(s.at, n)
           old == disk[s.file]
           d == Written(old, s.at, b)
           t == [s EXCEPT !.at = n, !.buffer = <<>>]
<1>1. /\ s \in TeeStream /\ s.file \in TeeFiles /\ s.at \in Nat /\ old \in Seq(Nat)
      /\ n \in Nat /\ s.at <= n /\ ~s.failed /\ tee.append \in BOOLEAN
      /\ disk \in [TeeFiles -> Seq(Nat)]
  BY StreamFacts DEF TeeInv, TeeTypes
<1>2. /\ FileOk(tee.append, n, old, s, Alone(i))
      /\ tee.append => HeldFirst(old)
  BY <1>1 DEF TeeInv, LinesKept
<1>3. t \in TeeStream /\ t.file = s.file /\ t.at = n /\ t.buffer = <<>> /\ ~t.failed
  <2>1. <<>> \in Seq(Nat) OBVIOUS
  <2>2. [s EXCEPT !.at = n] \in TeeStream BY <1>1 DEF TeeStream
  <2> QED BY <1>1, <2>1, <2>2 DEF TeeStream
<1>4. streams' = [streams EXCEPT ![i] = t] /\ disk' = [disk EXCEPT ![t.file] = d]
  <2>1. Len(b) = n - s.at BY <1>1, BetweenType
  <2>2. s.at + Len(b) = n BY <1>1, <2>1
  <2> HIDE DEF b, n
  <2>3. streams' = [streams EXCEPT ![i] = t] BY <2>2 DEF Flush, b, n
  <2>4. disk' = [disk EXCEPT ![s.file] = d] BY DEF Flush, b, n
  <2> HIDE DEF d, t
  <2> QED BY <1>3, <2>3, <2>4
<1>5. CASE tee.append
  <2>1. /\ d \in Seq(Nat) /\ (HeldFirst(old) => HeldFirst(d))
        /\ old = Kept(s.at) => d = Kept(n)
    BY <1>1, <1>5, WrittenAfter
  <2>2. FileOk(tee.append, n, d, t, Alone(i)) /\ HeldFirst(d)
    BY <1>1, <1>2, <1>3, <1>5, <2>1 DEF FileOk
  <2>3. Holds(t, n) BY <1>1, <1>3, BetweenType DEF Holds
  <2> HIDE DEF t, d, b
  <2> QED BY <1>3, <1>4, <1>5, <2>1, <2>2, <2>3, StreamMoves
<1>6. CASE ~tee.append
  <2> DEFINE m == Len(old)
             e == IF n > m THEN n ELSE m
  <2>1. old = Lines(m) /\ m \in Nat /\ s.at <= m /\ m <= n
    BY <1>1, <1>2, <1>6 DEF FileOk
  <2>2. d = Lines(e) BY <1>1, <1>6, <2>1, WrittenOver
  <2>3. e = n BY <1>1, <2>1
  <2>4. d = Lines(n) /\ d \in Seq(Nat) /\ Len(d) = n
    BY <1>1, <2>2, <2>3, LinesType
  <2>5. FileOk(tee.append, n, d, t, Alone(i)) /\ Len(old) <= Len(d)
    BY <1>1, <1>3, <1>6, <2>1, <2>4 DEF FileOk
  <2>6. Holds(t, n) BY <1>1, <1>3, BetweenType DEF Holds
  <2>7. Len(disk[t.file]) <= Len(d) BY <1>3, <2>5
  <2> HIDE DEF t, d, b
  <2> QED BY <1>3, <1>4, <1>6, <2>4, <2>5, <2>6, <2>7, StreamMoves
<1> QED BY <1>1, <1>5, <1>6

LEMMA WriteLineKeeps ==
  ASSUME TeeInv, WriteLine
  PROVE  TeeInv'
<1> DEFINE i == tee.next
           s == streams[i]
           n == tee.read - 1
<1>1. /\ tee.pc = "write" /\ tee.next <= Len(streams)
      /\ streams \in Seq(TeeStream) /\ disk \in [TeeFiles -> Seq(Nat)]
  BY DEF WriteLine, TeeInv, TeeTypes
<1>2. i \in DOMAIN streams BY <1>1, TeeMoves DEF TeeInv
<1>3. /\ s \in TeeStream /\ s.file \in TeeFiles /\ s.buffer \in Seq(Nat) /\ s.at \in Nat
      /\ disk[s.file] \in Seq(Nat) /\ tee.read \in Nat /\ s.failed \in BOOLEAN
  BY <1>2, StreamFacts DEF TeeInv
<1>4. n \in Nat /\ tee.read = n + 1 /\ Given(i) = n
  <2>1. tee.read >= 1 BY <1>1 DEF TeeInv, LinesKept
  <2> QED BY <1>1, <1>2, <1>3, <2>1, StreamFacts DEF TeeInv, Given
<1>5. Holds(s, n) /\ FileOk(tee.append, tee.read, disk[s.file], s, Alone(i))
  BY <1>1, <1>2, <1>4 DEF TeeInv, LinesKept
<1>6. disk = [disk EXCEPT ![s.file] = disk[s.file]] /\ (tee.append => HeldFirst(disk[s.file]))
  BY <1>1, <1>3 DEF TeeInv, LinesKept
<1> HIDE DEF n
<1>7. ~s.failed => s.at <= tee.read /\ Append(s.buffer, tee.read) = LinesBetween(s.at, tee.read)
  <2>1. ~s.failed => s.at <= n /\ s.buffer = LinesBetween(s.at, n)
    BY <1>5 DEF Holds
  <2>2. ~s.failed => Append(LinesBetween(s.at, n), n + 1) = LinesBetween(s.at, n + 1)
    BY <1>3, <1>4, <2>1, BetweenMore
  <2> QED BY <1>3, <1>4, <2>1, <2>2
<1>8. CASE /\ ~s.failed
           /\ streams' = [streams EXCEPT ![i].buffer = Append(@, tee.read)]
           /\ tee' = [tee EXCEPT !.next = @ + 1]
           /\ UNCHANGED disk
  <2> DEFINE b == Append(s.buffer, tee.read)
             t == [s EXCEPT !.buffer = b]
  <2>1. b \in Seq(Nat) BY <1>3
  <2>2. streams' = [streams EXCEPT ![i] = t] BY <1>8
  <2> HIDE DEF b
  <2>3. t \in TeeStream /\ t.file = s.file /\ t.at = s.at /\ ~t.failed /\ t.buffer = b
    BY <1>3, <1>8, <2>1 DEF TeeStream
  <2> HIDE DEF t
  <2>4. Holds(t, tee.read) /\ FileOk(tee.append, tee.read, disk[s.file], t, Alone(i))
    BY <1>5, <1>7, <1>8, <2>3 DEF Holds, FileOk, b
  <2>5. disk' = [disk EXCEPT ![t.file] = disk[s.file]]
    BY <1>6, <1>8, <2>3
  <2>6. Len(disk[t.file]) <= Len(disk[s.file]) BY <1>3, <2>3
  <2> QED BY <1>1, <1>2, <1>3, <1>6, <1>8, <2>2, <2>3, <2>4, <2>5, <2>6, StreamMoves
<1>9. CASE /\ ~s.failed
           /\ Flush(i, Append(s.buffer, tee.read))
           /\ tee' = [tee EXCEPT !.next = @ + 1]
  BY <1>1, <1>2, <1>7, <1>9, FlushKeeps
<1>10. CASE /\ streams' = [streams EXCEPT ![i].failed = TRUE]
            /\ IF tee.exit THEN Leave(1) ELSE tee' = [tee EXCEPT !.next = @ + 1]
            /\ UNCHANGED disk
  <2> DEFINE t == [s EXCEPT !.failed = TRUE]
  <2>1. t \in TeeStream /\ t.file = s.file /\ t.failed
    BY <1>3 DEF TeeStream
  <2>2. streams' = [streams EXCEPT ![i] = t] BY <1>10
  <2> HIDE DEF t
  <2>3. CASE tee.exit
    <3>1. /\ streams' \in Seq(TeeStream) /\ DOMAIN streams' = DOMAIN streams
          /\ streams'[i] = t
          /\ \A j \in DOMAIN streams : j # i => streams'[j] = streams[j]
      BY <1>1, <1>2, <2>1, <2>2, ExceptSeq
    <3>2. \A j \in DOMAIN streams : streams'[j].file = streams[j].file
      BY <2>1, <3>1
    <3> QED BY <1>10, <2>3, <3>1, <3>2, LeavingOne
  <2>4. CASE ~tee.exit
    <3>1. tee' = [tee EXCEPT !.next = @ + 1] /\ disk' = [disk EXCEPT ![t.file] = disk[s.file]]
      BY <1>6, <1>10, <2>1, <2>4
    <3>2. Holds(t, tee.read) /\ FileOk(tee.append, tee.read, disk[s.file], t, Alone(i))
      BY <1>5, <2>1 DEF Holds, FileOk
    <3>3. Len(disk[t.file]) <= Len(disk[s.file]) BY <1>3, <2>1
    <3> QED BY <1>1, <1>2, <1>3, <1>6, <2>1, <2>2, <3>1, <3>2, <3>3, StreamMoves
  <2> QED BY <2>3, <2>4
<1> QED BY <1>8, <1>9, <1>10 DEF WriteLine

LEMMA CloseNextKeeps ==
  ASSUME TeeInv, CloseNext
  PROVE  TeeInv'
<1> DEFINE i == tee.next
           s == streams[i]
<1>1. /\ tee.pc = "close" /\ tee.next <= Len(streams)
      /\ streams \in Seq(TeeStream)
  BY DEF CloseNext, TeeInv, TeeTypes
<1>2. i \in DOMAIN streams BY <1>1, TeeMoves DEF TeeInv
<1>3. CASE ~s.failed /\ Flush(i, s.buffer) /\ tee' = [tee EXCEPT !.next = @ + 1]
  <2>1. Holds(s, tee.read) BY <1>1, <1>2 DEF TeeInv, LinesKept, Given
  <2>2. s.at <= tee.read /\ s.buffer = LinesBetween(s.at, tee.read)
    BY <1>3, <2>1 DEF Holds
  <2> QED BY <1>1, <1>2, <1>3, <2>2, FlushKeeps
<1>4. CASE streams' = [streams EXCEPT ![i].failed = TRUE] /\ Leave(1) /\ UNCHANGED disk
  <2> DEFINE t == [s EXCEPT !.failed = TRUE]
  <2>1. t \in TeeStream /\ t.file = s.file
    BY <1>1, <1>2, StreamFacts DEF TeeInv, TeeStream
  <2>2. streams' = [streams EXCEPT ![i] = t] BY <1>4
  <2>3. /\ streams' \in Seq(TeeStream) /\ DOMAIN streams' = DOMAIN streams
        /\ streams'[i] = t
        /\ \A j \in DOMAIN streams : j # i => streams'[j] = streams[j]
    BY <1>1, <1>2, <2>1, <2>2, ExceptSeq
  <2>4. \A j \in DOMAIN streams : streams'[j].file = streams[j].file
    BY <2>1, <2>3
  <2> QED BY <1>4, <2>3, <2>4, LeavingOne
<1> QED BY <1>3, <1>4 DEF CloseNext

LEMMA CloseDoneKeeps ==
  ASSUME TeeInv, CloseDone
  PROVE  TeeInv'
<1>1. /\ tee.pc = "close" /\ tee.next > Len(streams) /\ UNCHANGED <<streams, printed, disk>>
      /\ tee' = [tee EXCEPT !.pc = "done", !.status = 0] /\ tee \in TeeState
  BY DEF CloseDone, Leave, TeeInv, TeeTypes
<1>2. /\ tee' \in TeeState /\ tee'.pc = "done" /\ tee'.read = tee.read
      /\ tee'.args = tee.args /\ tee'.append = tee.append
  BY <1>1 DEF TeeState
<1>3. ASSUME NEW k \in DOMAIN tee.args, tee.args[k] # Dash
      PROVE  LET f == tee.args[k]
                 once == \A j \in DOMAIN tee.args : tee.args[j] = f => j = k
             IN
             /\ ~tee.append => disk[f] = Lines(tee.read)
             /\ tee.append => disk[f] # <<>> /\ Head(disk[f]) = 0
             /\ tee.append /\ once => disk[f] = <<0>> \o Lines(tee.read)
  <2> DEFINE f == tee.args[k]
             once == \A j \in DOMAIN tee.args : tee.args[j] = f => j = k
  <2>1. PICK i \in DOMAIN streams : streams[i].file = f
    BY <1>1, <1>3 DEF TeeInv, StreamsOfNames, Streaming
  <2> HIDE DEF f
  <2>2. /\ ~streams[i].failed /\ streams[i].buffer = <<>> /\ streams[i].at \in Nat
        /\ Holds(streams[i], tee.read) /\ tee.read \in Nat /\ disk[f] \in Seq(Nat)
        /\ FileOk(tee.append, tee.read, disk[f], streams[i], Alone(i)) /\ f \in TeeFiles
    <3>1. i < tee.next BY <1>1, StreamFacts DEF TeeInv
    <3>2. /\ ~streams[i].failed /\ streams[i].buffer = <<>>
          /\ Holds(streams[i], tee.read)
          /\ FileOk(tee.append, tee.read, disk[f], streams[i], Alone(i))
      BY <1>1, <2>1, <3>1 DEF TeeInv, LinesKept, Given
    <3> QED BY <2>1, <3>2, StreamFacts DEF TeeInv
  <2>3. streams[i].at = tee.read
    <3>1. LinesBetween(streams[i].at, tee.read) = <<>> /\ streams[i].at <= tee.read
      BY <2>2 DEF Holds
    <3>2. Len(LinesBetween(streams[i].at, tee.read)) = tee.read - streams[i].at
      BY <2>2, <3>1, BetweenType
    <3> QED BY <2>2, <3>1, <3>2
  <2>4. ~tee.append => disk[f] = Lines(tee.read)
    <3>1. ~tee.append => disk[f] = Lines(Len(disk[f])) /\ Len(disk[f]) = tee.read
      BY <2>2, <2>3 DEF FileOk
    <3> QED BY <3>1
  <2>5. tee.append => disk[f] # <<>> /\ Head(disk[f]) = 0
    BY <2>2 DEF TeeInv, LinesKept, HeldFirst
  <2>6. tee.append /\ once => disk[f] = <<0>> \o Lines(tee.read)
    <3>1. once => Alone(i)
      BY <2>1 DEF TeeInv, StreamsOfNames, Alone, NamedTwice
    <3> QED BY <2>2, <2>3, <3>1 DEF FileOk, Kept
  <2> QED BY <2>4, <2>5, <2>6 DEF f
<1>4. TeeZeroMeansCopied' BY <1>1, <1>2, <1>3 DEF TeeZeroMeansCopied
<1>5. StreamsOfNames'
  BY <1>1, <1>2, NamesStay DEF TeeInv, StreamsOfNames
<1>6. TeeTypes' /\ LinesKept'
  BY <1>1, <1>2 DEF TeeInv, TeeTypes, LinesKept
<1> QED BY <1>4, <1>5, <1>6 DEF TeeInv

LEMMA TeeKeeps ==
  ASSUME TeeInv, [TeeNext]_teeVars
  PROVE  TeeInv'
<1>1. CASE OpenFails
  <2>1. Leave(1) /\ UNCHANGED <<streams, disk>> /\ streams \in Seq(TeeStream)
    BY <1>1 DEF OpenFails, TeeInv, TeeTypes
  <2> QED BY <2>1, LeavingOne
<1>2. CASE UNCHANGED teeVars
  <2>1. \A i \in DOMAIN streams : Given(i)' = Given(i)
    BY <1>2 DEF teeVars, Given
  <2> QED
    BY <1>2, <2>1, NamesStay
       DEF teeVars, TeeInv, TeeTypes, StreamsOfNames, LinesKept, NamedBelow, TeeZeroMeansCopied
<1> QED
  BY <1>1, <1>2, OpenNextKeeps, PlainStepsKeep, WriteLineKeeps, CloseNextKeeps, CloseDoneKeeps
     DEF TeeNext

-----------------------------------------------------------------------------
(***************************************************************************)
(* Captured calls of the library: a call that nobody disturbs gets its own *)
(* output, all of it and in order.                                         *)
(***************************************************************************)
CaptureCall ==
  [by : Callers, pc : {"command", "finished", "returned"},
   left : Seq(Streams), wrote : Seq(Streams),
   result : [Streams -> Seq(Nat)], alone : BOOLEAN]
CaptureHandles == [active : BOOLEAN, stdout : Nat, stderr : Nat]

CaptureTypes ==
  /\ calls \in Seq(CaptureCall)
  /\ capture \in CaptureHandles
  /\ pipes \in [Streams -> Seq(Seq(Nat))]
  /\ \A s \in Streams : Len(pipes[s]) = Len(calls)
  /\ console \subseteq DOMAIN calls

\* What is left to print is the end of what the command prints.
Remains(left, out) ==
  /\ Len(left) <= Len(out)
  /\ \A i \in 1..Len(left) : left[i] = out[Len(out) - Len(left) + i]

\* The pieces for a stream among the first n; as many of a call's in its pipe.
PiecesBelow(s, out, n) == {i \in 1..n : out[i] = s}
Marks(c, n) == [i \in 1..n |-> c]

\* A call that is alone has its pipes published, and what its command has
\* printed so far is in them.
Undisturbed(c) ==
  /\ \A d \in DOMAIN calls : InCall(d) => d = c
  /\ calls[c].pc = "command" =>
       /\ capture.active /\ capture.stdout = c /\ capture.stderr = c
       /\ c \notin console
       /\ Remains(calls[c].left, calls[c].wrote)
       /\ \A s \in Streams :
            pipes[s][c] = Marks(c, Cardinality(PiecesBelow(s, calls[c].wrote,
                                                 Len(calls[c].wrote) - Len(calls[c].left))))

\* What a call that was alone has returned.
Delivered(c) ==
  /\ c \notin console
  /\ \A s \in Streams :
       calls[c].result[s] = Marks(c, Cardinality(PiecesOn(s, calls[c].wrote)))

CaptureInv ==
  /\ CaptureTypes
  /\ capture.active => /\ capture.stdout \in DOMAIN calls /\ InCall(capture.stdout)
                       /\ capture.stderr = capture.stdout
  /\ \A c \in DOMAIN calls :
       calls[c].alone => /\ InCall(c) => Undisturbed(c)
                         /\ calls[c].pc # "command" => Delivered(c)

-----------------------------------------------------------------------------
LEMMA NextPiece ==
  ASSUME NEW out \in Seq(Streams), NEW left \in Seq(Streams), left # <<>>, Remains(left, out)
  PROVE  /\ Tail(left) \in Seq(Streams) /\ Head(left) \in Streams
         /\ Remains(Tail(left), out)
         /\ Len(out) - Len(left) \in Nat
         /\ Len(out) - Len(Tail(left)) = Len(out) - Len(left) + 1
         /\ out[Len(out) - Len(left) + 1] = Head(left)
<1>1. /\ Tail(left) \in Seq(Streams) /\ Head(left) \in Streams /\ Head(left) = left[1]
      /\ Len(left) \in Nat \ {0} /\ Len(out) \in Nat /\ Len(Tail(left)) = Len(left) - 1
      /\ \A i \in 1..Len(left) - 1 : Tail(left)[i] = left[i + 1]
  BY EmptySeq, HeadTailProperties
<1>2. Len(left) <= Len(out) /\ \A i \in 1..Len(left) : left[i] = out[Len(out) - Len(left) + i]
  BY DEF Remains
<1>3. 1 \in 1..Len(left) /\ \A i \in 1..Len(left) - 1 : i + 1 \in 1..Len(left)
  BY <1>1
<1> DEFINE t == Tail(left)
<1>4. Len(t) = Len(left) - 1 /\ \A i \in 1..Len(left) - 1 : t[i] = left[i + 1]
  BY <1>1
<1> HIDE DEF t
<1>5. \A i \in 1..Len(t) : t[i] = out[Len(out) - Len(t) + i]
  <2> TAKE i \in 1..Len(t)
  <2>1. i \in 1..Len(left) - 1 /\ i + 1 \in 1..Len(left) BY <1>1, <1>4
  <2>2. t[i] = out[Len(out) - Len(left) + (i + 1)] BY <1>2, <1>4, <2>1
  <2>3. Len(out) - Len(left) + (i + 1) = Len(out) - Len(t) + i
    BY <1>1, <1>4, <2>1
  <2> QED BY <2>2, <2>3
<1>6. Remains(t, out) BY <1>1, <1>2, <1>4, <1>5 DEF Remains
<1>7. Len(out) - Len(left) \in Nat /\ Len(out) - Len(t) = Len(out) - Len(left) + 1
  BY <1>1, <1>2, <1>4
<1> QED BY <1>1, <1>2, <1>3, <1>6, <1>7 DEF t

LEMMA CountNext ==
  ASSUME NEW out, NEW n \in Nat, NEW s
  PROVE  LET m == Cardinality(PiecesBelow(s, out, n)) IN
         /\ m \in Nat
         /\ Cardinality(PiecesBelow(s, out, n + 1)) = IF out[n + 1] = s THEN m + 1 ELSE m
<1> DEFINE B == PiecesBelow(s, out, n)
<1>1. B \subseteq 1..n /\ IsFiniteSet(1..n)
  BY FS_Interval DEF PiecesBelow
<1>2. IsFiniteSet(B) /\ Cardinality(B) \in Nat
  BY <1>1, FS_Subset, FS_CardinalityType
<1>3. n + 1 \notin B BY DEF PiecesBelow
<1>4. PiecesBelow(s, out, n + 1) = IF out[n + 1] = s THEN B \cup {n + 1} ELSE B
  <2>1. \A i : i \in 1..n + 1 <=> i \in 1..n \/ i = n + 1 OBVIOUS
  <2> QED BY <2>1 DEF PiecesBelow
<1>5. Cardinality(B \cup {n + 1}) = Cardinality(B) + 1
  BY <1>2, <1>3, FS_AddElement
<1> QED BY <1>2, <1>4, <1>5

LEMMA MarksMore ==
  ASSUME NEW c \in Nat, NEW n \in Nat
  PROVE  /\ Marks(c, n) \in Seq(Nat)
         /\ Append(Marks(c, n), c) = Marks(c, n + 1)
<1> DEFINE a == Marks(c, n)
           b == Marks(c, n + 1)
<1>2. (\A k \in 1..n : b[k] = a[k]) /\ b[n + 1] = c BY DEF Marks
<1>3. a \in Seq(Nat) /\ Len(a) = n /\ b \in Seq(Nat) /\ Len(b) = n + 1
  BY DEF Marks
<1> HIDE DEF a, b
<1>4. b = Append(a, c)
  <2>1. Len(b) = Len(a) + 1 /\ b[Len(a) + 1] = c /\ \A k \in 1..Len(a) : b[k] = a[k]
    BY <1>2, <1>3
  <2> QED BY <1>3, <2>1
<1> QED BY <1>3, <1>4 DEF a, b

LEMMA CaptureBegins == CaptureInit => CaptureInv
<1> SUFFICES ASSUME CaptureInit PROVE CaptureInv OBVIOUS
<1>1. calls = <<>> /\ DOMAIN calls = {} /\ Len(calls) = 0 /\ console = {}
  BY DEF CaptureInit
<1>2. capture \in CaptureHandles /\ ~capture.active
  BY DEF CaptureInit, NoCapture, CaptureHandles
<1>3. calls \in Seq(CaptureCall) BY <1>1
<1>4. <<>> \in Seq(Seq(Nat)) /\ Len(<<>>) = 0 OBVIOUS
<1>5. pipes \in [Streams -> Seq(Seq(Nat))] /\ \A s \in Streams : Len(pipes[s]) = Len(calls)
  BY <1>1, <1>4 DEF CaptureInit
<1> QED BY <1>1, <1>2, <1>3, <1>5 DEF CaptureInv, CaptureTypes

LEMMA CaptureIsOwn == CaptureInv => CapturedIsOwn
<1> SUFFICES ASSUME CaptureInv PROVE CapturedIsOwn OBVIOUS
<1>1. ASSUME NEW c \in DOMAIN calls, calls[c].alone, calls[c].pc # "command"
      PROVE  /\ c \notin console
             /\ \A s \in Streams :
                  calls[c].result[s] = [i \in 1..Cardinality(PiecesOn(s, calls[c].wrote)) |-> c]
  BY <1>1 DEF CaptureInv, Delivered, Marks
<1>2. Busy = {} => ~capture.active BY DEF CaptureInv, Busy
<1> QED BY <1>1, <1>2 DEF CapturedIsOwn

\* Calls after a step that leaves those other than c as they are.
LEMMA PrintKeeps ==
  ASSUME CaptureInv, NEW c \in DOMAIN calls, PrintPiece(c)
  PROVE  CaptureInv'
<1> DEFINE left == calls[c].left
           out == calls[c].wrote
           h == Head(left)
           p == Target(h)
           n == Len(out) - Len(left)
<1>1. /\ calls \in Seq(CaptureCall) /\ DOMAIN calls = 1..Len(calls) /\ Len(calls) \in Nat
      /\ calls[c] \in CaptureCall /\ calls[c].pc = "command" /\ InCall(c)
      /\ left \in Seq(Streams) /\ left # <<>> /\ out \in Seq(Streams)
      /\ capture' = capture /\ capture \in CaptureHandles
      /\ pipes \in [Streams -> Seq(Seq(Nat))]
      /\ \A s \in Streams : Len(pipes[s]) = Len(calls)
      /\ c \in Nat /\ c # 0
  <2>1. /\ calls \in Seq(CaptureCall) /\ capture \in CaptureHandles
        /\ pipes \in [Streams -> Seq(Seq(Nat))]
        /\ \A s \in Streams : Len(pipes[s]) = Len(calls)
        /\ calls[c].pc = "command" /\ left # <<>> /\ capture' = capture
    BY DEF CaptureInv, CaptureTypes, PrintPiece
  <2>2. DOMAIN calls = 1..Len(calls) /\ Len(calls) \in Nat /\ calls[c] \in CaptureCall
    BY <2>1
  <2>3. left \in Seq(Streams) /\ out \in Seq(Streams)
    BY <2>2 DEF CaptureCall
  <2>4. c \in Nat /\ c # 0 BY <2>2
  <2>5. InCall(c) BY <2>1 DEF InCall
  <2> QED BY <2>1, <2>2, <2>3, <2>4, <2>5
<1>2. Tail(left) \in Seq(Streams) /\ h \in Streams
  BY <1>1, EmptySeq, HeadTailProperties
<1>0. \A s \in Streams : /\ pipes[s] \in Seq(Seq(Nat)) /\ Len(pipes[s]) = Len(calls)
                         /\ DOMAIN pipes[s] = DOMAIN calls
  <2> TAKE s \in Streams
  <2>1. pipes[s] \in Seq(Seq(Nat)) /\ Len(pipes[s]) = Len(calls) BY <1>1
  <2>2. DOMAIN pipes[s] = 1..Len(pipes[s]) BY <2>1
  <2> QED BY <1>1, <2>1, <2>2
<1>3. /\ calls' \in Seq(CaptureCall) /\ DOMAIN calls' = DOMAIN calls /\ Len(calls') = Len(calls)
      /\ \A d \in DOMAIN calls : d # c => calls'[d] = calls[d]
      /\ calls'[c] = [calls[c] EXCEPT !.left = Tail(left)]
  <2> DEFINE t == [calls[c] EXCEPT !.left = Tail(left)]
  <2>1. t \in CaptureCall BY <1>1, <1>2 DEF CaptureCall
  <2>2. calls' = [calls EXCEPT ![c] = t] BY DEF PrintPiece
  <2> HIDE DEF t
  <2>3. /\ calls' \in Seq(CaptureCall) /\ DOMAIN calls' = DOMAIN calls /\ Len(calls') = Len(calls)
        /\ \A d \in DOMAIN calls : d # c => calls'[d] = calls[d]
        /\ calls'[c] = t
    BY <1>1, <2>1, <2>2, ExceptSeq
  <2> QED BY <2>3 DEF t
<1>4. /\ calls'[c].pc = "command" /\ calls'[c].alone = calls[c].alone /\ calls'[c].wrote = out
      /\ calls'[c].left = Tail(left)
  BY <1>1, <1>3 DEF CaptureCall
<1>5. \A d \in DOMAIN calls : InCall(d)' <=> InCall(d)
  BY <1>1, <1>3, <1>4 DEF InCall
<1>6. ASSUME calls[c].alone
      PROVE  /\ p = c /\ Remains(Tail(left), out) /\ n \in Nat
             /\ Len(out) - Len(Tail(left)) = n + 1 /\ out[n + 1] = h
             /\ \A s \in Streams : pipes[s][c] = Marks(c, Cardinality(PiecesBelow(s, out, n)))
             /\ \A d \in DOMAIN calls : InCall(d) => d = c
             /\ c \notin console
  <2>1. Undisturbed(c) BY <1>1, <1>6 DEF CaptureInv
  <2>2. p = c
    BY <1>1, <1>2, <2>1 DEF Undisturbed, Target, Streams, CaptureHandles
  <2>3. Remains(left, out) /\ c \notin console /\ \A d \in DOMAIN calls : InCall(d) => d = c
    BY <1>1, <2>1 DEF Undisturbed
  <2>4. \A s \in Streams : pipes[s][c] = Marks(c, Cardinality(PiecesBelow(s, out, n)))
    BY <1>1, <2>1 DEF Undisturbed
  <2>5. /\ Remains(Tail(left), out) /\ n \in Nat
        /\ Len(out) - Len(Tail(left)) = n + 1 /\ out[n + 1] = h
    BY <1>1, <2>3, NextPiece
  <2> QED BY <2>2, <2>3, <2>4, <2>5
<1>7. /\ console' \subseteq console \cup {c} /\ console' \subseteq DOMAIN calls
      /\ p # 0 => console' = console
  BY DEF PrintPiece, CaptureInv, CaptureTypes
<1>8. p = 0 \/ p \in DOMAIN calls
  BY <1>1, <1>2 DEF CaptureInv, Target, Streams, CaptureHandles
<1>9. \/ pipes' = pipes
      \/ /\ p \in DOMAIN calls
         /\ pipes' = [pipes EXCEPT ![h] = [pipes[h] EXCEPT ![p] = Append(pipes[h][p], c)]]
  BY <1>8 DEF PrintPiece
<1>10. p = c => pipes' = [pipes EXCEPT ![h] = [pipes[h] EXCEPT ![c] = Append(pipes[h][c], c)]]
  BY <1>1 DEF PrintPiece
<1>11. CaptureTypes'
  <2>1. /\ pipes' \in [Streams -> Seq(Seq(Nat))]
        /\ \A s \in Streams : Len(pipes'[s]) = Len(calls)
    <3>1. CASE pipes' = pipes BY <1>1, <3>1
    <3>2. CASE pipes' # pipes
      <4> DEFINE a == Append(pipes[h][p], c)
                 q == [pipes[h] EXCEPT ![p] = a]
      <4>1. p \in DOMAIN calls /\ pipes' = [pipes EXCEPT ![h] = q]
        BY <1>9, <3>2
      <4>2. pipes[h] \in Seq(Seq(Nat)) /\ Len(pipes[h]) = Len(calls) /\ p \in DOMAIN pipes[h]
        BY <1>0, <1>2, <4>1
      <4>3. pipes[h][p] \in Seq(Nat) BY <4>2
      <4>4. a \in Seq(Nat) BY <1>1, <4>3
      <4> HIDE DEF a
      <4>5. q \in Seq(Seq(Nat)) /\ Len(q) = Len(calls)
        BY <4>2, <4>4, ExceptSeq
      <4> HIDE DEF q
      <4> QED BY <1>1, <1>2, <4>1, <4>5
    <3> QED BY <3>1, <3>2
  <2> QED BY <1>1, <1>3, <1>7, <2>1 DEF CaptureTypes
<1>12. capture'.active => /\ capture'.stdout \in DOMAIN calls' /\ InCall(capture.stdout)'
                          /\ capture'.stderr = capture'.stdout
  BY <1>1, <1>3, <1>5 DEF CaptureInv
<1>13. ASSUME NEW d \in DOMAIN calls, calls'[d].alone
       PROVE  (InCall(d) => Undisturbed(d))' /\ (calls[d].pc # "command" => Delivered(d))'
  <2>1. CASE d = c
    <3>1. calls[c].alone BY <1>4, <1>13, <2>1
    <3>2. \A e \in DOMAIN calls : InCall(e)' => e = c
      BY <1>5, <1>6, <3>1
    <3>3. capture'.active /\ capture'.stdout = c /\ capture'.stderr = c /\ c \notin console'
      BY <1>1, <1>6, <1>7, <3>1 DEF CaptureInv, Undisturbed
    <3>4. \A s \in Streams : pipes'[s][c] = Marks(c, Cardinality(PiecesBelow(s, out, n + 1)))
      <4> TAKE s \in Streams
      <4> DEFINE m == Cardinality(PiecesBelow(s, out, n))
      <4>1. /\ m \in Nat
            /\ Cardinality(PiecesBelow(s, out, n + 1)) = IF h = s THEN m + 1 ELSE m
        <5>1. n \in Nat /\ out[n + 1] = h BY <1>6, <3>1
        <5> HIDE DEF n, h, out
        <5> QED BY <5>1, CountNext
      <4>2. pipes[s][c] = Marks(c, m) BY <1>6, <3>1
      <4>3. /\ pipes' = [pipes EXCEPT ![h] = [pipes[h] EXCEPT ![c] = Append(pipes[h][c], c)]]
            /\ pipes[s] \in Seq(Seq(Nat)) /\ c \in DOMAIN pipes[s] /\ pipes[h] \in Seq(Seq(Nat))
        BY <1>0, <1>2, <1>6, <1>10, <3>1
      <4> HIDE DEF m
      <4>4. CASE h = s
        <5>1. pipes'[s][c] = Append(pipes[s][c], c)
          BY <1>1, <1>2, <4>3, <4>4
        <5> QED BY <1>1, <4>1, <4>2, <4>4, <5>1, MarksMore
      <4>5. CASE h # s
        <5>1. pipes'[s][c] = pipes[s][c] BY <1>1, <1>2, <4>3, <4>5
        <5> QED BY <4>1, <4>2, <4>5, <5>1
      <4> QED BY <4>4, <4>5
    <3>5. Undisturbed(c)'
      <4>1. Remains(calls'[c].left, calls'[c].wrote) /\ DOMAIN calls' = DOMAIN calls
        BY <1>3, <1>4, <1>6, <3>1
      <4>2. Len(calls'[c].wrote) - Len(calls'[c].left) = n + 1 /\ calls'[c].wrote = out
        BY <1>4, <1>6, <3>1
      <4> HIDE DEF n, out, left, h, p
      <4>3. \A s \in Streams :
              pipes'[s][c] = Marks(c, Cardinality(PiecesBelow(s, calls'[c].wrote,
                                        Len(calls'[c].wrote) - Len(calls'[c].left))))
        BY <3>4, <4>2
      <4> QED BY <3>2, <3>3, <4>1, <4>3 DEF Undisturbed
    <3> QED BY <1>4, <2>1, <3>5
  <2>2. CASE d # c
    <3>1. calls'[d] = calls[d] /\ calls[d].alone BY <1>3, <1>13, <2>2
    <3>2. ~InCall(d) BY <1>1, <2>2, <3>1 DEF CaptureInv, Undisturbed
    <3>3. calls[d].pc # "command" /\ Delivered(d)
      BY <3>1, <3>2 DEF CaptureInv, InCall
    <3>4. d \notin console' BY <1>7, <2>2, <3>3 DEF Delivered
    <3> QED BY <1>5, <3>1, <3>2, <3>3, <3>4 DEF Delivered
  <2> QED BY <2>1, <2>2
<1> QED BY <1>3, <1>11, <1>12, <1>13 DEF CaptureInv

LEMMA ExecuteStartKeeps ==
  ASSUME CaptureInv, NEW t \in Callers, StartCall(t)
  PROVE  CaptureInv'
<1>0. PICK n \in Nat : n = Len(calls) BY DEF CaptureInv, CaptureTypes
<1> DEFINE old == [d \in DOMAIN calls |-> [calls[d] EXCEPT !.alone = @ /\ ~InCall(d)]]
<1>1. /\ calls \in Seq(CaptureCall) /\ DOMAIN calls = 1..n /\ n \in Nat
      /\ pipes \in [Streams -> Seq(Seq(Nat))]
      /\ \A s \in Streams : pipes[s] \in Seq(Seq(Nat)) /\ Len(pipes[s]) = n
      /\ UNCHANGED console /\ console \subseteq 1..n
  <2>1. calls \in Seq(CaptureCall) /\ pipes \in [Streams -> Seq(Seq(Nat))]
    BY DEF CaptureInv, CaptureTypes
  <2>2. DOMAIN calls = 1..n /\ n \in Nat BY <1>0, <2>1
  <2> QED BY <1>0, <2>1, <2>2 DEF CaptureInv, CaptureTypes, StartCall
<1>2. PICK out \in Outputs :
        calls' = Append(old, [by |-> t, pc |-> "command", left |-> out, wrote |-> out,
                              result |-> [s \in Streams |-> <<>>], alone |-> Busy = {}])
  BY DEF StartCall
<1>3. out \in Seq(Streams) BY CaptureAssumption
<1> DEFINE new == [by |-> t, pc |-> "command", left |-> out, wrote |-> out,
                   result |-> [s \in Streams |-> <<>>], alone |-> Busy = {}]
<1>4. /\ new \in CaptureCall /\ new.pc = "command" /\ new.left = out /\ new.wrote = out
      /\ new.alone <=> Busy = {}
  <2>1. <<>> \in Seq(Nat) OBVIOUS
  <2>2. [s \in Streams |-> <<>>] \in [Streams -> Seq(Nat)] BY <2>1
  <2> DEFINE r == [s \in Streams |-> <<>>]
             b == Busy = {}
  <2>3. b \in BOOLEAN OBVIOUS
  <2> HIDE DEF r, b
  <2>4. [by |-> t, pc |-> "command", left |-> out, wrote |-> out, result |-> r, alone |-> b]
          \in CaptureCall
    BY <1>3, <2>2, <2>3 DEF CaptureCall, r
  <2> QED BY <2>4 DEF r, b
<1> HIDE DEF new
<1>5. /\ old \in Seq(CaptureCall) /\ Len(old) = n
      /\ \A d \in 1..n : /\ old[d].pc = calls[d].pc /\ old[d].wrote = calls[d].wrote
                         /\ old[d].result = calls[d].result
                         /\ old[d].alone => calls[d].alone /\ ~InCall(d)
  <2>1. ASSUME NEW d \in 1..n
        PROVE  /\ old[d] \in CaptureCall
               /\ old[d].pc = calls[d].pc /\ old[d].wrote = calls[d].wrote
               /\ old[d].result = calls[d].result
               /\ old[d].alone => calls[d].alone /\ ~InCall(d)
    <3> DEFINE b == calls[d].alone /\ ~InCall(d)
    <3>1. calls[d] \in CaptureCall /\ b \in BOOLEAN BY <1>1
    <3>2. old[d] = [calls[d] EXCEPT !.alone = b] BY <1>1
    <3>3. b => calls[d].alone /\ ~InCall(d) OBVIOUS
    <3> HIDE DEF b, old
    <3> QED BY <3>1, <3>2, <3>3 DEF CaptureCall
  <2>2. old = [d \in 1..n |-> old[d]] BY <1>1
  <2> HIDE DEF old
  <2>3. old \in Seq(CaptureCall) /\ Len(old) = n
    BY <1>1, <2>1, <2>2, SeqOfFunction
  <2> QED BY <2>1, <2>3
<1> HIDE DEF old
<1>6. /\ calls' \in Seq(CaptureCall) /\ Len(calls') = n + 1 /\ DOMAIN calls' = 1..n + 1
      /\ \A d \in 1..n : calls'[d] = old[d]
      /\ calls'[n + 1] = new
  <2>1. calls' = Append(old, new) BY <1>2 DEF new
  <2> QED BY <1>4, <1>5, <2>1, AppendFacts
<1>7. /\ pipes' \in [Streams -> Seq(Seq(Nat))]
      /\ \A s \in Streams : Len(pipes'[s]) = n + 1 /\ pipes'[s][n + 1] = <<>>
  <2>1. pipes' = [s \in Streams |-> Append(pipes[s], <<>>)]
    BY DEF StartCall
  <2>2. <<>> \in Seq(Nat) OBVIOUS
  <2>3. \A s \in Streams : /\ Append(pipes[s], <<>>) \in Seq(Seq(Nat))
                           /\ Len(Append(pipes[s], <<>>)) = n + 1
                           /\ Append(pipes[s], <<>>)[n + 1] = <<>>
    BY <1>1, <2>2, AppendFacts
  <2> QED BY <2>1, <2>3
<1>8. /\ capture' \in CaptureHandles
      /\ capture'.active /\ capture'.stdout = n + 1 /\ capture'.stderr = n + 1
  <2>1. capture' = [active |-> TRUE, stdout |-> n + 1, stderr |-> n + 1]
    BY <1>0 DEF StartCall
  <2>2. n + 1 \in Nat BY <1>1
  <2> QED BY <2>1, <2>2 DEF CaptureHandles
<1>9. n + 1 \in 1..n + 1 /\ 1..n \subseteq 1..n + 1 /\ n + 1 \notin 1..n
      /\ \A d \in 1..n + 1 : d \in 1..n \/ d = n + 1
  BY <1>1
<1>10. CaptureTypes' BY <1>1, <1>6, <1>7, <1>8, <1>9 DEF CaptureTypes
<1>11. InCall(capture.stdout)' BY <1>4, <1>6, <1>8 DEF InCall
<1>12. ASSUME NEW d \in 1..n, calls'[d].alone
       PROVE  ~InCall(d)' /\ Delivered(d)'
  <2>1. ~InCall(d) /\ calls[d].alone /\ calls'[d].pc = calls[d].pc
    BY <1>5, <1>6, <1>12
  <2>2. Delivered(d) BY <1>1, <2>1 DEF CaptureInv, InCall
  <2>3. ~InCall(d)' BY <2>1 DEF InCall
  <2>4. calls'[d].wrote = calls[d].wrote /\ calls'[d].result = calls[d].result
    BY <1>5, <1>6
  <2> QED BY <1>1, <2>2, <2>3, <2>4 DEF Delivered
<1>13. ASSUME calls'[n + 1].alone PROVE Undisturbed(n + 1)'
  <2>1. Busy = {} BY <1>4, <1>6, <1>13
  <2>2. \A d \in 1..n + 1 : InCall(d)' => d = n + 1
    <3>1. ASSUME NEW d \in 1..n PROVE ~InCall(d)'
      <4>1. ~InCall(d) /\ calls'[d].pc = calls[d].pc
        BY <1>1, <1>5, <1>6, <2>1 DEF Busy
      <4> QED BY <4>1 DEF InCall
    <3> QED BY <1>9, <3>1
  <2>3. n + 1 \notin console' BY <1>1, <1>9
  <2>4. Remains(out, out) BY <1>3 DEF Remains
  <2>5. \A s \in Streams : pipes'[s][n + 1] = Marks(n + 1, Cardinality(PiecesBelow(s, out, 0)))
    <3> TAKE s \in Streams
    <3>1. PiecesBelow(s, out, 0) = {} BY DEF PiecesBelow
    <3>2. Cardinality(PiecesBelow(s, out, 0)) = 0 BY <3>1, FS_EmptySet
    <3>3. Marks(n + 1, 0) = <<>> BY DEF Marks
    <3> QED BY <1>7, <3>2, <3>3
  <2>6. Len(out) - Len(out) = 0 BY <1>3
  <2>7. \A s \in Streams :
          pipes'[s][n + 1] = Marks(n + 1, Cardinality(PiecesBelow(s, calls'[n + 1].wrote,
                                 Len(calls'[n + 1].wrote) - Len(calls'[n + 1].left))))
    BY <1>4, <1>6, <2>5, <2>6
  <2> QED BY <1>4, <1>6, <1>8, <2>2, <2>3, <2>4, <2>7 DEF Undisturbed
<1>14. calls'[n + 1].pc = "command" BY <1>4, <1>6
<1>15. \A d \in DOMAIN calls' :
         calls'[d].alone => /\ InCall(d)' => Undisturbed(d)'
                            /\ calls'[d].pc # "command" => Delivered(d)'
  BY <1>6, <1>9, <1>12, <1>13, <1>14
<1> QED BY <1>6, <1>8, <1>9, <1>10, <1>11, <1>15 DEF CaptureInv

LEMMA FinishKeeps ==
  ASSUME CaptureInv, NEW c \in DOMAIN calls, Finish(c)
  PROVE  CaptureInv'
<1> DEFINE r == [s \in Streams |-> pipes[s][c]]
           u == [calls[c] EXCEPT !.pc = "finished", !.result = r]
<1>1. /\ calls \in Seq(CaptureCall) /\ calls[c] \in CaptureCall
      /\ calls[c].pc = "command" /\ calls[c].left = <<>>
      /\ pipes \in [Streams -> Seq(Seq(Nat))]
      /\ UNCHANGED <<capture, console>>
      /\ calls' = [calls EXCEPT ![c] = u]
      /\ pipes' = [s \in Streams |-> [pipes[s] EXCEPT ![c] = <<>>]]
  <2>1. calls \in Seq(CaptureCall) /\ pipes \in [Streams -> Seq(Seq(Nat))]
    BY DEF CaptureInv, CaptureTypes
  <2>2. calls[c] \in CaptureCall BY <2>1
  <2>3. calls' = [calls EXCEPT ![c] = u] BY DEF Finish
  <2> HIDE DEF u, r
  <2> QED BY <2>1, <2>2, <2>3 DEF Finish
<1>2. \A s \in Streams : /\ pipes[s] \in Seq(Seq(Nat)) /\ Len(pipes[s]) = Len(calls)
                         /\ pipes[s][c] \in Seq(Nat) /\ c \in DOMAIN pipes[s]
  <2> TAKE s \in Streams
  <2>1. pipes[s] \in Seq(Seq(Nat)) /\ Len(pipes[s]) = Len(calls)
    BY <1>1 DEF CaptureInv, CaptureTypes
  <2>2. DOMAIN pipes[s] = 1..Len(pipes[s]) /\ DOMAIN calls = 1..Len(calls)
    BY <1>1, <2>1
  <2>3. c \in DOMAIN pipes[s] BY <2>1, <2>2
  <2> QED BY <2>1, <2>3
<1>3. r \in [Streams -> Seq(Nat)] BY <1>2
<1>4. \A s \in Streams : r[s] = pipes[s][c] OBVIOUS
<1> HIDE DEF r
<1>5. /\ u \in CaptureCall /\ u.pc = "finished" /\ u.result = r
      /\ u.wrote = calls[c].wrote /\ u.alone = calls[c].alone
  BY <1>1, <1>3 DEF CaptureCall
<1> HIDE DEF u
<1>6. /\ calls' \in Seq(CaptureCall) /\ DOMAIN calls' = DOMAIN calls /\ Len(calls') = Len(calls)
      /\ calls'[c] = u
      /\ \A d \in DOMAIN calls : d # c => calls'[d] = calls[d]
  BY <1>1, <1>5, ExceptSeq
<1>7. \A d \in DOMAIN calls : InCall(d)' <=> InCall(d)
  BY <1>1, <1>5, <1>6 DEF InCall
<1>8. CaptureTypes'
  <2>1. <<>> \in Seq(Nat) OBVIOUS
  <2>2. \A s \in Streams : /\ [pipes[s] EXCEPT ![c] = <<>>] \in Seq(Seq(Nat))
                           /\ Len([pipes[s] EXCEPT ![c] = <<>>]) = Len(pipes[s])
    BY <1>2, <2>1, ExceptSeq
  <2>3. /\ pipes' \in [Streams -> Seq(Seq(Nat))]
        /\ \A s \in Streams : Len(pipes'[s]) = Len(calls)
    BY <1>1, <1>2, <2>2
  <2> QED BY <1>1, <1>6, <2>3 DEF CaptureInv, CaptureTypes
<1>9. capture'.active => /\ capture'.stdout \in DOMAIN calls' /\ InCall(capture.stdout)'
                         /\ capture'.stderr = capture'.stdout
  BY <1>1, <1>6, <1>7 DEF CaptureInv
<1>10. ASSUME NEW d \in DOMAIN calls, calls'[d].alone
       PROVE  (InCall(d) => Undisturbed(d))' /\ (calls[d].pc # "command" => Delivered(d))'
  <2>1. CASE d = c
    <3>1. Undisturbed(c)
      BY <1>1, <1>5, <1>6, <1>10, <2>1 DEF CaptureInv, InCall
    <3>2. \A e \in DOMAIN calls : InCall(e)' => e = c
      BY <1>7, <3>1 DEF Undisturbed
    <3>3. Undisturbed(c)' BY <1>5, <1>6, <3>2 DEF Undisturbed
    <3>4. calls[c].wrote \in Seq(Streams) /\ c \notin console
      BY <1>1, <3>1 DEF CaptureCall, Undisturbed
    <3>5. \A s \in Streams : r[s] = Marks(c, Cardinality(PiecesOn(s, calls[c].wrote)))
      <4> TAKE s \in Streams
      <4> DEFINE out == calls[c].wrote
      <4>1. Len(out) - Len(calls[c].left) = Len(out) /\ DOMAIN out = 1..Len(out)
        BY <1>1, <3>4
      <4>2. PiecesBelow(s, out, Len(out)) = PiecesOn(s, out)
        BY <4>1 DEF PiecesBelow, PiecesOn
      <4>3. pipes[s][c] = Marks(c, Cardinality(PiecesBelow(s, out, Len(out) - Len(calls[c].left))))
        BY <1>1, <3>1 DEF Undisturbed
      <4> QED BY <1>4, <4>1, <4>2, <4>3
    <3>6. Delivered(c)' BY <1>1, <1>5, <1>6, <3>4, <3>5 DEF Delivered
    <3> QED BY <2>1, <3>3, <3>6
  <2>2. CASE d # c
    <3>1. calls'[d] = calls[d] /\ calls[d].alone BY <1>6, <1>10, <2>2
    <3>2. ~InCall(d)
      BY <1>1, <2>2, <3>1 DEF CaptureInv, Undisturbed, InCall
    <3>3. Delivered(d) BY <3>1, <3>2 DEF CaptureInv, InCall
    <3> QED BY <1>1, <1>7, <3>1, <3>2, <3>3 DEF Delivered
  <2> QED BY <2>1, <2>2
<1> QED BY <1>6, <1>8, <1>9, <1>10 DEF CaptureInv

LEMMA ReturnKeeps ==
  ASSUME CaptureInv, NEW c \in DOMAIN calls, ReturnCall(c)
  PROVE  CaptureInv'
<1> DEFINE u == [calls[c] EXCEPT !.pc = "returned"]
<1>1. /\ calls \in Seq(CaptureCall) /\ calls[c] \in CaptureCall
      /\ calls[c].pc = "finished" /\ InCall(c)
      /\ UNCHANGED <<pipes, console>>
      /\ calls' = [calls EXCEPT ![c] = u]
      /\ capture' = NoCapture
  <2>1. calls \in Seq(CaptureCall) BY DEF CaptureInv, CaptureTypes
  <2> QED BY <2>1 DEF ReturnCall, InCall
<1>2. /\ u \in CaptureCall /\ u.pc = "returned" /\ u.result = calls[c].result
      /\ u.wrote = calls[c].wrote /\ u.alone = calls[c].alone
  BY <1>1 DEF CaptureCall
<1> HIDE DEF u
<1>3. /\ calls' \in Seq(CaptureCall) /\ DOMAIN calls' = DOMAIN calls /\ Len(calls') = Len(calls)
      /\ calls'[c] = u
      /\ \A d \in DOMAIN calls : d # c => calls'[d] = calls[d]
  BY <1>1, <1>2, ExceptSeq
<1>4. capture' \in CaptureHandles /\ ~capture'.active
  BY <1>1 DEF NoCapture, CaptureHandles
<1>5. CaptureTypes' BY <1>1, <1>3, <1>4 DEF CaptureInv, CaptureTypes
<1>6. ASSUME NEW d \in DOMAIN calls, calls'[d].alone
      PROVE  ~InCall(d)' /\ (calls[d].pc # "command" => Delivered(d))'
  <2>1. CASE d = c
    <3>1. ~InCall(c)' /\ Delivered(c)
      BY <1>1, <1>2, <1>3, <1>6, <2>1 DEF CaptureInv, InCall
    <3> QED BY <1>1, <1>2, <1>3, <2>1, <3>1 DEF Delivered
  <2>2. CASE d # c
    <3>1. calls'[d] = calls[d] /\ calls[d].alone BY <1>3, <1>6, <2>2
    <3>2. ~InCall(d) BY <1>1, <2>2, <3>1 DEF CaptureInv, Undisturbed
    <3>3. Delivered(d) BY <3>1, <3>2 DEF CaptureInv, InCall
    <3> QED BY <1>1, <3>1, <3>2, <3>3 DEF Delivered, InCall
  <2> QED BY <2>1, <2>2
<1> QED BY <1>3, <1>4, <1>5, <1>6 DEF CaptureInv

LEMMA CaptureKeeps ==
  ASSUME CaptureInv, [CaptureNext]_captureVars
  PROVE  CaptureInv'
<1>1. CASE UNCHANGED captureVars
  <2>1. CaptureTypes' BY <1>1 DEF captureVars, CaptureInv, CaptureTypes
  <2>2. \A c \in DOMAIN calls :
          /\ InCall(c)' = InCall(c) /\ Undisturbed(c)' = Undisturbed(c)
          /\ Delivered(c)' = Delivered(c)
    BY <1>1 DEF captureVars, InCall, Undisturbed, Delivered
  <2> QED BY <1>1, <2>1, <2>2 DEF captureVars, CaptureInv, InCall
<1> QED
  BY <1>1, ExecuteStartKeeps, PrintKeeps, FinishKeeps, ReturnKeeps DEF CaptureNext, CaptureStep

-----------------------------------------------------------------------------
(***************************************************************************)
(* The completion cache: what a shell completes from is the source's.      *)
(***************************************************************************)
ShellState ==
  [pc : {"start", "load", "parse", "parsing", "open", "header", "rest", "close", "rename",
         "done"},
   key : Nat, data : [first : Nat, rest : Nat]]
CacheFile ==
  [key : Nat, first : Nat \cup {Unwritten}, rest : Nat \cup {Unwritten}, exists : BOOLEAN]

CacheTypes ==
  /\ source \in Nat \ {0}
  /\ cache \in CacheFile /\ tmp \in CacheFile
  /\ shell \in [Shells -> ShellState]
  /\ mixed \in BOOLEAN

\* Current, of two pieces, with the source at version n and the keys K refused.
UpToDate(n, K, k, a, b) ==
  /\ a \in k..n \/ (a = 0 /\ k \in K)
  /\ b \in k..n \/ (b = 0 /\ k \in K)
  /\ a <= b \/ k \in K

\* A file that is whole can be used under its key.
FreshFile(n, K, file) ==
  file.first # Unwritten /\ file.rest # Unwritten => UpToDate(n, K, file.key, file.first, file.rest)

Holding(s) == s.pc \in {"open", "header", "rest", "close", "rename", "done"}
FreshShell(n, K, s) == Holding(s) => UpToDate(n, K, s.key, s.data.first, s.data.rest)

\* What a shell has read before it has read all.
ReadSoFar(n, s) ==
  /\ s.key <= n /\ (s.pc = "start" => s.key = 0)
  /\ s.pc \in {"start", "load", "parse"} => s.data.first = 0 /\ s.data.rest = 0
  /\ s.pc = "parsing" => s.data.first \in s.key..n /\ s.data.rest = 0

Writing(s) == s.pc \in {"header", "rest", "close"}

\* Shells that have the temporary open hold the same, and nothing else is in it.
SameInTmp ==
  /\ \A p, q \in Shells : Writing(shell[p]) /\ Writing(shell[q]) =>
       shell[p].data = shell[q].data /\ shell[p].key = shell[q].key
  /\ \A p \in Shells : Writing(shell[p]) =>
       /\ \/ tmp.first = Unwritten
          \/ tmp.first = shell[p].data.first /\ tmp.key = shell[p].key
       /\ tmp.rest \in {Unwritten, shell[p].data.rest}

CacheInv ==
  /\ CacheTypes
  /\ \A p \in Shells : ReadSoFar(source, shell[p])
  /\ ~mixed => /\ FreshFile(source, refused, cache) /\ FreshFile(source, refused, tmp)
               /\ \A p \in Shells : FreshShell(source, refused, shell[p])
               /\ SameInTmp

\* Edits and failures to read make nothing stale.
LEMMA FreshGrows ==
  ASSUME NEW m \in Nat, NEW n \in Nat, NEW K, NEW L, m <= n, K \subseteq L
  PROVE  /\ \A k, a, b \in Nat : UpToDate(m, K, k, a, b) => UpToDate(n, L, k, a, b)
         /\ \A file \in CacheFile : FreshFile(m, K, file) => FreshFile(n, L, file)
         /\ \A s \in ShellState : FreshShell(m, K, s) => FreshShell(n, L, s)
         /\ \A s \in ShellState : ReadSoFar(m, s) => ReadSoFar(n, s)
<1>1. \A k, a, b \in Nat : UpToDate(m, K, k, a, b) => UpToDate(n, L, k, a, b)
  BY DEF UpToDate
<1>2. \A file \in CacheFile : FreshFile(m, K, file) => FreshFile(n, L, file)
  BY <1>1 DEF FreshFile, CacheFile
<1>3. \A s \in ShellState : FreshShell(m, K, s) => FreshShell(n, L, s)
  BY <1>1 DEF FreshShell, ShellState
<1>4. \A s \in ShellState : ReadSoFar(m, s) => ReadSoFar(n, s)
  BY DEF ReadSoFar, ShellState
<1> QED BY <1>1, <1>2, <1>3, <1>4

LEMMA CacheBegins == CacheInit => CacheInv
<1> SUFFICES ASSUME CacheInit PROVE CacheInv OBVIOUS
<1>1. /\ source = 1 /\ mixed = FALSE
      /\ cache = [key |-> 0, first |-> Unwritten, rest |-> Unwritten, exists |-> FALSE]
      /\ tmp = cache
  BY DEF CacheInit, NoFile
<1>2. \A p \in Shells : shell[p] = [pc |-> "start", key |-> 0, data |-> [first |-> 0, rest |-> 0]]
  BY DEF CacheInit, NewShell, Whole
<1>3. CacheTypes
  <2>1. [pc |-> "start", key |-> 0, data |-> [first |-> 0, rest |-> 0]] \in ShellState
    BY DEF ShellState
  <2>2. shell \in [Shells -> ShellState] BY <2>1 DEF CacheInit, NewShell, Whole
  <2>3. [key |-> 0, first |-> Unwritten, rest |-> Unwritten, exists |-> FALSE] \in CacheFile
    BY DEF CacheFile
  <2>4. cache \in CacheFile /\ tmp \in CacheFile BY <1>1, <2>3
  <2>5. source \in Nat \ {0} /\ mixed \in BOOLEAN
    <3>1. 1 \in Nat \ {0} OBVIOUS
    <3> QED BY <1>1, <3>1, Zenon
  <2> QED BY <2>2, <2>4, <2>5, Zenon DEF CacheTypes
<1>4. FreshFile(source, refused, cache) /\ FreshFile(source, refused, tmp)
  BY <1>1 DEF FreshFile
<1>5. \A p \in Shells : ReadSoFar(source, shell[p]) /\ FreshShell(source, refused, shell[p])
  BY <1>1, <1>2 DEF ReadSoFar, FreshShell, Holding
<1>6. SameInTmp BY <1>2 DEF SameInTmp, Writing
<1> QED BY <1>3, <1>4, <1>5, <1>6 DEF CacheInv

\* A shell gets a state that has the temporary not open; the temporary may become
\* the cache, or go, when nobody has it open.
LEMMA ShellBecomes ==
  ASSUME CacheInv, NEW p \in Shells, NEW t \in ShellState,
         shell' = [shell EXCEPT ![p] = t], UNCHANGED <<source, mixed>>,
         refused \subseteq refused', ~Writing(t), ReadSoFar(source, t),
         ~mixed => FreshShell(source, refused', t),
         cache' = cache \/ cache' = tmp,
         tmp' = tmp \/ (tmp' = NoFile /\ Writers = {})
  PROVE  CacheInv'
<1>1. /\ shell'[p] = t
      /\ \A q \in Shells : q # p => shell'[q] = shell[q]
      /\ shell' \in [Shells -> ShellState]
      /\ source \in Nat
  BY DEF CacheInv, CacheTypes
<1>2. NoFile \in CacheFile /\ FreshFile(source, refused, NoFile)
  BY DEF NoFile, CacheFile, FreshFile
<1>3. CacheTypes' BY <1>1, <1>2 DEF CacheInv, CacheTypes
<1>4. \A q \in Shells : ReadSoFar(source', shell'[q])
  BY <1>1 DEF CacheInv
<1>5. ASSUME ~mixed
      PROVE  /\ FreshFile(source, refused', cache') /\ FreshFile(source, refused', tmp')
             /\ \A q \in Shells : FreshShell(source, refused', shell'[q])
             /\ SameInTmp'
  <2>1. /\ FreshFile(source, refused, cache') /\ FreshFile(source, refused, tmp')
        /\ cache' \in CacheFile /\ tmp' \in CacheFile
    BY <1>2, <1>5 DEF CacheInv, CacheTypes
  <2>2. FreshFile(source, refused', cache') /\ FreshFile(source, refused', tmp')
    BY <1>1, <2>1, FreshGrows
  <2>3. ASSUME NEW q \in Shells
        PROVE  FreshShell(source, refused', shell'[q])
    <3>1. q # p => FreshShell(source, refused', shell[q])
      <4>1. FreshShell(source, refused, shell[q]) /\ shell[q] \in ShellState
        BY <1>5 DEF CacheInv, CacheTypes
      <4> QED BY <1>1, <4>1, FreshGrows
    <3> QED BY <1>1, <1>5, <3>1
  <2>4. \A q \in Shells : Writing(shell'[q]) => Writing(shell[q]) /\ q # p /\ shell'[q] = shell[q]
    BY <1>1
  <2>5. (\E q \in Shells : Writing(shell'[q])) => tmp' = tmp
    BY <2>4 DEF Writers, Writing
  <2>6. SameInTmp BY <1>5 DEF CacheInv
  <2>7. SameInTmp' BY <2>4, <2>5, <2>6 DEF SameInTmp
  <2> QED BY <2>2, <2>3, <2>7
<1> QED BY <1>3, <1>4, <1>5 DEF CacheInv

\* A shell that goes on without the temporary open holds what it held.
LEMMA ShellGoes ==
  ASSUME CacheInv, NEW p \in Shells,
         NEW l, l \in {"rename", "done"}, Goto(p, l), Holding(shell[p]),
         UNCHANGED <<source, mixed, refused>>,
         cache' = cache \/ cache' = tmp,
         tmp' = tmp \/ (tmp' = NoFile /\ Writers = {})
  PROVE  CacheInv'
<1> DEFINE t == [shell[p] EXCEPT !.pc = l]
<1>1. shell[p] \in ShellState /\ ReadSoFar(source, shell[p])
  BY DEF CacheInv, CacheTypes
<1>2. t \in ShellState /\ t.pc = l /\ t.key = shell[p].key /\ t.data = shell[p].data
  BY <1>1 DEF ShellState
<1>3. shell' = [shell EXCEPT ![p] = t] BY DEF Goto
<1> HIDE DEF t
<1>4. ~Writing(t) /\ ReadSoFar(source, t)
  BY <1>1, <1>2 DEF Writing, ReadSoFar
<1>5. ~mixed => FreshShell(source, refused, t)
  <2>1. ~mixed => FreshShell(source, refused, shell[p]) BY DEF CacheInv
  <2> QED BY <1>2, <2>1 DEF FreshShell, Holding
<1> QED BY <1>2, <1>3, <1>4, <1>5, ShellBecomes

\* A shell that has the temporary open goes on, after it wrote what it holds.
LEMMA ShellWrites ==
  ASSUME CacheInv, NEW p \in Shells, Writing(shell[p]), NEW l \in {"rest", "close"}, Goto(p, l),
         UNCHANGED <<source, cache, mixed, refused>>, tmp' \in CacheFile,
         \/ tmp' = [tmp EXCEPT !.key = shell[p].key, !.first = shell[p].data.first]
         \/ tmp' = [tmp EXCEPT !.rest = shell[p].data.rest]
  PROVE  CacheInv'
<1>1. /\ shell \in [Shells -> ShellState] /\ shell[p] \in ShellState /\ tmp \in CacheFile
      /\ ReadSoFar(source, shell[p]) /\ source \in Nat
  BY DEF CacheInv, CacheTypes
<1>2. /\ shell'[p].pc = l /\ shell'[p].key = shell[p].key /\ shell'[p].data = shell[p].data
      /\ \A q \in Shells : q # p => shell'[q] = shell[q]
      /\ shell' \in [Shells -> ShellState]
  <2>1. [shell[p] EXCEPT !.pc = l] \in ShellState BY <1>1 DEF ShellState
  <2> QED BY <1>1, <2>1 DEF Goto, ShellState
<1>3. CacheTypes' /\ \A q \in Shells : ReadSoFar(source', shell'[q])
  BY <1>2 DEF CacheInv, CacheTypes, ReadSoFar
<1>4. ASSUME ~mixed
      PROVE  /\ FreshFile(source, refused, tmp')
             /\ \A q \in Shells : FreshShell(source, refused, shell'[q])
             /\ SameInTmp'
  <2>1. SameInTmp /\ \A q \in Shells : FreshShell(source, refused, shell[q])
    BY <1>4 DEF CacheInv
  <2> DEFINE k == shell[p].key
             a == shell[p].data.first
             b == shell[p].data.rest
  <2>2. UpToDate(source, refused, k, a, b) /\ k \in Nat /\ a \in Nat /\ b \in Nat /\ k <= source
    BY <1>1, <2>1 DEF FreshShell, Writing, Holding, ShellState, ReadSoFar
  <2>3. /\ tmp.first = Unwritten \/ (tmp.first = a /\ tmp.key = k)
        /\ tmp.rest \in {Unwritten, b}
    BY <2>1 DEF SameInTmp
  <2>4. /\ tmp'.first = Unwritten \/ (tmp'.first = a /\ tmp'.key = k)
        /\ tmp'.rest \in {Unwritten, b}
    BY <1>1, <2>3 DEF CacheFile
  <2>5. FreshFile(source, refused, tmp')
    BY <1>1, <2>2, <2>4 DEF FreshFile, UpToDate
  <2>6. \A q \in Shells : FreshShell(source, refused, shell'[q])
    BY <1>2, <2>1 DEF FreshShell, Holding, Writing
  <2>7. \A q \in Shells : Writing(shell'[q]) => Writing(shell[q])
    BY <1>2 DEF Writing
  <2>8. \A q \in Shells : shell'[q].data = shell[q].data /\ shell'[q].key = shell[q].key
    BY <1>2
  <2>9. SameInTmp'
    <3>1. ASSUME NEW q \in Shells, NEW r \in Shells, Writing(shell'[q]), Writing(shell'[r])
          PROVE  shell'[q].data = shell'[r].data /\ shell'[q].key = shell'[r].key
      BY <2>1, <2>7, <2>8, <3>1 DEF SameInTmp
    <3>2. ASSUME NEW q \in Shells, Writing(shell'[q])
          PROVE  /\ \/ tmp'.first = Unwritten
                    \/ tmp'.first = shell'[q].data.first /\ tmp'.key = shell'[q].key
                 /\ tmp'.rest \in {Unwritten, shell'[q].data.rest}
      <4>1. shell[q].data = shell[p].data /\ shell[q].key = shell[p].key
        BY <2>1, <2>7, <3>2 DEF SameInTmp
      <4> QED BY <2>4, <2>8, <4>1
    <3> QED BY <3>1, <3>2 DEF SameInTmp
  <2> QED BY <2>5, <2>6, <2>9
<1> QED BY <1>3, <1>4 DEF CacheInv

LEMMA OpenTmpKeeps ==
  ASSUME CacheInv, NEW p \in Shells, OpenTmp(p)
  PROVE  CacheInv'
<1>1. /\ shell \in [Shells -> ShellState] /\ shell[p] \in ShellState /\ shell[p].pc = "open"
      /\ source' = source /\ cache' = cache /\ refused' = refused
      /\ tmp' = [key |-> 0, first |-> Unwritten, rest |-> Unwritten, exists |-> TRUE]
  BY DEF CacheInv, CacheTypes, OpenTmp, Truncated, NoFile
<1>2. /\ shell'[p].pc = "header" /\ shell'[p].key = shell[p].key
      /\ shell'[p].data = shell[p].data
      /\ \A q \in Shells : q # p => shell'[q] = shell[q]
      /\ shell' \in [Shells -> ShellState]
  <2>1. [shell[p] EXCEPT !.pc = "header"] \in ShellState
    BY <1>1 DEF ShellState
  <2> QED BY <1>1, <2>1 DEF OpenTmp, Goto, ShellState
<1>3. /\ mixed' \in BOOLEAN
      /\ ~mixed' => /\ ~mixed
                    /\ \A q \in Shells : Writing(shell[q]) =>
                         shell[q].data = shell[p].data /\ shell[q].key = shell[p].key
  BY DEF OpenTmp, Writers, Writing, CacheInv, CacheTypes
<1>4. CacheTypes' /\ \A q \in Shells : ReadSoFar(source', shell'[q])
  BY <1>1, <1>2, <1>3 DEF CacheInv, CacheTypes, CacheFile, ReadSoFar
<1>5. ASSUME ~mixed'
      PROVE  /\ FreshFile(source, refused, cache') /\ FreshFile(source, refused, tmp')
             /\ \A q \in Shells : FreshShell(source, refused, shell'[q])
             /\ SameInTmp'
  <2>1. /\ FreshFile(source, refused, cache) /\ SameInTmp
        /\ \A q \in Shells : FreshShell(source, refused, shell[q])
    BY <1>3, <1>5 DEF CacheInv
  <2>2. FreshFile(source, refused, cache') /\ FreshFile(source, refused, tmp')
    BY <1>1, <2>1 DEF FreshFile
  <2>3. \A q \in Shells : FreshShell(source, refused, shell'[q])
    BY <1>1, <1>2, <2>1 DEF FreshShell, Holding
  <2>4. SameInTmp'
    BY <1>1, <1>2, <1>3, <1>5, <2>1 DEF SameInTmp, Writing
  <2> QED BY <2>2, <2>3, <2>4
<1> QED BY <1>1, <1>4, <1>5 DEF CacheInv

\* The steps before the temporary is opened, and a shell that starts anew.
LEMMA ReadingKeeps ==
  ASSUME CacheInv, NEW p \in Shells,
         Look(p) \/ LoadCache(p) \/ Parse(p) \/ ParseRest(p)
         \/ Restart(p) \/ KillShell(p)
  PROVE  CacheInv'
<1>1. /\ shell[p] \in ShellState /\ shell[p].key \in Nat /\ ReadSoFar(source, shell[p])
      /\ shell[p].data \in [first : Nat, rest : Nat]
      /\ source \in Nat \ {0} /\ cache \in CacheFile
  BY DEF CacheInv, CacheTypes, ShellState
<1>2. UNCHANGED <<source, cache, tmp, mixed>> /\ refused \subseteq refused'
  BY DEF Look, LoadCache, Parse, ParseRest, Restart, KillShell
<1> DEFINE To(t) == /\ t \in ShellState /\ ~Writing(t) /\ ReadSoFar(source, t)
                    /\ ~mixed => FreshShell(source, refused', t)
                    /\ shell' = [shell EXCEPT ![p] = t]
<1>3. \A t : To(t) => CacheInv' BY <1>2, ShellBecomes
<1>4. CASE Look(p)
  <2>1. shell[p].pc = "start" /\ shell[p].data.first = 0 /\ shell[p].data.rest = 0
    BY <1>1, <1>4 DEF Look, ReadSoFar
  <2>2. CASE shell' = [shell EXCEPT ![p].pc = "load", ![p].key = source]
    <3> DEFINE t == [shell[p] EXCEPT !.pc = "load", !.key = source]
    <3>1. t \in ShellState /\ t.pc = "load" /\ t.key = source /\ t.data = shell[p].data
      BY <1>1 DEF ShellState
    <3>2. shell' = [shell EXCEPT ![p] = t] BY <2>2
    <3> HIDE DEF t
    <3>3. To(t)
      BY <1>1, <2>1, <3>1, <3>2 DEF Writing, ReadSoFar, FreshShell, Holding
    <3> HIDE DEF To
    <3> QED BY <1>3, <3>3
  <2>3. CASE Goto(p, "done")
    <3>1. To([shell[p] EXCEPT !.pc = "done"])
      BY <1>1, <2>1, <2>3 DEF Goto, ShellState, Writing, ReadSoFar, FreshShell, Holding, UpToDate
    <3> HIDE DEF To
    <3> QED BY <1>3, <3>1
  <2> QED BY <1>4, <2>2, <2>3 DEF Look
<1>5. CASE LoadCache(p)
  <2>1. shell[p].pc = "load" /\ refused' = refused BY <1>5 DEF LoadCache
  <2>2. CASE Usable(shell[p].key)
    <3> DEFINE d == [first |-> cache.first, rest |-> cache.rest]
    <3>1. d \in [first : Nat, rest : Nat] /\ d.first = cache.first /\ d.rest = cache.rest
      BY <1>1, <2>2 DEF CacheFile, Usable
    <3>2. ~mixed => UpToDate(source, refused', shell[p].key, d.first, d.rest)
      BY <2>1, <2>2, <3>1 DEF CacheInv, FreshFile, Usable
    <3>3. shell' = [shell EXCEPT ![p] = [shell[p] EXCEPT !.pc = "done", !.data = d]]
      BY <1>5, <2>2 DEF LoadCache
    <3> HIDE DEF d
    <3> DEFINE t == [shell[p] EXCEPT !.pc = "done", !.data = d]
    <3>4. t \in ShellState /\ t.pc = "done" /\ t.key = shell[p].key /\ t.data = d
      BY <1>1, <3>1 DEF ShellState
    <3>5. shell' = [shell EXCEPT ![p] = t] BY <3>3
    <3> HIDE DEF t
    <3>6. To(t)
      BY <1>1, <3>1, <3>2, <3>4, <3>5 DEF Writing, ReadSoFar, FreshShell, Holding
    <3> HIDE DEF To
    <3> QED BY <1>3, <3>6
  <2>3. CASE ~Usable(shell[p].key)
    <3>1. shell' = [shell EXCEPT ![p] = [shell[p] EXCEPT !.pc = "parse"]]
      BY <1>5, <2>3 DEF LoadCache
    <3>2. To([shell[p] EXCEPT !.pc = "parse"])
      BY <1>1, <2>1, <3>1 DEF ShellState, Writing, ReadSoFar, FreshShell, Holding
    <3> HIDE DEF To
    <3> QED BY <1>3, <3>2
  <2> QED BY <2>2, <2>3
<1>6. CASE Parse(p)
  <2>1. shell[p].pc = "parse" /\ shell[p].data.first = 0 /\ shell[p].data.rest = 0
    BY <1>1, <1>6 DEF Parse, ReadSoFar
  <2>2. CASE shell' = [shell EXCEPT ![p].pc = "parsing", ![p].data.first = source]
    <3> DEFINE d == [shell[p].data EXCEPT !.first = source]
    <3>1. d \in [first : Nat, rest : Nat] /\ d.first = source /\ d.rest = 0
      BY <1>1, <2>1
    <3>2. shell' = [shell EXCEPT ![p] = [shell[p] EXCEPT !.pc = "parsing", !.data = d]]
      BY <2>2
    <3> HIDE DEF d
    <3> DEFINE t == [shell[p] EXCEPT !.pc = "parsing", !.data = d]
    <3>3. t \in ShellState /\ t.pc = "parsing" /\ t.key = shell[p].key /\ t.data = d
      BY <1>1, <3>1 DEF ShellState
    <3>4. shell' = [shell EXCEPT ![p] = t] BY <3>2
    <3> HIDE DEF t
    <3>5. To(t)
      BY <1>1, <3>1, <3>3, <3>4 DEF Writing, ReadSoFar, FreshShell, Holding
    <3> HIDE DEF To
    <3> QED BY <1>3, <3>5
  <2>3. CASE Goto(p, "open") /\ refused' = refused \cup {shell[p].key}
    <3>1. To([shell[p] EXCEPT !.pc = "open"])
      BY <1>1, <2>1, <2>3 DEF Goto, ShellState, Writing, ReadSoFar, FreshShell, Holding, UpToDate
    <3> HIDE DEF To
    <3> QED BY <1>3, <3>1
  <2> QED BY <1>6, <2>2, <2>3 DEF Parse
<1>7. CASE ParseRest(p)
  <2>1. /\ shell[p].pc = "parsing" /\ shell[p].data.first \in shell[p].key..source
        /\ shell[p].data.rest = 0
    BY <1>1, <1>7 DEF ParseRest, ReadSoFar
  <2>2. CASE shell' = [shell EXCEPT ![p].pc = "open", ![p].data.rest = source]
    <3> DEFINE d == [shell[p].data EXCEPT !.rest = source]
    <3>1. d \in [first : Nat, rest : Nat] /\ d.first = shell[p].data.first /\ d.rest = source
      BY <1>1
    <3>2. shell' = [shell EXCEPT ![p] = [shell[p] EXCEPT !.pc = "open", !.data = d]]
      BY <2>2
    <3>3. UpToDate(source, refused', shell[p].key, d.first, d.rest)
      BY <1>1, <2>1, <3>1 DEF UpToDate, ReadSoFar
    <3> HIDE DEF d
    <3> DEFINE t == [shell[p] EXCEPT !.pc = "open", !.data = d]
    <3>4. t \in ShellState /\ t.pc = "open" /\ t.key = shell[p].key /\ t.data = d
      BY <1>1, <3>1 DEF ShellState
    <3>5. shell' = [shell EXCEPT ![p] = t] BY <3>2
    <3> HIDE DEF t
    <3>6. To(t)
      BY <1>1, <3>1, <3>3, <3>4, <3>5 DEF Writing, ReadSoFar, FreshShell, Holding
    <3> HIDE DEF To
    <3> QED BY <1>3, <3>6
  <2>3. CASE Goto(p, "open") /\ refused' = refused \cup {shell[p].key}
    <3>1. To([shell[p] EXCEPT !.pc = "open"])
      BY <1>1, <2>1, <2>3 DEF Goto, ShellState, Writing, ReadSoFar, FreshShell, Holding, UpToDate
    <3> HIDE DEF To
    <3> QED BY <1>3, <3>1
  <2> QED BY <1>7, <2>2, <2>3 DEF ParseRest
<1>8. CASE Restart(p) \/ KillShell(p)
  <2>1. shell' = [shell EXCEPT ![p] = [pc |-> "start", key |-> 0,
                                       data |-> [first |-> 0, rest |-> 0]]]
    BY <1>8 DEF Restart, KillShell, NewShell, Whole
  <2>2. To([pc |-> "start", key |-> 0, data |-> [first |-> 0, rest |-> 0]])
    BY <1>1, <2>1 DEF ShellState, Writing, ReadSoFar, FreshShell, Holding
  <2> HIDE DEF To
  <2> QED BY <1>3, <2>2
<1> QED BY <1>4, <1>5, <1>6, <1>7, <1>8

\* The steps that write the cache.
LEMMA WritingKeeps ==
  ASSUME CacheInv, NEW p \in Shells,
         \/ OpenTmpFails(p) \/ WriteHeader(p) \/ WriteRest(p) \/ WriteFails(p) \/ CloseTmp(p)
         \/ Rename(p)
  PROVE  CacheInv'
<1>1. shell[p] \in ShellState /\ tmp \in CacheFile
  BY DEF CacheInv, CacheTypes
<1>2. CASE WriteHeader(p)
  <2>1. /\ Writing(shell[p]) /\ Goto(p, "rest") /\ UNCHANGED <<source, cache, mixed, refused>>
        /\ tmp' = [tmp EXCEPT !.key = shell[p].key, !.first = shell[p].data.first]
    BY <1>2 DEF WriteHeader, Writing
  <2>2. tmp' \in CacheFile BY <1>1, <2>1 DEF CacheFile, ShellState
  <2> QED BY <2>1, <2>2, ShellWrites
<1>3. CASE WriteRest(p)
  <2>1. /\ Writing(shell[p]) /\ Goto(p, "close") /\ UNCHANGED <<source, cache, mixed, refused>>
        /\ tmp' = [tmp EXCEPT !.rest = shell[p].data.rest]
    BY <1>3 DEF WriteRest, Writing
  <2>2. tmp' \in CacheFile BY <1>1, <2>1 DEF CacheFile, ShellState
  <2> QED BY <2>1, <2>2, ShellWrites
<1>4. CASE Rename(p)
  <2>1. Holding(shell[p]) /\ Goto(p, "done") /\ UNCHANGED <<source, mixed, refused>>
    BY <1>4 DEF Rename, Holding
  <2>2. cache' = cache \/ cache' = tmp BY <1>4 DEF Rename
  <2>3. tmp' = tmp \/ (tmp' = NoFile /\ Writers = {}) BY <1>4 DEF Rename
  <2> QED BY <2>1, <2>2, <2>3, ShellGoes
<1>5. CASE OpenTmpFails(p) \/ WriteFails(p) \/ CloseTmp(p)
  <2>1. PICK l \in {"rename", "done"} : Goto(p, l)
    BY <1>5 DEF OpenTmpFails, WriteFails, CloseTmp
  <2>2. Holding(shell[p]) /\ UNCHANGED <<source, cache, tmp, mixed, refused>>
    BY <1>5 DEF OpenTmpFails, WriteFails, CloseTmp, Holding
  <2> QED BY <2>1, <2>2, ShellGoes
<1> QED BY <1>2, <1>3, <1>4, <1>5

LEMMA CacheKeeps ==
  ASSUME CacheInv, [CacheNext]_cacheVars
  PROVE  CacheInv'
<1>1. CASE EditSource
  <2>1. source' = source + 1 /\ UNCHANGED <<cache, tmp, shell, mixed, refused>>
    BY <1>1 DEF EditSource
  <2>2. CacheTypes' /\ source \in Nat /\ source' \in Nat /\ source <= source'
    BY <2>1 DEF CacheInv, CacheTypes
  <2>3. /\ FreshFile(source, refused, cache) => FreshFile(source', refused, cache)
        /\ FreshFile(source, refused, tmp) => FreshFile(source', refused, tmp)
        /\ \A p \in Shells : FreshShell(source, refused, shell[p]) =>
             FreshShell(source', refused, shell[p])
        /\ \A p \in Shells : ReadSoFar(source, shell[p]) => ReadSoFar(source', shell[p])
    BY <2>2, FreshGrows DEF CacheInv, CacheTypes
  <2>4. SameInTmp => SameInTmp' BY <2>1 DEF SameInTmp
  <2> QED BY <2>1, <2>2, <2>3, <2>4 DEF CacheInv
<1>2. CASE UNCHANGED cacheVars
  BY <1>2 DEF cacheVars, CacheInv, CacheTypes, SameInTmp
<1> QED BY <1>1, <1>2, ReadingKeeps, WritingKeeps, OpenTmpKeeps DEF CacheNext

LEMMA CacheIsCurrent == CacheInv => CompletionsCurrent
<1> SUFFICES ASSUME CacheInv, ~mixed, NEW p \in Shells, shell[p].pc = "done"
             PROVE  Current(shell[p].key, shell[p].data)
  BY DEF CompletionsCurrent
<1>1. UpToDate(source, refused, shell[p].key, shell[p].data.first, shell[p].data.rest)
  BY DEF CacheInv, FreshShell, Holding
<1> QED BY <1>1 DEF UpToDate, Current

-----------------------------------------------------------------------------
(***************************************************************************)
(* The line editor: whole characters, and the cursor between two of them.  *)
(***************************************************************************)
IsText(s) == s \in Seq(Bytes) /\ WholeText(s)

\* Between two characters, or at an end.
Between(s, pos) == pos \in 0..Len(s) /\ (pos < Len(s) => s[pos + 1] # "cont")

\* The characters around a position between two.
LEMMA Around ==
  ASSUME NEW s, IsText(s), NEW pos, Between(s, pos)
  PROVE  /\ Len(s) \in Nat /\ DOMAIN s = 1..Len(s) /\ pos \in Nat /\ pos <= Len(s)
         /\ \A i \in 1..Len(s) : /\ s[i] = "lead" => i < Len(s) /\ s[i + 1] = "cont"
                                 /\ s[i] = "cont" => i > 1 /\ s[i - 1] = "lead"
<1>1. s \in Seq(Bytes) /\ Len(s) \in Nat /\ DOMAIN s = 1..Len(s)
  BY DEF IsText
<1> QED BY <1>1 DEF IsText, WholeText, Between

LEMMA PrevIsBetween ==
  ASSUME NEW s, IsText(s), NEW pos, Between(s, pos)
  PROVE  /\ Between(s, prevUtf8Pos(s, pos))
         /\ prevUtf8Pos(s, pos) <= pos
<1> DEFINE n == Len(s)
           Is(i) == /\ i = 0 \/ s[i + 1] # "cont"
                    /\ \A j \in (i + 1)..(pos - 1) : s[j + 1] = "cont"
<1>1. /\ n \in Nat /\ pos \in Nat /\ pos <= n
      /\ \A i \in 1..n : /\ s[i] = "lead" => i < n /\ s[i + 1] = "cont"
                         /\ s[i] = "cont" => i > 1 /\ s[i - 1] = "lead"
  BY Around
<1> HIDE DEF n
<1>2. CASE pos = 0 BY <1>2 DEF prevUtf8Pos
<1>3. CASE pos # 0
  <2>1. \E i \in 0..(pos - 1) : Is(i)
    <3>1. CASE s[pos] # "cont"
      <4>1. pos - 1 \in 0..(pos - 1) /\ (pos - 1) + 1 = pos /\ ((pos - 1) + 1)..(pos - 1) = {}
        BY <1>1, <1>3
      <4> QED BY <3>1, <4>1
    <3>2. CASE s[pos] = "cont"
      <4>1. pos > 1 /\ s[pos - 1] = "lead" BY <1>1, <1>3, <3>2
      <4>2. /\ pos - 2 \in 0..(pos - 1) /\ (pos - 2) + 1 = pos - 1
            /\ \A j \in ((pos - 2) + 1)..(pos - 1) : j + 1 = pos
        BY <1>1, <4>1
      <4> QED BY <3>2, <4>1, <4>2
    <3> QED BY <3>1, <3>2
  <2> DEFINE p == CHOOSE i \in 0..(pos - 1) : Is(i)
  <2>2. p \in 0..(pos - 1) /\ Is(p) BY <2>1
  <2>3. prevUtf8Pos(s, pos) = p BY <1>3 DEF prevUtf8Pos
  <2> HIDE DEF p
  <2>4. p = 0 \/ s[p + 1] # "cont" BY <2>2
  <2>5. p \in 0..n /\ p <= pos /\ (p < n => p + 1 \in 1..n)
    BY <1>1, <1>3, <2>2
  <2>6. p < n => s[p + 1] # "cont" BY <1>1, <2>4, <2>5
  <2> QED BY <2>3, <2>5, <2>6 DEF Between, n
<1> QED BY <1>2, <1>3

LEMMA NextIsBetween ==
  ASSUME NEW s, IsText(s), NEW pos, Between(s, pos)
  PROVE  Between(s, nextUtf8Pos(s, pos))
<1> DEFINE n == Len(s)
           Is(i) == /\ i = n \/ s[i + 1] # "cont"
                    /\ \A j \in (pos + 1)..(i - 1) : s[j + 1] = "cont"
<1>1. /\ n \in Nat /\ pos \in Nat /\ pos <= n
      /\ \A i \in 1..n : /\ s[i] = "lead" => i < n /\ s[i + 1] = "cont"
                         /\ s[i] = "cont" => i > 1 /\ s[i - 1] = "lead"
  BY Around
<1>3. CASE pos >= n
  <2>1. nextUtf8Pos(s, pos) = n BY <1>3 DEF nextUtf8Pos
  <2>2. n \in 0..n /\ ~(n < n) BY <1>1
  <2> QED BY <2>1, <2>2 DEF Between
<1>4. CASE ~(pos >= n)
  <2>1. nextUtf8Pos(s, pos) = CHOOSE i \in (pos + 1)..n : Is(i)
    BY <1>4 DEF nextUtf8Pos
  <2> HIDE DEF n
  <2>2. \E i \in (pos + 1)..n : Is(i)
    <3>1. CASE pos + 1 = n \/ s[(pos + 1) + 1] # "cont"
      <4>1. pos + 1 \in (pos + 1)..n /\ (pos + 1)..((pos + 1) - 1) = {}
        BY <1>1, <1>4
      <4> QED BY <3>1, <4>1
    <3>2. CASE ~(pos + 1 = n \/ s[(pos + 1) + 1] # "cont")
      <4>1. /\ pos + 2 \in (pos + 1)..n /\ \A j \in (pos + 1)..((pos + 2) - 1) : j = pos + 1
            /\ (pos + 1) + 1 = pos + 2 /\ (pos + 2) + 1 = pos + 3
        BY <1>1, <1>4, <3>2
      <4>2. s[pos + 2] = "cont" BY <3>2, <4>1
      <4>3. pos + 2 # n => pos + 3 \in 1..n /\ (pos + 3) - 1 = pos + 2
        BY <1>1, <4>1
      <4>4. pos + 2 = n \/ s[pos + 3] # "cont" BY <1>1, <4>2, <4>3
      <4>5. Is(pos + 2) BY <3>2, <4>1, <4>2, <4>4
      <4> QED BY <4>1, <4>5
    <3> QED BY <3>1, <3>2
  <2> DEFINE p == CHOOSE i \in (pos + 1)..n : Is(i)
  <2>3. p \in (pos + 1)..n /\ Is(p) BY <2>2
  <2>4. nextUtf8Pos(s, pos) = p BY <2>1
  <2> HIDE DEF p
  <2>5. p \in 0..n /\ (p < n => s[p + 1] # "cont") BY <1>1, <2>3
  <2> QED BY <2>4, <2>5 DEF Between, n
<1> QED BY <1>3, <1>4

\* Text before and after a position between characters.
LEMMA Cut ==
  ASSUME NEW s, IsText(s), NEW pos, Between(s, pos)
  PROVE  /\ IsText(SubSeq(s, 1, pos)) /\ Len(SubSeq(s, 1, pos)) = pos
         /\ IsText(SubSeq(s, pos + 1, Len(s)))
         /\ Len(SubSeq(s, pos + 1, Len(s))) = Len(s) - pos
<1> DEFINE n == Len(s)
           a == SubSeq(s, 1, pos)
           b == SubSeq(s, pos + 1, n)
<1>1. /\ n \in Nat /\ pos \in Nat /\ pos <= n /\ s \in Seq(Bytes)
      /\ \A i \in 1..n : /\ s[i] = "lead" => i < n /\ s[i + 1] = "cont"
                         /\ s[i] = "cont" => i > 1 /\ s[i - 1] = "lead"
  BY Around DEF IsText
<1>2. pos < n => s[pos + 1] # "cont" BY DEF Between
<1>3. a \in Seq(Bytes) /\ Len(a) = pos /\ DOMAIN a = 1..pos /\ \A i \in 1..pos : a[i] = s[i]
  BY <1>1
<1>4. /\ b \in Seq(Bytes) /\ Len(b) = n - pos /\ DOMAIN b = 1..n - pos
      /\ \A i \in 1..n - pos : b[i] = s[pos + i]
  BY <1>1
<1> HIDE DEF a, b, n
<1>5. WholeText(a)
  <2> SUFFICES ASSUME NEW i \in 1..pos
               PROVE  /\ a[i] = "lead" => i < pos /\ a[i + 1] = "cont"
                      /\ a[i] = "cont" => i > 1 /\ a[i - 1] = "lead"
    BY <1>3 DEF WholeText
  <2>1. i \in 1..n /\ (i < pos => i + 1 \in 1..pos) /\ (i > 1 => i - 1 \in 1..pos)
    BY <1>1
  <2>2. CASE a[i] = "lead"
    <3>1. i < n /\ s[i + 1] = "cont" BY <1>1, <1>3, <2>1, <2>2
    <3>2. i < pos BY <1>1, <1>2, <3>1
    <3> QED BY <1>3, <2>1, <2>2, <3>1, <3>2
  <2>3. CASE a[i] = "cont" BY <1>1, <1>3, <2>1, <2>3
  <2> QED BY <2>2, <2>3
<1>6. WholeText(b)
  <2> SUFFICES ASSUME NEW i \in 1..n - pos
               PROVE  /\ b[i] = "lead" => i < n - pos /\ b[i + 1] = "cont"
                      /\ b[i] = "cont" => i > 1 /\ b[i - 1] = "lead"
    BY <1>4 DEF WholeText
  <2>1. /\ pos + i \in 1..n /\ (i < n - pos <=> pos + i < n)
        /\ i < n - pos => i + 1 \in 1..n - pos /\ pos + (i + 1) = (pos + i) + 1
        /\ i > 1 => i - 1 \in 1..n - pos /\ pos + (i - 1) = (pos + i) - 1
    BY <1>1
  <2>2. CASE b[i] = "lead"
    <3>1. pos + i < n /\ s[(pos + i) + 1] = "cont"
      BY <1>1, <1>4, <2>1, <2>2
    <3> QED BY <1>4, <2>1, <2>2, <3>1
  <2>3. CASE b[i] = "cont"
    <3>1. s[pos + i] = "cont" /\ s[(pos + i) - 1] = "lead"
      BY <1>1, <1>4, <2>1, <2>3
    <3>2. i > 1
      <4>1. i = 1 => pos < n /\ s[pos + 1] = "cont" BY <1>1, <3>1
      <4> QED BY <1>2, <4>1
    <3> QED BY <1>4, <2>1, <2>3, <3>1, <3>2
  <2> QED BY <2>2, <2>3
<1> QED BY <1>3, <1>4, <1>5, <1>6 DEF IsText, a, b, n

\* Two texts, one after the other.
LEMMA Paste ==
  ASSUME NEW a, IsText(a), NEW b, IsText(b)
  PROVE  IsText(a \o b) /\ Len(a \o b) = Len(a) + Len(b) /\ Between(a \o b, Len(a))
<1> DEFINE c == a \o b
           n == Len(a)
           m == Len(b)
<1>1. /\ a \in Seq(Bytes) /\ b \in Seq(Bytes) /\ n \in Nat /\ m \in Nat
      /\ DOMAIN a = 1..n /\ DOMAIN b = 1..m
  BY DEF IsText
<1>2. /\ \A i \in 1..n : /\ a[i] = "lead" => i < n /\ a[i + 1] = "cont"
                         /\ a[i] = "cont" => i > 1 /\ a[i - 1] = "lead"
      /\ \A i \in 1..m : /\ b[i] = "lead" => i < m /\ b[i + 1] = "cont"
                         /\ b[i] = "cont" => i > 1 /\ b[i - 1] = "lead"
  BY <1>1 DEF IsText, WholeText
<1>3. /\ c \in Seq(Bytes) /\ Len(c) = n + m /\ DOMAIN c = 1..n + m
      /\ \A i \in 1..n : c[i] = a[i]
      /\ \A i \in 1..m : c[n + i] = b[i]
  BY <1>1
<1> HIDE DEF c, n, m
<1>4. \A i \in 1..n + m : i \in 1..n \/ \E j \in 1..m : i = n + j
  <2> TAKE i \in 1..n + m
  <2>1. i \in 1..n \/ (i - n \in 1..m /\ i = n + (i - n)) BY <1>1
  <2> QED BY <2>1
<1>5. WholeText(c)
  <2> SUFFICES ASSUME NEW i \in 1..n + m
               PROVE  /\ c[i] = "lead" => i < n + m /\ c[i + 1] = "cont"
                      /\ c[i] = "cont" => i > 1 /\ c[i - 1] = "lead"
    BY <1>3 DEF WholeText
  <2>1. CASE i \in 1..n
    <3>1. /\ i < n => i < n + m /\ i + 1 \in 1..n
          /\ i > 1 => i - 1 \in 1..n
      BY <1>1, <2>1
    <3> QED BY <1>2, <1>3, <2>1, <3>1
  <2>2. CASE \E j \in 1..m : i = n + j
    <3>1. PICK j \in 1..m : i = n + j BY <2>2
    <3>2. /\ j < m => i < n + m /\ j + 1 \in 1..m /\ i + 1 = n + (j + 1)
          /\ j > 1 => i > 1 /\ j - 1 \in 1..m /\ i - 1 = n + (j - 1)
      BY <1>1, <3>1
    <3>3. c[i] = b[j] BY <1>3, <3>1
    <3> QED BY <1>2, <1>3, <3>2, <3>3
  <2> QED BY <1>4, <2>1, <2>2
<1>6. Between(c, n)
  <2>1. n \in 0..n + m BY <1>1
  <2>2. n < n + m => 1 \in 1..m BY <1>1
  <2>3. n < n + m => c[n + 1] # "cont" BY <1>2, <1>3, <2>2
  <2> QED BY <1>3, <2>1, <2>3 DEF Between
<1> QED BY <1>3, <1>5, <1>6 DEF IsText, c, n, m

LEMMA SpliceIsText ==
  ASSUME NEW s, IsText(s), NEW from, Between(s, from), NEW to, Between(s, to),
         NEW t, IsText(t)
  PROVE  /\ IsText(Splice(s, from, to, t))
         /\ Between(Splice(s, from, to, t), from + Len(t))
<1> DEFINE a == SubSeq(s, 1, from)
           b == SubSeq(s, to + 1, Len(s))
<1>1. IsText(a) /\ Len(a) = from /\ IsText(b) BY Cut
<1> HIDE DEF a, b
<1>2. IsText(a \o t) /\ Len(a \o t) = from + Len(t) BY <1>1, Paste
<1>3. IsText((a \o t) \o b) /\ Between((a \o t) \o b, from + Len(t))
  BY <1>1, <1>2, Paste
<1>4. Splice(s, from, to, t) = (a \o t) \o b BY DEF Splice, a, b
<1> QED BY <1>3, <1>4

LineInv ==
  /\ line \in [buffer : Seq(Bytes), cursor : Nat]
  /\ history \in Seq(Seq(Bytes))
  /\ browse \in [on : BOOLEAN, at : Nat, draft : Seq(Bytes)]
  /\ typed \in Seq(Bytes)
  /\ WholeText(line.buffer) /\ WholeText(browse.draft) /\ WholeText(typed)
  /\ \A i \in DOMAIN history : WholeText(history[i])
  /\ Between(line.buffer, line.cursor)
  /\ DraftKept

LEMMA LineStaysIntact == LineInv => LineIntact
  BY DEF LineInv, LineIntact, WholeCharacters, Between

\* The empty line, and the line after a text was taken over.
LEMMA EmptyText == IsText(<<>>) /\ Between(<<>>, 0)
  BY DEF IsText, WholeText, Between

LEMMA AtItsEnd ==
  ASSUME NEW s, IsText(s)
  PROVE  Between(s, Len(s)) /\ Len(s) \in Nat
  BY DEF IsText, Between

\* The state starts anew: an empty line, not browsing.
NewLineAsked ==
  /\ history \in Seq(Seq(Bytes)) /\ \A i \in DOMAIN history : WholeText(history[i])
  /\ line = NewLine /\ browse = NotBrowsing /\ typed = <<>>

LEMMA NewLineKeeps == NewLineAsked => LineInv
<1> SUFFICES ASSUME NewLineAsked PROVE LineInv OBVIOUS
<1>1. IsText(<<>>) /\ <<>> \in Seq(Bytes) BY EmptyText DEF IsText
<1>2. line \in [buffer : Seq(Bytes), cursor : Nat] /\ line.buffer = <<>> /\ line.cursor = 0
  BY <1>1 DEF NewLine, NewLineAsked
<1>3. /\ browse \in [on : BOOLEAN, at : Nat, draft : Seq(Bytes)]
      /\ browse.on = FALSE /\ browse.draft = <<>>
  BY <1>1 DEF NotBrowsing, NewLineAsked
<1> QED
  BY <1>1, <1>2, <1>3, EmptyText DEF LineInv, IsText, DraftKept, NewLineAsked

LEMMA NewLineKeepsNext == NewLineAsked' => LineInv'
  BY NewLineKeeps, PTL

\* The text changes under the cursor.
LEMMA EditedKeeps ==
  ASSUME LineInv, NEW s, IsText(s), NEW c \in Nat, Between(s, c), Edited(s, c)
  PROVE  LineInv'
<1>1. /\ line' = [buffer |-> s, cursor |-> c]
      /\ browse' = [browse EXCEPT !.on = FALSE]
      /\ typed' = s /\ history' = history
  BY DEF Edited
<1>2. s \in Seq(Bytes) /\ WholeText(s) BY DEF IsText
<1>3. line' \in [buffer : Seq(Bytes), cursor : Nat] /\ line'.buffer = s /\ line'.cursor = c
  BY <1>1, <1>2
<1>4. /\ browse' \in [on : BOOLEAN, at : Nat, draft : Seq(Bytes)]
      /\ ~browse'.on /\ browse'.draft = browse.draft
  BY <1>1 DEF LineInv
<1> QED BY <1>1, <1>2, <1>3, <1>4 DEF LineInv, DraftKept

\* The cursor moves.
LEMMA CursorKeeps ==
  ASSUME LineInv, NEW c \in Nat, Between(line.buffer, c),
         line' = [line EXCEPT !.cursor = c], UNCHANGED <<history, browse, typed>>
  PROVE  LineInv'
<1>1. /\ line' \in [buffer : Seq(Bytes), cursor : Nat]
      /\ line'.buffer = line.buffer /\ line'.cursor = c
  BY DEF LineInv
<1> QED BY <1>1 DEF LineInv, DraftKept

\* A line of the history, or the draft, is shown.
LEMMA ShownKeeps ==
  ASSUME LineInv, NEW s, IsText(s), Shown(s), UNCHANGED <<history, typed>>,
         browse' \in [on : BOOLEAN, at : Nat, draft : Seq(Bytes)],
         WholeText(browse'.draft),
         IF browse'.on
         THEN browse'.at < Len(history) /\ s = history[browse'.at + 1] /\ browse'.draft = typed
         ELSE s = typed
  PROVE  LineInv'
<1>1. s \in Seq(Bytes) /\ WholeText(s) /\ Len(s) \in Nat /\ Between(s, Len(s))
  BY AtItsEnd DEF IsText
<1>2. line' \in [buffer : Seq(Bytes), cursor : Nat] /\ line'.buffer = s /\ line'.cursor = Len(s)
  BY <1>1 DEF Shown
<1>3. DraftKept' BY <1>2 DEF DraftKept
<1> QED BY <1>1, <1>2, <1>3 DEF LineInv

LEMMA HistoryUpKeeps ==
  ASSUME LineInv, historyUp
  PROVE  LineInv'
<1> DEFINE b == IF browse.on THEN browse
                ELSE [on |-> TRUE, at |-> Len(history), draft |-> line.buffer]
           T == [on : BOOLEAN, at : Nat, draft : Seq(Bytes)]
<1>1. /\ history \in Seq(Seq(Bytes)) /\ Len(history) \in Nat /\ DOMAIN history = 1..Len(history)
      /\ history # <<>> /\ UNCHANGED <<history, typed>>
  BY DEF LineInv, historyUp
<1>2. /\ b \in T /\ b.on /\ b.at <= Len(history) /\ b.draft = typed /\ WholeText(b.draft)
      /\ b.at = 0 => b = browse
  <2>1. Len(history) > 0 BY <1>1, EmptySeq
  <2>2. CASE browse.on BY <1>1, <2>2 DEF LineInv, DraftKept
  <2>3. CASE ~browse.on
    <3>1. b = [on |-> TRUE, at |-> Len(history), draft |-> line.buffer]
      BY <2>3
    <3>2. line.buffer = typed /\ typed \in Seq(Bytes) /\ WholeText(typed)
      BY <2>3 DEF LineInv, DraftKept
    <3>3. /\ b.on = TRUE /\ b.at = Len(history) /\ b.draft = line.buffer
      BY <3>1
    <3>4. b \in T
      <4>1. \A n \in Nat, d \in Seq(Bytes) : [on |-> TRUE, at |-> n, draft |-> d] \in T
        OBVIOUS
      <4>2. Len(history) \in Nat /\ line.buffer \in Seq(Bytes)
        BY <1>1, <3>2
      <4> QED BY <3>1, <4>1, <4>2
    <3> HIDE DEF b
    <3>5. b.at <= Len(history) /\ b.at # 0 BY <1>1, <2>1, <3>3
    <3> QED BY <3>2, <3>3, <3>4, <3>5
  <2> QED BY <2>2, <2>3
<1>3. IF b.at > 0
      THEN browse' = [b EXCEPT !.at = @ - 1] /\ Shown(history[b.at])
      ELSE browse' = b /\ UNCHANGED line
  BY DEF historyUp
<1> HIDE DEF b
<1>4. CASE b.at > 0
  <2>1. PICK k \in Nat : b.at = k + 1
    <3>1. b.at - 1 \in Nat /\ b.at = (b.at - 1) + 1 BY <1>2, <1>4
    <3> QED BY <3>1
  <2>2. browse' = [b EXCEPT !.at = k] /\ Shown(history[k + 1])
    BY <1>3, <1>4, <2>1
  <2>3. browse' \in T /\ browse'.on /\ browse'.at = k /\ browse'.draft = b.draft
    BY <1>2, <2>2
  <2>4. k < Len(history) /\ k + 1 \in DOMAIN history BY <1>1, <1>2, <2>1
  <2>5. IsText(history[k + 1])
    <3>1. PICK i \in DOMAIN history : i = k + 1 BY <2>4
    <3>2. history[i] \in Seq(Bytes) /\ WholeText(history[i])
      BY <1>1 DEF LineInv
    <3> QED BY <3>1, <3>2 DEF IsText
  <2> DEFINE s == history[k + 1]
  <2>6. IsText(s) /\ Shown(s) /\ s = history[browse'.at + 1]
    BY <2>2, <2>3, <2>5
  <2> HIDE DEF s
  <2> QED BY <1>1, <1>2, <2>3, <2>4, <2>6, ShownKeeps
<1>5. CASE ~(b.at > 0)
  <2>1. b = browse /\ browse' = browse /\ line' = line
    BY <1>2, <1>3, <1>5
  <2> QED BY <1>1, <2>1 DEF LineInv, DraftKept
<1> QED BY <1>4, <1>5

LEMMA HistoryDownKeeps ==
  ASSUME LineInv, historyDown
  PROVE  LineInv'
<1> DEFINE T == [on : BOOLEAN, at : Nat, draft : Seq(Bytes)]
<1>1. /\ history \in Seq(Seq(Bytes)) /\ Len(history) \in Nat /\ DOMAIN history = 1..Len(history)
      /\ browse \in T /\ browse.on /\ browse.draft = typed
      /\ typed \in Seq(Bytes) /\ WholeText(typed)
      /\ UNCHANGED <<history, typed>>
  BY DEF LineInv, DraftKept, historyDown
<1>2. CASE browse.at + 1 < Len(history)
  <2>1. PICK k \in Nat : k = browse.at + 1 BY <1>1
  <2>2. browse.at + 2 = k + 1 /\ k < Len(history) /\ k + 1 \in DOMAIN history
    BY <1>1, <1>2, <2>1
  <2>3. browse' = [browse EXCEPT !.at = k] /\ Shown(history[k + 1])
    BY <1>2, <2>1, <2>2 DEF historyDown
  <2>4. browse' \in T /\ browse'.on /\ browse'.at = k /\ browse'.draft = typed
    BY <1>1, <2>3
  <2>5. IsText(history[k + 1])
    <3>1. PICK i \in DOMAIN history : i = k + 1 BY <2>2
    <3>2. history[i] \in Seq(Bytes) /\ WholeText(history[i])
      BY <1>1 DEF LineInv
    <3> QED BY <3>1, <3>2 DEF IsText
  <2> DEFINE s == history[k + 1]
  <2>6. IsText(s) /\ Shown(s) /\ s = history[browse'.at + 1]
    BY <2>3, <2>4, <2>5
  <2> HIDE DEF s
  <2> QED BY <1>1, <2>2, <2>4, <2>6, ShownKeeps
<1>3. CASE ~(browse.at + 1 < Len(history))
  <2>1. browse' = [browse EXCEPT !.on = FALSE] /\ Shown(browse.draft)
    BY <1>3 DEF historyDown
  <2>2. browse' \in T /\ ~browse'.on /\ browse'.draft = typed
    BY <1>1, <2>1
  <2>3. IsText(typed) /\ Shown(typed) BY <1>1, <2>1 DEF IsText
  <2> QED BY <1>1, <2>2, <2>3, ShownKeeps
<1> QED BY <1>2, <1>3

LEMMA EnterKeeps ==
  ASSUME LineInv, Enter
  PROVE  LineInv'
<1>1. line' = NewLine /\ browse' = NotBrowsing /\ typed' = <<>>
  BY DEF Enter
<1>2. history' = history \/ history' = Append(history, line.buffer)
  BY DEF Enter
<1>3. /\ history \in Seq(Seq(Bytes)) /\ \A i \in DOMAIN history : WholeText(history[i])
      /\ line.buffer \in Seq(Bytes) /\ WholeText(line.buffer)
  BY DEF LineInv
<1>4. history' \in Seq(Seq(Bytes)) /\ \A i \in DOMAIN history' : WholeText(history'[i])
  <2>1. CASE history' = history BY <1>3, <2>1
  <2>2. CASE history' = Append(history, line.buffer)
    <3>1. /\ history' \in Seq(Seq(Bytes))
          /\ DOMAIN history' = 1..Len(history) + 1
          /\ \A i \in 1..Len(history) : history'[i] = history[i]
          /\ history'[Len(history) + 1] = line.buffer
      BY <1>3, <2>2, AppendFacts
    <3>2. /\ DOMAIN history = 1..Len(history)
          /\ \A i \in 1..Len(history) + 1 : i \in 1..Len(history) \/ i = Len(history) + 1
      BY <1>3
    <3> QED BY <1>3, <3>1, <3>2
  <2> QED BY <1>2, <2>1, <2>2
<1> QED BY <1>1, <1>4, NewLineKeepsNext DEF NewLineAsked

LEMMA LineBegins == LineInit => LineInv
<1> SUFFICES ASSUME LineInit PROVE LineInv OBVIOUS
<1>1. history \in Seq(Seq(Bytes)) /\ DOMAIN history = {} BY DEF LineInit
<1> QED BY <1>1, NewLineKeeps DEF LineInit, NewLineAsked

LEMMA LineKeeps ==
  ASSUME LineInv, [LineNext]_lineVars
  PROVE  LineInv'
<1>1. IsText(line.buffer) /\ Between(line.buffer, line.cursor) /\ line.cursor \in Nat
  BY DEF LineInv, IsText
<1>2. ASSUME NEW t \in Chars \cup Clips, Insert(t)
      PROVE  LineInv'
  <2>1. IsText(t) /\ Len(t) \in Nat
    BY LineEditAssumption, AtItsEnd DEF IsText
  <2> DEFINE s == Splice(line.buffer, line.cursor, line.cursor, t)
             c == line.cursor + Len(t)
  <2>2. IsText(s) /\ Between(s, c) /\ c \in Nat
    BY <1>1, <2>1, SpliceIsText
  <2>3. Edited(s, c) BY <1>2 DEF Insert
  <2> HIDE DEF s, c
  <2> QED BY <2>2, <2>3, EditedKeeps
<1>3. CASE Backspace
  <2> DEFINE p == prevUtf8Pos(line.buffer, line.cursor)
             s == Splice(line.buffer, p, line.cursor, <<>>)
  <2>1. Between(line.buffer, p) /\ p \in Nat
    BY <1>1, PrevIsBetween, Around
  <2>2. Edited(s, p) BY <1>3 DEF Backspace
  <2> HIDE DEF p
  <2>3. Len(<<>>) = 0 /\ p + 0 = p BY <2>1
  <2>4. IsText(s) /\ Between(s, p + Len(<<>>))
    BY <1>1, <2>1, EmptyText, SpliceIsText
  <2>5. Between(s, p) BY <2>3, <2>4
  <2> HIDE DEF s
  <2> QED BY <2>1, <2>2, <2>4, <2>5, EditedKeeps
<1>4. CASE Left
  <2> DEFINE p == prevUtf8Pos(line.buffer, line.cursor)
  <2>1. Between(line.buffer, p) /\ p \in Nat
    BY <1>1, PrevIsBetween, Around
  <2>2. line' = [line EXCEPT !.cursor = p] /\ UNCHANGED <<history, browse, typed>>
    BY <1>4 DEF Left
  <2> HIDE DEF p
  <2> QED BY <2>1, <2>2, CursorKeeps
<1>5. CASE Right
  <2> DEFINE p == nextUtf8Pos(line.buffer, line.cursor)
  <2>1. Between(line.buffer, p) /\ p \in Nat
    BY <1>1, NextIsBetween, Around
  <2>2. line' = [line EXCEPT !.cursor = p] /\ UNCHANGED <<history, browse, typed>>
    BY <1>5 DEF Right
  <2> HIDE DEF p
  <2> QED BY <2>1, <2>2, CursorKeeps
<1>6. CASE Abort
  BY <1>6, NewLineKeepsNext DEF Abort, LineInv, NewLineAsked
<1>7. CASE UNCHANGED lineVars BY <1>7 DEF lineVars, LineInv, DraftKept
<1> QED
  BY <1>2, <1>3, <1>4, <1>5, <1>6, <1>7, HistoryUpKeeps, HistoryDownKeeps, EnterKeeps
     DEF LineNext

-----------------------------------------------------------------------------
(***************************************************************************)
(* wpm: what is said of a package is so.                                   *)
(***************************************************************************)
RenamedOnes == {p \in DOMAIN Packages : Renamed(p)}
Count(p) == Len(Files(p))

WpmState ==
  [pc : {"idle", "download", "receive", "copy", "copying", "remove", "save", "saving"},
   op : {"install", "uninstall"}, pkg : DOMAIN Packages, at : Nat \ {0},
   names : SUBSET RenamedOnes]

Fetching(r) == r.pc \in {"download", "receive", "copy", "copying"}
Saving(r) == r.pc \in {"save", "saving"}

\* A run is at a file of its package, and has the package among the names it
\* is about to write, or not, as it says.
InPlace(r) ==
  /\ Fetching(r) => r.op = "install" /\ r.at <= Count(r.pkg)
  /\ r.pc = "remove" => r.op = "uninstall" /\ r.at <= Count(r.pkg) + 1
  /\ Saving(r) => /\ r.op = "install" => r.pkg \in r.names
                  /\ r.op = "uninstall" => r.pkg \notin r.names

\* A package's files in bin, all of them or none.
Installed(p, b) ==
  \A i \in 1..Count(p) : (Renamed(p) => i = Count(p)) => b[Dest(p, i)] = Files(p)[i]
Removed(p, b) == \A i \in 1..Count(p) : b[Dest(p, i)] = Absent

\* What a run that nobody disturbed has done so far.
DoneSoFar(r, b, d) ==
  /\ r.pc \in {"copy", "copying"} => d[Files(r.pkg)[r.at]] = Files(r.pkg)[r.at]
  /\ Fetching(r) /\ ~Renamed(r.pkg) =>
       \A i \in 1..r.at - 1 :
         \/ b[Files(r.pkg)[i]] = Files(r.pkg)[i]
         \/ r.pc = "copying" /\ Files(r.pkg)[i] = Files(r.pkg)[r.at]
  /\ Saving(r) => /\ r.op = "install" => Installed(r.pkg, b)
                  /\ r.op = "uninstall" => Removed(r.pkg, b)
  /\ r.pc = "remove" => \A i \in 1..r.at - 1 : b[Dest(r.pkg, i)] = Absent

WpmTypes ==
  /\ DOMAIN bin = Names /\ DOMAIN downloads = Downloaded
  /\ aliases \in [whole : BOOLEAN, names : SUBSET RenamedOnes]
  /\ wpm \in [WpmRuns -> WpmState]
  /\ told \in [DOMAIN Packages -> {"unknown", "installed", "removed"}]
  /\ alone \in [WpmRuns -> BOOLEAN]
  /\ clean \in BOOLEAN

\* A run that is alone has its package for itself, and of a package that a run
\* is at work on nothing is told.
NoRivals ==
  /\ \A v, w \in Active : v # w /\ alone[w] => wpm[v].pkg # wpm[w].pkg
  /\ \A w \in Active : told[wpm[w].pkg] = "unknown"

ToldIsSo ==
  \A p \in DOMAIN Packages : /\ told[p] = "installed" => Installed(p, bin)
                             /\ told[p] = "removed" => Removed(p, bin)

\* A set of names agrees with what is told.
Agrees(ns) ==
  \A p \in DOMAIN Packages :
    told[p] # "unknown" => (p \in ns <=> Renamed(p) /\ told[p] = "installed")

AliasesAgree ==
  clean =>
    /\ \A v, w \in Active : v = w
    /\ (\A w \in Active : wpm[w].pc # "saving") => aliases.whole /\ Agrees(aliases.names)
    /\ \A w \in Active : /\ Agrees(wpm[w].names)
                         /\ ~Saving(wpm[w]) => wpm[w].names = aliases.names

WpmInv ==
  /\ WpmTypes /\ NoRivals /\ ToldIsSo /\ AliasesAgree
  /\ \A w \in Active : InPlace(wpm[w])
  /\ \A w \in Active : alone[w] => DoneSoFar(wpm[w], bin, downloads)

-----------------------------------------------------------------------------
LEMMA FilesOf ==
  ASSUME NEW p \in DOMAIN Packages
  PROVE  /\ Count(p) \in Nat \ {0} /\ DOMAIN Files(p) = 1..Count(p)
         /\ \A i \in 1..Count(p) : /\ Dest(p, i) \in Names /\ Files(p)[i] \in Downloaded
                                   /\ ~Renamed(p) => Dest(p, i) = Files(p)[i]
                                   /\ Renamed(p) => Dest(p, i) = Packages[p].rename_to
         /\ \A q \in DOMAIN Packages \ {p} : \A i \in 1..Count(p), j \in 1..Count(q) :
              Files(p)[i] # Files(q)[j] /\ Dest(p, i) # Dest(q, j)
<1>1. ASSUME NEW q \in DOMAIN Packages
      PROVE  Count(q) \in Nat \ {0} /\ DOMAIN Files(q) = 1..Count(q)
  <2> DEFINE s == Files(q)
             T == {Files(q)[i] : i \in DOMAIN Files(q)}
  <2>1. s # <<>> /\ s \in Seq(T) BY WpmAssumption
  <2> HIDE DEF s, T
  <2>2. Len(s) \in Nat \ {0} /\ DOMAIN s = 1..Len(s) BY <2>1, EmptySeq
  <2> QED BY <2>2 DEF Count, s
<1>2. ASSUME NEW i \in 1..Count(p)
      PROVE  /\ Files(p)[i] \in Downloaded
             /\ ~Renamed(p) => Dest(p, i) = Files(p)[i]
             /\ Renamed(p) => Dest(p, i) = Packages[p].rename_to
             /\ Dest(p, i) \in Names
  BY <1>1 DEF Downloaded, Names, Dest
<1>3. ASSUME NEW q \in DOMAIN Packages \ {p}, NEW i \in 1..Count(p), NEW j \in 1..Count(q)
      PROVE  Files(p)[i] # Files(q)[j] /\ Dest(p, i) # Dest(q, j)
  BY <1>1, WpmAssumption
<1> QED BY <1>1, <1>2, <1>3

\* The files of package p stay as they are.
Untouched(p, b, c, d, e) ==
  \A i \in 1..Count(p) : c[Dest(p, i)] = b[Dest(p, i)] /\ e[Files(p)[i]] = d[Files(p)[i]]

LEMMA UntouchedKeeps ==
  ASSUME NEW p \in DOMAIN Packages, NEW b, NEW c, NEW d, NEW e, Untouched(p, b, c, d, e)
  PROVE  /\ Installed(p, b) => Installed(p, c)
         /\ Removed(p, b) => Removed(p, c)
         /\ \A r \in WpmState : r.pkg = p /\ InPlace(r) /\ DoneSoFar(r, b, d) => DoneSoFar(r, c, e)
<1>1. Count(p) \in Nat \ {0} /\ \A i \in 1..Count(p) : ~Renamed(p) => Dest(p, i) = Files(p)[i]
  BY FilesOf
<1>2. \A i \in 1..Count(p) : c[Dest(p, i)] = b[Dest(p, i)] /\ e[Files(p)[i]] = d[Files(p)[i]]
  BY DEF Untouched
<1>3. Installed(p, b) => Installed(p, c) BY <1>2 DEF Installed
<1>4. Removed(p, b) => Removed(p, c) BY <1>2 DEF Removed
<1>5. ASSUME NEW r \in WpmState, r.pkg = p, InPlace(r), DoneSoFar(r, b, d)
      PROVE  DoneSoFar(r, c, e)
  <2>1. r.at \in Nat \ {0} BY DEF WpmState
  <2>2. r.pc \in {"copy", "copying"} => e[Files(p)[r.at]] = Files(p)[r.at]
    <3> SUFFICES ASSUME r.pc \in {"copy", "copying"} PROVE e[Files(p)[r.at]] = Files(p)[r.at]
      OBVIOUS
    <3>1. r.at \in 1..Count(p) BY <1>1, <1>5, <2>1 DEF InPlace, Fetching
    <3>2. d[Files(p)[r.at]] = Files(p)[r.at] BY <1>5 DEF DoneSoFar
    <3> QED BY <1>2, <3>1, <3>2
  <2>3. ASSUME Fetching(r), ~Renamed(p), NEW i \in 1..r.at - 1
        PROVE  \/ c[Files(p)[i]] = Files(p)[i]
               \/ r.pc = "copying" /\ Files(p)[i] = Files(p)[r.at]
    <3>1. i \in 1..Count(p) BY <1>1, <1>5, <2>1, <2>3 DEF InPlace
    <3>2. c[Files(p)[i]] = b[Files(p)[i]] BY <1>1, <1>2, <2>3, <3>1
    <3>3. \/ b[Files(p)[i]] = Files(p)[i]
          \/ r.pc = "copying" /\ Files(p)[i] = Files(p)[r.at]
      BY <1>5, <2>3 DEF DoneSoFar
    <3> QED BY <3>2, <3>3
  <2>4. ASSUME r.pc = "remove", NEW i \in 1..r.at - 1
        PROVE  c[Dest(p, i)] = Absent
    <3>1. i \in 1..Count(p) BY <1>1, <1>5, <2>1, <2>4 DEF InPlace
    <3>2. b[Dest(p, i)] = Absent BY <1>5, <2>4 DEF DoneSoFar
    <3> QED BY <1>2, <3>1, <3>2
  <2>5. Saving(r) => /\ r.op = "install" => Installed(p, c)
                     /\ r.op = "uninstall" => Removed(p, c)
    BY <1>3, <1>4, <1>5 DEF DoneSoFar
  <2> QED BY <1>5, <2>2, <2>3, <2>4, <2>5 DEF DoneSoFar
<1> QED BY <1>3, <1>4, <1>5

-----------------------------------------------------------------------------
\* A step of run w leaves the files of the packages it is not at work on.
Apart(w) ==
  \A p \in DOMAIN Packages \ {wpm[w].pkg} : Untouched(p, bin, bin', downloads, downloads')

\* Only run w moves.
Moves(w, r) ==
  /\ wpm' = [wpm EXCEPT ![w] = r]
  /\ \A v \in WpmRuns \ {w} : alone'[v] = alone[v]

LEMMA MovesOne ==
  ASSUME WpmTypes, NEW w \in Active, NEW r \in WpmState, Moves(w, r)
  PROVE  /\ w \in WpmRuns /\ wpm'[w] = r /\ wpm' \in [WpmRuns -> WpmState]
         /\ \A v \in WpmRuns \ {w} : wpm'[v] = wpm[v] /\ alone'[v] = alone[v]
         /\ \A v \in Active' : v = w \/ v \in Active
         /\ w \in Active' <=> r.pc # "idle"
<1>1. w \in WpmRuns /\ wpm \in [WpmRuns -> WpmState] /\ wpm' = [wpm EXCEPT ![w] = r]
  BY DEF WpmTypes, Active, Moves
<1>2. /\ wpm'[w] = r /\ wpm' \in [WpmRuns -> WpmState]
      /\ \A v \in WpmRuns \ {w} : wpm'[v] = wpm[v]
  BY <1>1
<1>3. \A v \in WpmRuns \ {w} : alone'[v] = alone[v] BY DEF Moves
<1>4. \A v \in Active' : v = w \/ v \in Active BY <1>2 DEF Active
<1>5. w \in Active' <=> r.pc # "idle" BY <1>1, <1>2 DEF Active
<1> QED BY <1>1, <1>2, <1>3, <1>4, <1>5

LEMMA OthersStay ==
  ASSUME WpmInv, NEW w \in Active, NEW r \in WpmState, Moves(w, r), Apart(w)
  PROVE  /\ \A v \in Active' \ {w} :
              InPlace(wpm'[v]) /\ (alone'[v] => DoneSoFar(wpm'[v], bin', downloads'))
         /\ \A p \in DOMAIN Packages \ {wpm[w].pkg} :
              /\ told[p] = "installed" => Installed(p, bin')
              /\ told[p] = "removed" => Removed(p, bin')
<1>1. WpmTypes BY DEF WpmInv
<1>2. ASSUME NEW v \in Active' \ {w}
      PROVE  InPlace(wpm'[v]) /\ (alone'[v] => DoneSoFar(wpm'[v], bin', downloads'))
  <2>1. v \in Active /\ v \in WpmRuns /\ wpm'[v] = wpm[v] /\ alone'[v] = alone[v]
    BY <1>1, MovesOne DEF Active
  <2>2. InPlace(wpm[v]) /\ (alone[v] => DoneSoFar(wpm[v], bin, downloads))
    BY <2>1 DEF WpmInv
  <2>3. wpm[v] \in WpmState /\ wpm[v].pkg \in DOMAIN Packages
    BY <1>1, <2>1 DEF WpmTypes, WpmState
  <2>4. ASSUME alone[v] PROVE DoneSoFar(wpm[v], bin', downloads')
    <3>1. wpm[v].pkg # wpm[w].pkg BY <2>1, <2>4 DEF WpmInv, NoRivals
    <3>2. Untouched(wpm[v].pkg, bin, bin', downloads, downloads')
      BY <2>3, <3>1 DEF Apart
    <3> QED BY <2>2, <2>3, <2>4, <3>2, UntouchedKeeps
  <2> QED BY <2>1, <2>2, <2>4
<1>3. ASSUME NEW p \in DOMAIN Packages \ {wpm[w].pkg}
      PROVE  /\ told[p] = "installed" => Installed(p, bin')
             /\ told[p] = "removed" => Removed(p, bin')
  <2>1. Untouched(p, bin, bin', downloads, downloads') BY DEF Apart
  <2>2. /\ told[p] = "installed" => Installed(p, bin)
        /\ told[p] = "removed" => Removed(p, bin)
    BY DEF WpmInv, ToldIsSo
  <2> QED BY <2>1, <2>2, UntouchedKeeps
<1> QED BY <1>2, <1>3

\* What writing one file of a run's package leaves alone.
LEMMA WriteApart ==
  ASSUME WpmTypes, NEW w \in Active, NEW x, wpm[w].at \in 1..Count(wpm[w].pkg),
         bin' \in {bin, [bin EXCEPT ![Place(w)] = x]},
         downloads' \in {downloads, [downloads EXCEPT ![Source(w)] = x]}
  PROVE  /\ Apart(w)
         /\ DOMAIN bin' = DOMAIN bin /\ DOMAIN downloads' = DOMAIN downloads
<1>1. wpm[w].pkg \in DOMAIN Packages BY DEF WpmTypes, WpmState, Active
<1>2. ASSUME NEW p \in DOMAIN Packages \ {wpm[w].pkg}, NEW i \in 1..Count(p)
      PROVE  bin'[Dest(p, i)] = bin[Dest(p, i)]
             /\ downloads'[Files(p)[i]] = downloads[Files(p)[i]]
  <2>1. Dest(p, i) # Place(w) /\ Files(p)[i] # Source(w)
    BY <1>1, FilesOf DEF Place, Source
  <2>2. Dest(p, i) \in DOMAIN bin /\ Files(p)[i] \in DOMAIN downloads
    BY FilesOf DEF WpmTypes
  <2> QED BY <2>1, <2>2
<1>3. Apart(w) BY <1>2 DEF Apart, Untouched
<1>4. DOMAIN bin' = DOMAIN bin /\ DOMAIN downloads' = DOMAIN downloads
  OBVIOUS
<1> QED BY <1>3, <1>4

LEMMA NothingWritten ==
  ASSUME UNCHANGED <<bin, downloads>>, NEW w
  PROVE  Apart(w)
BY DEF Apart, Untouched

-----------------------------------------------------------------------------
\* A run goes on: what it has done so far is so for the state r that it takes.
GoesOn(w, r) ==
  /\ Moves(w, r) /\ Apart(w)
  /\ r.pc # "idle" /\ r.pkg = wpm[w].pkg
  /\ alone' \in [WpmRuns -> BOOLEAN] /\ (alone'[w] => alone[w])
  /\ told' = told /\ clean' = clean
  /\ DOMAIN bin' = DOMAIN bin /\ DOMAIN downloads' = DOMAIN downloads
  /\ InPlace(r) /\ (alone'[w] => DoneSoFar(r, bin', downloads'))

\* What it does to the alias file: nothing, but to take it for writing.
AliasesWait(w, r) ==
  /\ wpm[w].pc # "saving"
  /\ IF r.pc = "saving" THEN aliases' \in [whole : BOOLEAN, names : SUBSET RenamedOnes]
                        ELSE aliases' = aliases
  /\ \A p \in DOMAIN Packages \ {r.pkg} : p \in r.names <=> p \in wpm[w].names
  /\ ~Saving(r) => r.names = wpm[w].names /\ ~Saving(wpm[w])

LEMMA GoesOnKeeps ==
  ASSUME WpmInv, NEW w \in Active, NEW r \in WpmState, GoesOn(w, r), AliasesWait(w, r)
  PROVE  WpmInv'
<1>1. WpmTypes /\ NoRivals /\ ToldIsSo /\ AliasesAgree BY DEF WpmInv
<1>2. /\ w \in WpmRuns /\ wpm'[w] = r /\ wpm' \in [WpmRuns -> WpmState]
      /\ \A v \in WpmRuns \ {w} : wpm'[v] = wpm[v] /\ alone'[v] = alone[v]
      /\ \A v \in Active' : v = w \/ v \in Active
      /\ w \in Active'
  BY <1>1, MovesOne DEF GoesOn
<1>3. \A v \in Active' : v \in Active /\ v \in WpmRuns /\ wpm'[v].pkg = wpm[v].pkg
  BY <1>2 DEF GoesOn, Active
<1>4. WpmTypes' BY <1>1, <1>2 DEF WpmTypes, GoesOn, AliasesWait
<1>5. NoRivals'
  <2>1. ASSUME NEW v \in Active', NEW u \in Active', v # u, alone'[u]
        PROVE  wpm'[v].pkg # wpm'[u].pkg
    <3>1. alone[u] BY <1>2, <1>3, <2>1 DEF GoesOn
    <3> QED BY <1>1, <1>3, <2>1, <3>1 DEF NoRivals
  <2>2. ASSUME NEW v \in Active' PROVE told'[wpm'[v].pkg] = "unknown"
    BY <1>1, <1>3 DEF NoRivals, GoesOn
  <2> QED BY <2>1, <2>2 DEF NoRivals
<1>6. ToldIsSo'
  <2>1. told[wpm[w].pkg] = "unknown" /\ told' = told
    BY <1>1 DEF NoRivals, GoesOn
  <2>2. \A p \in DOMAIN Packages \ {wpm[w].pkg} :
              /\ told[p] = "installed" => Installed(p, bin')
              /\ told[p] = "removed" => Removed(p, bin')
    BY OthersStay DEF GoesOn
  <2> QED BY <2>1, <2>2 DEF ToldIsSo
<1>7. ASSUME clean'
      PROVE  /\ \A v, u \in Active' : v = u
             /\ (\A v \in Active' : wpm'[v].pc # "saving") =>
                  aliases'.whole /\ Agrees(aliases.names)'
             /\ \A v \in Active' : /\ Agrees(wpm[v].names)'
                                   /\ ~Saving(wpm'[v]) => wpm'[v].names = aliases'.names
  <2>1. clean /\ \A v \in Active : v = w
    BY <1>1, <1>7 DEF GoesOn, AliasesAgree
  <2>2. \A v \in Active' : v = w BY <1>3, <2>1
  <2>3. /\ Agrees(wpm[w].names) /\ wpm[w].pc # "saving"
        /\ aliases.whole /\ Agrees(aliases.names)
        /\ ~Saving(wpm[w]) => wpm[w].names = aliases.names
    BY <1>1, <2>1 DEF AliasesAgree, AliasesWait
  <2>4. told[r.pkg] = "unknown" /\ told' = told
    BY <1>1 DEF NoRivals, GoesOn
  <2>5. Agrees(wpm[w].names)'
    <3>1. \A p \in DOMAIN Packages :
            told'[p] # "unknown" => (p \in r.names <=> Renamed(p) /\ told'[p] = "installed")
      <4> SUFFICES ASSUME NEW p \in DOMAIN Packages, told[p] # "unknown"
                   PROVE  p \in r.names <=> Renamed(p) /\ told[p] = "installed"
        BY <2>4
      <4>1. p \in wpm[w].names <=> Renamed(p) /\ told[p] = "installed"
        BY <2>3 DEF Agrees
      <4>2. p \in r.names <=> p \in wpm[w].names BY <2>4 DEF AliasesWait
      <4> QED BY <4>1, <4>2
    <3> QED BY <1>2, <3>1 DEF Agrees
  <2>6. ASSUME \A v \in Active' : wpm'[v].pc # "saving"
        PROVE  aliases'.whole /\ Agrees(aliases.names)'
    <3>1. aliases' = aliases BY <1>2, <2>6 DEF AliasesWait
    <3>2. \A p \in DOMAIN Packages :
            told[p] # "unknown" => (p \in aliases.names <=> Renamed(p) /\ told[p] = "installed")
      BY <2>3 DEF Agrees
    <3> QED BY <2>3, <2>4, <3>1, <3>2 DEF Agrees
  <2>7. ~Saving(r) => r.names = aliases'.names
    BY <2>3 DEF AliasesWait, Saving
  <2> QED BY <1>2, <2>2, <2>5, <2>6, <2>7
<1>8. AliasesAgree' BY <1>7 DEF AliasesAgree
<1>9. ASSUME NEW v \in Active'
      PROVE  InPlace(wpm'[v]) /\ (alone'[v] => DoneSoFar(wpm'[v], bin', downloads'))
  <2>1. CASE v = w BY <1>2, <2>1 DEF GoesOn
  <2>2. CASE v # w BY <2>2, OthersStay DEF GoesOn
  <2> QED BY <2>1, <2>2
<1> QED BY <1>4, <1>5, <1>6, <1>8, <1>9 DEF WpmInv

\* A run is over: what it says is so, if it says something.
IsOver(w) ==
  /\ Moves(w, WpmIdle) /\ Apart(w)
  /\ alone' \in [WpmRuns -> BOOLEAN]
  /\ told' \in [DOMAIN Packages -> {"unknown", "installed", "removed"}]
  /\ \A p \in DOMAIN Packages \ {wpm[w].pkg} : told'[p] = told[p]
  /\ alone[w] \/ told'[wpm[w].pkg] = told[wpm[w].pkg]
  /\ told'[wpm[w].pkg] = "installed" => Installed(wpm[w].pkg, bin')
  /\ told'[wpm[w].pkg] = "removed" => Removed(wpm[w].pkg, bin')
  /\ DOMAIN bin' = DOMAIN bin /\ DOMAIN downloads' = DOMAIN downloads
  /\ aliases' \in [whole : BOOLEAN, names : SUBSET RenamedOnes] /\ clean' \in BOOLEAN
  /\ clean' => clean /\ aliases'.whole /\ Agrees(aliases.names)'

LEMMA IdleIsState == WpmIdle \in WpmState
<1>1. (CHOOSE p \in DOMAIN Packages : TRUE) \in DOMAIN Packages
  BY WpmAssumption
<1>2. 1 \in Nat \ {0} /\ {} \in SUBSET RenamedOnes OBVIOUS
<1> QED BY <1>1, <1>2 DEF WpmIdle, WpmState

LEMMA IsOverKeeps ==
  ASSUME WpmInv, NEW w \in Active, IsOver(w)
  PROVE  WpmInv'
<1>1. WpmTypes /\ NoRivals /\ ToldIsSo /\ AliasesAgree BY DEF WpmInv
<1>2. WpmIdle \in WpmState /\ WpmIdle.pc = "idle"
  BY IdleIsState DEF WpmIdle
<1>3. /\ w \in WpmRuns /\ wpm' \in [WpmRuns -> WpmState]
      /\ \A v \in WpmRuns \ {w} : wpm'[v] = wpm[v] /\ alone'[v] = alone[v]
      /\ \A v \in Active' : v \in Active /\ v # w
  BY <1>1, <1>2, MovesOne DEF IsOver
<1>4. \A v \in Active' : wpm'[v] = wpm[v] /\ alone'[v] = alone[v]
  BY <1>3 DEF Active
<1>6. \A v \in Active' : wpm[v].pkg \in DOMAIN Packages
  BY <1>1, <1>3 DEF WpmTypes, WpmState, Active
<1>7. WpmTypes' BY <1>1, <1>3 DEF WpmTypes, IsOver
<1>8. NoRivals'
  <2>1. ASSUME NEW v \in Active', NEW u \in Active', v # u, alone'[u]
        PROVE  wpm'[v].pkg # wpm'[u].pkg
    BY <1>1, <1>3, <1>4, <2>1 DEF NoRivals
  <2>2. ASSUME NEW v \in Active' PROVE told'[wpm'[v].pkg] = "unknown"
    <3>1. told[wpm[v].pkg] = "unknown" /\ (alone[w] => wpm[v].pkg # wpm[w].pkg)
      BY <1>1, <1>3 DEF NoRivals
    <3>2. told'[wpm[v].pkg] = told[wpm[v].pkg]
      <4>1. CASE wpm[v].pkg # wpm[w].pkg BY <1>6, <4>1 DEF IsOver
      <4>2. CASE wpm[v].pkg = wpm[w].pkg BY <3>1, <4>2 DEF IsOver
      <4> QED BY <4>1, <4>2
    <3> QED BY <1>4, <3>1, <3>2
  <2> QED BY <2>1, <2>2 DEF NoRivals
<1>9. ToldIsSo'
  <2>1. \A p \in DOMAIN Packages \ {wpm[w].pkg} :
              /\ told'[p] = "installed" => Installed(p, bin')
              /\ told'[p] = "removed" => Removed(p, bin')
    BY <1>2, OthersStay DEF IsOver
  <2>2. /\ told'[wpm[w].pkg] = "installed" => Installed(wpm[w].pkg, bin')
        /\ told'[wpm[w].pkg] = "removed" => Removed(wpm[w].pkg, bin')
    BY DEF IsOver
  <2> QED BY <2>1, <2>2 DEF ToldIsSo
<1>10. AliasesAgree'
  <2>1. ASSUME clean'
        PROVE  aliases'.whole /\ Agrees(aliases.names)' /\ \A v \in Active' : FALSE
    <3>1. clean /\ aliases'.whole /\ Agrees(aliases.names)'
      BY <2>1 DEF IsOver
    <3>2. \A v \in Active' : v = w BY <1>1, <1>3, <3>1 DEF AliasesAgree
    <3> QED BY <1>3, <3>1, <3>2
  <2> QED BY <2>1 DEF AliasesAgree
<1>11. ASSUME NEW v \in Active'
       PROVE  InPlace(wpm'[v]) /\ (alone'[v] => DoneSoFar(wpm'[v], bin', downloads'))
  BY <1>2, <1>3, OthersStay DEF IsOver
<1> QED BY <1>7, <1>8, <1>9, <1>10, <1>11 DEF WpmInv

\* A run that writes no file and says nothing can end at any time, but for the
\* alias file it may have in hand.
LEMMA StopKeeps ==
  ASSUME WpmInv, NEW w \in Active, Ends(w),
         UNCHANGED <<bin, downloads, aliases, told>>,
         clean' \in BOOLEAN, clean' => clean /\ wpm[w].pc # "saving"
  PROVE  WpmInv'
<1>1. WpmTypes /\ NoRivals /\ ToldIsSo /\ AliasesAgree BY DEF WpmInv
<1>2. w \in WpmRuns /\ wpm[w].pkg \in DOMAIN Packages
  BY <1>1 DEF WpmTypes, WpmState, Active
<1>3. Moves(w, WpmIdle) /\ alone' \in [WpmRuns -> BOOLEAN]
  BY <1>1, <1>2 DEF Ends, Moves, WpmTypes
<1>4. Apart(w) BY NothingWritten
<1>5. told[wpm[w].pkg] = "unknown" BY <1>1 DEF NoRivals
<1>6. ASSUME clean' PROVE clean /\ aliases'.whole /\ Agrees(aliases.names)'
  <2>1. aliases.whole /\ Agrees(aliases.names)
    BY <1>1, <1>6 DEF AliasesAgree
  <2> QED BY <1>6, <2>1 DEF Agrees
<1>7. IsOver(w) BY <1>1, <1>3, <1>4, <1>5, <1>6 DEF IsOver, WpmTypes
<1> QED BY <1>7, IsOverKeeps

\* A run ends and says its result, which is so.
LEMMA SaysKeeps ==
  ASSUME WpmInv, NEW w \in Active, NEW result \in {"installed", "removed"}, Ends(w), Apart(w),
         told' = [told EXCEPT ![wpm[w].pkg] = IF alone[w] THEN result ELSE @],
         alone[w] => /\ result = "installed" => Installed(wpm[w].pkg, bin')
                     /\ result = "removed" => Removed(wpm[w].pkg, bin'),
         DOMAIN bin' = DOMAIN bin, DOMAIN downloads' = DOMAIN downloads,
         aliases' \in [whole : BOOLEAN, names : SUBSET RenamedOnes], clean' \in BOOLEAN,
         clean' => clean /\ aliases'.whole,
         clean' => \A p \in DOMAIN Packages \ {wpm[w].pkg} :
                     p \in aliases'.names <=> p \in wpm[w].names,
         clean' => (wpm[w].pkg \in aliases'.names <=> Renamed(wpm[w].pkg) /\ result = "installed")
  PROVE  WpmInv'
<1>1. WpmTypes /\ NoRivals /\ ToldIsSo /\ AliasesAgree BY DEF WpmInv
<1>2. w \in WpmRuns /\ wpm[w].pkg \in DOMAIN Packages
  BY <1>1 DEF WpmTypes, WpmState, Active
<1>3. Moves(w, WpmIdle) /\ alone' \in [WpmRuns -> BOOLEAN]
  BY <1>1, <1>2 DEF Ends, Moves, WpmTypes
<1>4. told[wpm[w].pkg] = "unknown" BY <1>1 DEF NoRivals
<1>5. /\ told' \in [DOMAIN Packages -> {"unknown", "installed", "removed"}]
      /\ \A p \in DOMAIN Packages \ {wpm[w].pkg} : told'[p] = told[p]
      /\ alone[w] => told'[wpm[w].pkg] = result
      /\ ~alone[w] => told'[wpm[w].pkg] = "unknown"
  BY <1>1, <1>2, <1>4 DEF WpmTypes
<1>6. ASSUME clean' PROVE Agrees(aliases.names)'
  <2>1. Agrees(wpm[w].names) BY <1>1, <1>6 DEF AliasesAgree
  <2>2. ASSUME NEW p \in DOMAIN Packages, told'[p] # "unknown"
        PROVE  p \in aliases'.names <=> Renamed(p) /\ told'[p] = "installed"
    <3>1. CASE p = wpm[w].pkg BY <1>5, <1>6, <2>2, <3>1
    <3>2. CASE p # wpm[w].pkg
      <4>1. told[p] # "unknown" /\ told'[p] = told[p]
        BY <1>5, <2>2, <3>2
      <4>2. p \in wpm[w].names <=> Renamed(p) /\ told[p] = "installed"
        BY <2>1, <4>1 DEF Agrees
      <4> QED BY <1>6, <3>2, <4>1, <4>2
    <3> QED BY <3>1, <3>2
  <2> QED BY <2>2 DEF Agrees
<1>7. IsOver(w) BY <1>3, <1>4, <1>5, <1>6 DEF IsOver
<1> QED BY <1>7, IsOverKeeps

-----------------------------------------------------------------------------
LEMMA RunFields ==
  ASSUME NEW r \in WpmState, NEW c \in {"download", "receive", "copy", "copying", "remove",
                                        "save", "saving"},
         NEW n \in Nat \ {0}, NEW ns \in SUBSET RenamedOnes
  PROVE  /\ [r EXCEPT !.pc = c] \in WpmState
         /\ [r EXCEPT !.at = n] \in WpmState
         /\ [r EXCEPT !.pc = c, !.at = n] \in WpmState
         /\ [r EXCEPT !.pc = c, !.names = ns] \in WpmState
<1>1. [r EXCEPT !.pc = c] \in WpmState BY DEF WpmState
<1>2. \A t \in WpmState : [t EXCEPT !.at = n] \in WpmState /\ [t EXCEPT !.names = ns] \in WpmState
  BY DEF WpmState
<1>3. /\ [r EXCEPT !.pc = c, !.at = n] = [[r EXCEPT !.pc = c] EXCEPT !.at = n]
      /\ [r EXCEPT !.pc = c, !.names = ns] = [[r EXCEPT !.pc = c] EXCEPT !.names = ns]
  BY DEF WpmState
<1> QED BY <1>1, <1>2, <1>3

\* What the invariant says of a run that has not ended.
LEMMA AtWork ==
  ASSUME WpmInv, NEW w \in Active
  PROVE  /\ w \in WpmRuns /\ wpm[w] \in WpmState
         /\ wpm[w].pkg \in DOMAIN Packages /\ wpm[w].at \in Nat \ {0}
         /\ wpm[w].names \in SUBSET RenamedOnes /\ wpm[w].op \in {"install", "uninstall"}
         /\ InPlace(wpm[w]) /\ (alone[w] => DoneSoFar(wpm[w], bin, downloads))
         /\ DOMAIN bin = Names /\ DOMAIN downloads = Downloaded
         /\ wpm \in [WpmRuns -> WpmState] /\ alone \in [WpmRuns -> BOOLEAN]
         /\ clean \in BOOLEAN
         /\ aliases \in [whole : BOOLEAN, names : SUBSET RenamedOnes]
         /\ Count(wpm[w].pkg) = Len(Files(wpm[w].pkg))
BY DEF WpmInv, WpmTypes, Active, WpmState, Count

LEMMA DownloadStartsKeeps ==
  ASSUME WpmInv, NEW w \in WpmRuns, DownloadStarts(w)
  PROVE  WpmInv'
<1> DEFINE r == [wpm[w] EXCEPT !.pc = "receive"]
<1>1. w \in Active /\ wpm[w].pc = "download"
  BY DEF Active, DownloadStarts, Here
<1>2. /\ wpm[w] \in WpmState /\ wpm[w].at \in Nat \ {0} /\ InPlace(wpm[w])
      /\ (alone[w] => DoneSoFar(wpm[w], bin, downloads))
      /\ alone \in [WpmRuns -> BOOLEAN]
      /\ wpm[w].pkg \in DOMAIN Packages
  BY <1>1, AtWork
<1>3. /\ r \in WpmState /\ r.pc = "receive" /\ r.op = wpm[w].op /\ r.pkg = wpm[w].pkg
      /\ r.at = wpm[w].at /\ r.names = wpm[w].names
  BY <1>2 DEF WpmState
<1>4. /\ wpm' = [wpm EXCEPT ![w] = r] /\ UNCHANGED <<told, alone, clean, bin, aliases>>
      /\ downloads' = [downloads EXCEPT ![Source(w)] = Partial]
  BY DEF DownloadStarts, End, Step
<1> HIDE DEF r
<1>5. wpm[w].at \in 1..Count(wpm[w].pkg)
  BY <1>1, <1>2, FilesOf DEF InPlace, Fetching
<1>6. WpmTypes BY DEF WpmInv
<1>7. /\ Apart(w)
      /\ DOMAIN bin' = DOMAIN bin /\ DOMAIN downloads' = DOMAIN downloads
  BY <1>1, <1>4, <1>5, <1>6, WriteApart
<1>8. InPlace(r) BY <1>1, <1>2, <1>3 DEF InPlace, Fetching, Saving
<1>9. alone[w] => DoneSoFar(r, bin, downloads')
  BY <1>1, <1>2, <1>3 DEF DoneSoFar, Fetching, Saving
<1>10. GoesOn(w, r)
  BY <1>2, <1>3, <1>4, <1>7, <1>8, <1>9 DEF GoesOn, Moves
<1>11. AliasesWait(w, r) BY <1>1, <1>3, <1>4 DEF AliasesWait, Saving
<1> QED BY <1>1, <1>3, <1>10, <1>11, GoesOnKeeps

LEMMA DownloadEndsKeeps ==
  ASSUME WpmInv, NEW w \in WpmRuns, DownloadEnds(w)
  PROVE  WpmInv'
<1> DEFINE r == [wpm[w] EXCEPT !.pc = "copy"]
<1>1. w \in Active /\ wpm[w].pc = "receive"
  BY DEF Active, DownloadEnds, Here
<1>2. /\ wpm[w] \in WpmState /\ wpm[w].at \in Nat \ {0} /\ InPlace(wpm[w])
      /\ (alone[w] => DoneSoFar(wpm[w], bin, downloads))
      /\ alone \in [WpmRuns -> BOOLEAN]
      /\ wpm[w].pkg \in DOMAIN Packages
      /\ DOMAIN downloads = Downloaded
  BY <1>1, AtWork
<1>3. /\ r \in WpmState /\ r.pc = "copy" /\ r.op = wpm[w].op /\ r.pkg = wpm[w].pkg
      /\ r.at = wpm[w].at /\ r.names = wpm[w].names
  BY <1>2 DEF WpmState
<1>4. /\ wpm' = [wpm EXCEPT ![w] = r] /\ UNCHANGED <<told, clean, bin, aliases>>
      /\ \/ downloads' = [downloads EXCEPT ![Source(w)] = Source(w)] /\ alone' = alone
         \/ downloads' = downloads /\ alone' = [alone EXCEPT ![w] = FALSE]
  BY DEF DownloadEnds, Step
<1> HIDE DEF r
<1>5. wpm[w].at \in 1..Count(wpm[w].pkg)
  BY <1>1, <1>2, FilesOf DEF InPlace, Fetching
<1>6. WpmTypes BY DEF WpmInv
<1>7. /\ Apart(w)
      /\ DOMAIN bin' = DOMAIN bin /\ DOMAIN downloads' = DOMAIN downloads
  BY <1>1, <1>4, <1>5, <1>6, WriteApart
<1>8. InPlace(r) BY <1>1, <1>2, <1>3 DEF InPlace, Fetching, Saving
<1>9. /\ alone' \in [WpmRuns -> BOOLEAN] /\ \A v \in WpmRuns \ {w} : alone'[v] = alone[v]
      /\ alone'[w] => alone[w] /\ downloads' = [downloads EXCEPT ![Source(w)] = Source(w)]
  BY <1>2, <1>4
<1>10. ASSUME alone'[w] PROVE DoneSoFar(r, bin', downloads')
  <2>1. downloads'[Files(r.pkg)[r.at]] = Files(r.pkg)[r.at]
    BY <1>2, <1>3, <1>5, <1>9, <1>10, FilesOf DEF Source
  <2> QED
    BY <1>1, <1>2, <1>3, <1>4, <1>9, <1>10, <2>1 DEF DoneSoFar, Fetching, Saving
<1>11. GoesOn(w, r)
  BY <1>3, <1>4, <1>7, <1>8, <1>9, <1>10 DEF GoesOn, Moves
<1>12. AliasesWait(w, r) BY <1>1, <1>3, <1>4 DEF AliasesWait, Saving
<1> QED BY <1>1, <1>3, <1>11, <1>12, GoesOnKeeps

LEMMA CopyStartsKeeps ==
  ASSUME WpmInv, NEW w \in WpmRuns, CopyStarts(w)
  PROVE  WpmInv'
<1> DEFINE r == [wpm[w] EXCEPT !.pc = "copying"]
<1>1. w \in Active /\ wpm[w].pc = "copy" BY DEF Active, CopyStarts, Here
<1>2. /\ wpm[w] \in WpmState /\ wpm[w].at \in Nat \ {0} /\ InPlace(wpm[w])
      /\ (alone[w] => DoneSoFar(wpm[w], bin, downloads))
      /\ alone \in [WpmRuns -> BOOLEAN]
      /\ wpm[w].pkg \in DOMAIN Packages
  BY <1>1, AtWork
<1>3. /\ r \in WpmState /\ r.pc = "copying" /\ r.op = wpm[w].op /\ r.pkg = wpm[w].pkg
      /\ r.at = wpm[w].at /\ r.names = wpm[w].names
  BY <1>2 DEF WpmState
<1>4. /\ wpm' = [wpm EXCEPT ![w] = r] /\ UNCHANGED <<told, alone, clean, downloads, aliases>>
      /\ bin' = [bin EXCEPT ![Place(w)] = Partial]
  BY DEF CopyStarts, End, Step
<1> HIDE DEF r
<1>5. wpm[w].at \in 1..Count(wpm[w].pkg)
  BY <1>1, <1>2, FilesOf DEF InPlace, Fetching
<1>6. WpmTypes BY DEF WpmInv
<1>7. /\ Apart(w)
      /\ DOMAIN bin' = DOMAIN bin /\ DOMAIN downloads' = DOMAIN downloads
  BY <1>1, <1>4, <1>5, <1>6, WriteApart
<1>8. InPlace(r) BY <1>1, <1>2, <1>3 DEF InPlace, Fetching, Saving
<1>9. ASSUME alone[w] PROVE DoneSoFar(r, bin', downloads)
  <2>1. DoneSoFar(wpm[w], bin, downloads) BY <1>2, <1>9
  <2>2. ASSUME ~Renamed(r.pkg), NEW i \in 1..r.at - 1
        PROVE  bin'[Files(r.pkg)[i]] = Files(r.pkg)[i] \/ Files(r.pkg)[i] = Files(r.pkg)[r.at]
    <3>1. bin[Files(r.pkg)[i]] = Files(r.pkg)[i]
      BY <1>1, <1>3, <2>1, <2>2 DEF DoneSoFar, Fetching
    <3>2. Place(w) = Files(r.pkg)[r.at]
      BY <1>2, <1>3, <1>5, <2>2, FilesOf DEF Place
    <3> QED BY <1>4, <3>1, <3>2
  <2>3. downloads[Files(r.pkg)[r.at]] = Files(r.pkg)[r.at]
    BY <1>1, <1>3, <2>1 DEF DoneSoFar
  <2> QED BY <1>3, <2>2, <2>3 DEF DoneSoFar, Fetching, Saving
<1>10. GoesOn(w, r)
  BY <1>2, <1>3, <1>4, <1>7, <1>8, <1>9 DEF GoesOn, Moves
<1>11. AliasesWait(w, r) BY <1>1, <1>3, <1>4 DEF AliasesWait, Saving
<1> QED BY <1>1, <1>3, <1>10, <1>11, GoesOnKeeps

LEMMA CopyEndsKeeps ==
  ASSUME WpmInv, NEW w \in WpmRuns, CopyEnds(w)
  PROVE  WpmInv'
<1> DEFINE p == wpm[w].pkg
           k == wpm[w].at
<1>1. w \in Active /\ wpm[w].pc = "copying"
  BY DEF Active, CopyEnds, Here
<1>2. /\ wpm[w] \in WpmState /\ k \in Nat \ {0} /\ InPlace(wpm[w])
      /\ (alone[w] => DoneSoFar(wpm[w], bin, downloads))
      /\ alone \in [WpmRuns -> BOOLEAN] /\ clean \in BOOLEAN
      /\ p \in DOMAIN Packages /\ DOMAIN bin = Names
      /\ wpm[w].names \in SUBSET RenamedOnes
      /\ aliases \in [whole : BOOLEAN, names : SUBSET RenamedOnes]
      /\ Count(p) = Len(Files(p)) /\ WpmTypes /\ AliasesAgree
  BY <1>1, AtWork DEF WpmInv
<1>3. k \in 1..Count(p) /\ wpm[w].op = "install" /\ Count(p) \in Nat \ {0}
  BY <1>1, <1>2, FilesOf DEF InPlace, Fetching
<1>4. /\ bin' = [bin EXCEPT ![Place(w)] = downloads[Source(w)]]
      /\ UNCHANGED <<downloads, aliases>>
  BY DEF CopyEnds
<1>5. /\ Apart(w)
      /\ DOMAIN bin' = DOMAIN bin /\ DOMAIN downloads' = DOMAIN downloads
  BY <1>1, <1>2, <1>3, <1>4, WriteApart
<1>6. ASSUME alone[w]
      PROVE  /\ bin'[Dest(p, k)] = Files(p)[k]
             /\ ~Renamed(p) => \A i \in 1..k : bin'[Files(p)[i]] = Files(p)[i]
  <2>1. DoneSoFar(wpm[w], bin, downloads) BY <1>2, <1>6
  <2>2. downloads[Source(w)] = Files(p)[k]
    BY <1>1, <2>1 DEF DoneSoFar, Source
  <2>3. Place(w) = Dest(p, k) /\ Dest(p, k) \in DOMAIN bin
    BY <1>2, <1>3, FilesOf DEF Place
  <2>4. bin'[Dest(p, k)] = Files(p)[k] BY <1>4, <2>2, <2>3
  <2>5. ASSUME ~Renamed(p), NEW i \in 1..k
        PROVE  bin'[Files(p)[i]] = Files(p)[i]
    <3>1. Place(w) = Files(p)[k] BY <1>2, <1>3, <2>3, <2>5, FilesOf
    <3>2. CASE Files(p)[i] = Files(p)[k] BY <2>3, <2>4, <3>1, <3>2
    <3>3. CASE Files(p)[i] # Files(p)[k]
      <4>1. i \in 1..k - 1 BY <1>2, <3>3
      <4>2. bin[Files(p)[i]] = Files(p)[i]
        BY <1>1, <2>1, <2>5, <3>3, <4>1 DEF DoneSoFar, Fetching
      <4> QED BY <1>4, <3>1, <3>3, <4>2
    <3> QED BY <3>2, <3>3
  <2> QED BY <2>4, <2>5
<1>7. CASE k < Count(p)
  <2> DEFINE r == [wpm[w] EXCEPT !.pc = "download", !.at = k + 1]
  <2>1. r \in WpmState
    <3>1. k + 1 \in Nat \ {0} /\ {} \in SUBSET RenamedOnes BY <1>2
    <3> QED BY <1>2, <3>1, RunFields
  <2>2. /\ r.pc = "download" /\ r.op = wpm[w].op /\ r.pkg = p
        /\ r.at = k + 1 /\ r.names = wpm[w].names
    BY <1>2 DEF WpmState
  <2>3. wpm' = [wpm EXCEPT ![w] = r] /\ UNCHANGED <<told, alone, clean>>
    BY <1>2, <1>7 DEF CopyEnds
  <2> HIDE DEF r
  <2>4. InPlace(r)
    BY <1>2, <1>3, <1>7, <2>2 DEF InPlace, Fetching, Saving
  <2>5. ASSUME alone[w] PROVE DoneSoFar(r, bin', downloads')
    <3>1. \A i \in 1..r.at - 1 : i \in 1..k BY <1>2, <2>2
    <3> QED BY <1>6, <2>2, <2>5, <3>1 DEF DoneSoFar, Fetching, Saving
  <2>6. GoesOn(w, r)
    BY <1>2, <1>5, <2>2, <2>3, <2>4, <2>5 DEF GoesOn, Moves
  <2>7. AliasesWait(w, r) BY <1>1, <1>4, <2>2 DEF AliasesWait, Saving
  <2> QED BY <1>1, <2>1, <2>6, <2>7, GoesOnKeeps
<1>8. CASE k >= Count(p) /\ Renamed(p)
  <2> DEFINE r == [wpm[w] EXCEPT !.pc = "save", !.names = wpm[w].names \cup {p}]
  <2>1. k = Count(p) /\ ~(k < Len(Files(p))) BY <1>2, <1>3, <1>8
  <2>2. wpm[w].names \cup {p} \in SUBSET RenamedOnes
    BY <1>2, <1>8 DEF RenamedOnes
  <2>3. r \in WpmState BY <1>2, <2>2, RunFields
  <2>4. /\ r.pc = "save" /\ r.op = wpm[w].op /\ r.pkg = p
        /\ r.at = k /\ r.names = wpm[w].names \cup {p}
    BY <1>2 DEF WpmState
  <2>5. wpm' = [wpm EXCEPT ![w] = r] /\ UNCHANGED <<told, alone, clean>>
    BY <1>8, <2>1 DEF CopyEnds
  <2> HIDE DEF r
  <2>6. InPlace(r) BY <1>3, <2>4 DEF InPlace, Fetching, Saving
  <2>7. ASSUME alone[w] PROVE DoneSoFar(r, bin', downloads')
    <3>1. Installed(p, bin') BY <1>6, <1>8, <2>1, <2>7 DEF Installed
    <3> QED BY <1>3, <2>4, <3>1 DEF DoneSoFar, Fetching, Saving
  <2>8. GoesOn(w, r)
    BY <1>2, <1>5, <2>4, <2>5, <2>6, <2>7 DEF GoesOn, Moves
  <2>9. AliasesWait(w, r) BY <1>1, <1>4, <2>4 DEF AliasesWait, Saving
  <2> QED BY <1>1, <2>3, <2>8, <2>9, GoesOnKeeps
<1>9. CASE k >= Count(p) /\ ~Renamed(p)
  <2>1. k = Count(p) /\ ~(k < Len(Files(p))) BY <1>2, <1>3, <1>9
  <2>2. Says(w, "installed") BY <1>9, <2>1 DEF CopyEnds
  <2>3. ASSUME alone[w] PROVE Installed(p, bin')
    <3>1. \A i \in 1..Count(p) : bin'[Files(p)[i]] = Files(p)[i] /\ Dest(p, i) = Files(p)[i]
      BY <1>2, <1>6, <1>9, <2>1, <2>3, FilesOf
    <3> QED BY <3>1 DEF Installed
  <2>4. ASSUME clean
        PROVE  aliases.whole /\ aliases.names = wpm[w].names
    <3>1. \A u \in Active : wpm[u].pc # "saving"
      BY <1>1, <1>2, <2>4 DEF AliasesAgree
    <3> QED BY <1>1, <1>2, <2>4, <3>1 DEF AliasesAgree, Saving
  <2>5. p \notin wpm[w].names BY <1>2, <1>9 DEF RenamedOnes
  <2> QED
    BY <1>1, <1>2, <1>4, <1>5, <1>9, <2>2, <2>3, <2>4, <2>5, SaysKeeps DEF Says
<1> QED BY <1>2, <1>3, <1>7, <1>8, <1>9

LEMMA RemoveFileKeeps ==
  ASSUME WpmInv, NEW w \in WpmRuns, RemoveFile(w)
  PROVE  WpmInv'
<1> DEFINE p == wpm[w].pkg
           k == wpm[w].at
           r == [wpm[w] EXCEPT !.at = k + 1]
<1>1. w \in Active /\ wpm[w].pc = "remove"
  BY DEF Active, RemoveFile, Here
<1>2. /\ wpm[w] \in WpmState /\ k \in Nat \ {0} /\ InPlace(wpm[w])
      /\ (alone[w] => DoneSoFar(wpm[w], bin, downloads))
      /\ alone \in [WpmRuns -> BOOLEAN]
      /\ p \in DOMAIN Packages /\ DOMAIN bin = Names /\ Count(p) = Len(Files(p)) /\ WpmTypes
  BY <1>1, AtWork DEF WpmInv
<1>3. k \in 1..Count(p) /\ wpm[w].op = "uninstall" /\ Count(p) \in Nat \ {0}
  BY <1>1, <1>2, FilesOf DEF InPlace, RemoveFile
<1>4. r \in WpmState
  <2>1. k + 1 \in Nat \ {0} /\ {} \in SUBSET RenamedOnes BY <1>2
  <2> QED BY <1>2, <2>1, RunFields
<1>5. /\ r.pc = "remove" /\ r.op = wpm[w].op /\ r.pkg = p
      /\ r.at = k + 1 /\ r.names = wpm[w].names
  BY <1>1, <1>2 DEF WpmState
<1>6. /\ wpm' = [wpm EXCEPT ![w] = r] /\ UNCHANGED <<told, clean, downloads, aliases>>
      /\ \/ bin' = [bin EXCEPT ![Place(w)] = Absent] /\ alone' = alone
         \/ bin' = bin /\ alone' = [alone EXCEPT ![w] = FALSE]
  BY DEF RemoveFile
<1> HIDE DEF r
<1>7. /\ Apart(w)
      /\ DOMAIN bin' = DOMAIN bin /\ DOMAIN downloads' = DOMAIN downloads
  BY <1>1, <1>2, <1>3, <1>6, WriteApart
<1>8. InPlace(r) BY <1>3, <1>5 DEF InPlace, Fetching, Saving
<1>9. /\ alone' \in [WpmRuns -> BOOLEAN] /\ \A v \in WpmRuns \ {w} : alone'[v] = alone[v]
      /\ alone'[w] => alone[w] /\ bin' = [bin EXCEPT ![Place(w)] = Absent]
  BY <1>2, <1>6
<1>10. ASSUME alone'[w] PROVE DoneSoFar(r, bin', downloads')
  <2>1. DoneSoFar(wpm[w], bin, downloads) BY <1>2, <1>9, <1>10
  <2>2. Place(w) = Dest(p, k) /\ Dest(p, k) \in DOMAIN bin
    BY <1>2, <1>3, FilesOf DEF Place
  <2>3. ASSUME NEW i \in 1..r.at - 1 PROVE bin'[Dest(p, i)] = Absent
    <3>1. i \in 1..k BY <1>2, <1>5
    <3>2. CASE Dest(p, i) = Dest(p, k) BY <1>9, <1>10, <2>2, <3>2
    <3>3. CASE Dest(p, i) # Dest(p, k)
      <4>1. i \in 1..k - 1 BY <1>2, <3>1, <3>3
      <4>2. bin[Dest(p, i)] = Absent BY <1>1, <2>1, <4>1 DEF DoneSoFar
        <4>3. Dest(p, i) \in DOMAIN bin BY <1>2, <1>3, <3>1, FilesOf
      <4> QED BY <1>9, <1>10, <2>2, <3>3, <4>2, <4>3
    <3> QED BY <3>2, <3>3
  <2> QED BY <1>5, <2>3 DEF DoneSoFar, Fetching, Saving
<1>11. GoesOn(w, r)
  BY <1>5, <1>6, <1>7, <1>8, <1>9, <1>10 DEF GoesOn, Moves
<1>12. AliasesWait(w, r) BY <1>1, <1>5, <1>6 DEF AliasesWait, Saving
<1> QED BY <1>1, <1>4, <1>11, <1>12, GoesOnKeeps

LEMMA RemoveAliasKeeps ==
  ASSUME WpmInv, NEW w \in WpmRuns, RemoveAlias(w)
  PROVE  WpmInv'
<1> DEFINE p == wpm[w].pkg
           k == wpm[w].at
<1>1. w \in Active /\ wpm[w].pc = "remove"
  BY DEF Active, RemoveAlias, Here
<1>2. /\ wpm[w] \in WpmState /\ k \in Nat \ {0} /\ InPlace(wpm[w])
      /\ (alone[w] => DoneSoFar(wpm[w], bin, downloads))
      /\ alone \in [WpmRuns -> BOOLEAN] /\ clean \in BOOLEAN
      /\ p \in DOMAIN Packages
      /\ wpm[w].names \in SUBSET RenamedOnes
      /\ aliases \in [whole : BOOLEAN, names : SUBSET RenamedOnes]
      /\ Count(p) = Len(Files(p)) /\ AliasesAgree
  BY <1>1, AtWork DEF WpmInv
<1>3. k > Count(p) /\ wpm[w].op = "uninstall" /\ Count(p) \in Nat \ {0}
  BY <1>1, <1>2, FilesOf DEF InPlace, RemoveAlias
<1>4. UNCHANGED <<bin, downloads, aliases>> BY DEF RemoveAlias
<1>5. Apart(w) BY <1>4, NothingWritten
<1>6. ASSUME alone[w] PROVE Removed(p, bin')
  <2>1. \A i \in 1..Count(p) : i \in 1..k - 1 BY <1>2, <1>3
  <2>2. \A i \in 1..k - 1 : bin[Dest(p, i)] = Absent
    BY <1>1, <1>2, <1>6 DEF DoneSoFar
  <2> QED BY <1>4, <2>1, <2>2 DEF Removed
<1>7. CASE Renamed(p) /\ p \in wpm[w].names
  <2> DEFINE r == [wpm[w] EXCEPT !.pc = "save", !.names = wpm[w].names \ {p}]
  <2>1. wpm[w].names \ {p} \in SUBSET RenamedOnes BY <1>2
  <2>2. r \in WpmState BY <1>2, <2>1, RunFields
  <2>3. /\ r.pc = "save" /\ r.op = wpm[w].op /\ r.pkg = p
        /\ r.at = k /\ r.names = wpm[w].names \ {p}
    BY <1>2 DEF WpmState
  <2>4. wpm' = [wpm EXCEPT ![w] = r] /\ UNCHANGED <<told, alone, clean>>
    BY <1>7 DEF RemoveAlias
  <2> HIDE DEF r
  <2>5. InPlace(r) BY <1>3, <2>3 DEF InPlace, Fetching, Saving
  <2>6. ASSUME alone[w] PROVE DoneSoFar(r, bin', downloads')
    BY <1>3, <1>6, <2>3, <2>6 DEF DoneSoFar, Fetching, Saving
  <2>7. GoesOn(w, r)
    BY <1>2, <1>4, <1>5, <2>3, <2>4, <2>5, <2>6 DEF GoesOn, Moves
  <2>8. AliasesWait(w, r) BY <1>1, <1>4, <2>3 DEF AliasesWait, Saving
  <2> QED BY <1>1, <2>2, <2>7, <2>8, GoesOnKeeps
<1>8. CASE ~(Renamed(p) /\ p \in wpm[w].names)
  <2>1. Says(w, "removed") BY <1>8 DEF RemoveAlias
  <2>2. ASSUME clean
        PROVE  aliases.whole /\ aliases.names = wpm[w].names
    <3>1. \A u \in Active : wpm[u].pc # "saving"
      BY <1>1, <1>2, <2>2 DEF AliasesAgree
    <3> QED BY <1>1, <1>2, <2>2, <3>1 DEF AliasesAgree, Saving
  <2>3. p \notin wpm[w].names BY <1>2, <1>8 DEF RenamedOnes
  <2> QED BY <1>1, <1>2, <1>4, <1>5, <1>6, <2>1, <2>2, <2>3, SaysKeeps DEF Says
<1> QED BY <1>7, <1>8

LEMMA SaveStartsKeeps ==
  ASSUME WpmInv, NEW w \in WpmRuns, SaveStarts(w)
  PROVE  WpmInv'
<1> DEFINE r == [wpm[w] EXCEPT !.pc = "saving"]
<1>1. w \in Active /\ wpm[w].pc = "save" BY DEF Active, SaveStarts, Here
<1>2. /\ wpm[w] \in WpmState /\ InPlace(wpm[w])
      /\ (alone[w] => DoneSoFar(wpm[w], bin, downloads))
      /\ alone \in [WpmRuns -> BOOLEAN]
  BY <1>1, AtWork
<1>3. /\ r \in WpmState /\ r.pc = "saving" /\ r.op = wpm[w].op /\ r.pkg = wpm[w].pkg
      /\ r.at = wpm[w].at /\ r.names = wpm[w].names
  BY <1>2 DEF WpmState
<1>4. /\ wpm' = [wpm EXCEPT ![w] = r] /\ UNCHANGED <<told, alone, clean, bin, downloads>>
      /\ aliases' = [whole |-> FALSE, names |-> {}]
  BY DEF SaveStarts, End, Step
<1> HIDE DEF r
<1>5. Apart(w) BY <1>4, NothingWritten
<1>6. InPlace(r) BY <1>1, <1>2, <1>3 DEF InPlace, Fetching, Saving
<1>7. alone[w] => DoneSoFar(r, bin, downloads)
  BY <1>1, <1>2, <1>3 DEF DoneSoFar, Fetching, Saving
<1>8. GoesOn(w, r)
  BY <1>2, <1>3, <1>4, <1>5, <1>6, <1>7 DEF GoesOn, Moves
<1>9. AliasesWait(w, r) BY <1>1, <1>3, <1>4 DEF AliasesWait, Saving
<1> QED BY <1>1, <1>3, <1>8, <1>9, GoesOnKeeps

LEMMA SaveEndsKeeps ==
  ASSUME WpmInv, NEW w \in WpmRuns, SaveEnds(w)
  PROVE  WpmInv'
<1> DEFINE p == wpm[w].pkg
           result == IF wpm[w].op = "install" THEN "installed" ELSE "removed"
<1>1. w \in Active /\ wpm[w].pc \in {"save", "saving"}
  BY DEF Active, SaveEnds, Here
<1>2. /\ wpm[w] \in WpmState /\ InPlace(wpm[w])
      /\ (alone[w] => DoneSoFar(wpm[w], bin, downloads))
      /\ clean \in BOOLEAN
      /\ p \in DOMAIN Packages /\ wpm[w].op \in {"install", "uninstall"}
      /\ wpm[w].names \in SUBSET RenamedOnes
      /\ aliases \in [whole : BOOLEAN, names : SUBSET RenamedOnes]
  BY <1>1, AtWork DEF WpmInv
<1>3. /\ UNCHANGED <<bin, downloads>> /\ Ends(w)
      /\ told' = [told EXCEPT ![p] = IF alone[w] THEN result ELSE @]
      /\ \/ aliases' = [whole |-> TRUE, names |-> wpm[w].names] /\ clean' = clean
         \/ aliases' = aliases /\ clean' = FALSE
  BY DEF SaveEnds
<1>4. /\ result \in {"installed", "removed"}
      /\ result = "installed" <=> wpm[w].op = "install"
      /\ result = "removed" <=> wpm[w].op = "uninstall"
  BY <1>2
<1> HIDE DEF result
<1>5. Apart(w) BY <1>3, NothingWritten
<1>6. alone[w] => /\ result = "installed" => Installed(p, bin')
                  /\ result = "removed" => Removed(p, bin')
  BY <1>1, <1>2, <1>3, <1>4 DEF DoneSoFar, Saving
<1>7. /\ aliases' \in [whole : BOOLEAN, names : SUBSET RenamedOnes] /\ clean' \in BOOLEAN
      /\ clean' => clean /\ aliases'.whole /\ aliases'.names = wpm[w].names
  <2>1. CASE aliases' = [whole |-> TRUE, names |-> wpm[w].names] /\ clean' = clean
    BY <1>2, <2>1
  <2>2. CASE aliases' = aliases /\ clean' = FALSE BY <1>2, <2>2
  <2> QED BY <1>3, <2>1, <2>2
<1>8. p \in wpm[w].names <=> Renamed(p) /\ result = "installed"
  BY <1>1, <1>2, <1>4 DEF InPlace, Saving, RenamedOnes
<1> QED BY <1>1, <1>3, <1>4, <1>5, <1>6, <1>7, <1>8, SaysKeeps

LEMMA WpmStartKeeps ==
  ASSUME WpmInv, NEW w \in WpmRuns, Start(w)
  PROVE  WpmInv'
<1>1. WpmTypes /\ NoRivals /\ ToldIsSo /\ AliasesAgree BY DEF WpmInv
<1>2. PICK p \in DOMAIN Packages, op \in {"install", "uninstall"} :
        /\ wpm' = [wpm EXCEPT ![w] =
             [pc |-> IF op = "install" THEN "download" ELSE "remove", op |-> op, pkg |-> p,
              at |-> 1, names |-> IF aliases.whole THEN aliases.names ELSE {}]]
        /\ told' = [told EXCEPT ![p] = "unknown"]
        /\ alone' = [v \in WpmRuns |->
             IF v = w THEN {u \in Active : wpm[u].pkg = p} = {}
             ELSE alone[v] /\ v \notin {u \in Active : wpm[u].pkg = p}]
  BY DEF Start
<1> DEFINE c == IF op = "install" THEN "download" ELSE "remove"
           ns == IF aliases.whole THEN aliases.names ELSE {}
           r == [pc |-> c, op |-> op, pkg |-> p, at |-> 1, names |-> ns]
<1>3. w \notin Active /\ wpm' = [wpm EXCEPT ![w] = r]
      /\ UNCHANGED <<bin, downloads, aliases>> /\ clean' = (clean /\ Active = {})
  BY <1>2 DEF Active, Start, Here
<1>4. /\ c \in {"download", "remove"} /\ ns \in SUBSET RenamedOnes /\ 1 \in Nat \ {0}
      /\ c = "download" <=> op = "install"
      /\ aliases.whole => ns = aliases.names
  BY <1>1 DEF WpmTypes
<1>5. /\ r.pc = c /\ r.op = op /\ r.pkg = p /\ r.at = 1 /\ r.names = ns
  OBVIOUS
<1> HIDE DEF c, ns
<1>6. r \in WpmState BY <1>4 DEF WpmState
<1> HIDE DEF r
<1>7. /\ wpm' \in [WpmRuns -> WpmState] /\ wpm'[w] = r
      /\ \A v \in WpmRuns \ {w} : wpm'[v] = wpm[v]
  BY <1>1, <1>3, <1>6 DEF WpmTypes
<1>8. /\ \A v \in Active' : v = w \/ v \in Active
      /\ w \in WpmRuns /\ Active \subseteq WpmRuns
  BY <1>7 DEF Active
<1>9. /\ told' \in [DOMAIN Packages -> {"unknown", "installed", "removed"}]
      /\ told'[p] = "unknown" /\ \A q \in DOMAIN Packages \ {p} : told'[q] = told[q]
  BY <1>1, <1>2 DEF WpmTypes
<1>10. /\ alone' \in [WpmRuns -> BOOLEAN]
       /\ alone'[w] => \A u \in Active : wpm[u].pkg # p
       /\ \A v \in Active : alone'[v] => alone[v] /\ wpm[v].pkg # p
  <2>1. \A v \in WpmRuns : (alone[v] /\ v \notin {u \in Active : wpm[u].pkg = p}) \in BOOLEAN
                           /\ ({u \in Active : wpm[u].pkg = p} = {}) \in BOOLEAN
    OBVIOUS
  <2>2. alone' \in [WpmRuns -> BOOLEAN] BY <1>2, <2>1
  <2>3. alone'[w] => {u \in Active : wpm[u].pkg = p} = {} BY <1>2
  <2>4. ASSUME NEW v \in Active, alone'[v]
        PROVE  alone[v] /\ v \notin {u \in Active : wpm[u].pkg = p}
    BY <1>2, <1>3, <1>8, <2>4
  <2> QED BY <2>2, <2>3, <2>4
<1>11. WpmTypes' BY <1>1, <1>3, <1>7, <1>9, <1>10 DEF WpmTypes
<1>12. \A v \in Active' : v # w => v \in Active /\ wpm'[v] = wpm[v]
                                    /\ wpm[v].pkg \in DOMAIN Packages
  BY <1>1, <1>7, <1>8 DEF WpmTypes, WpmState
<1>13. NoRivals'
  <2>1. ASSUME NEW v \in Active', NEW u \in Active', v # u, alone'[u]
        PROVE  wpm'[v].pkg # wpm'[u].pkg
    <3>1. CASE u = w BY <1>5, <1>7, <1>10, <1>12, <2>1, <3>1
    <3>2. CASE u # w /\ v = w BY <1>5, <1>7, <1>10, <1>12, <2>1, <3>2
    <3>3. CASE u # w /\ v # w
      BY <1>1, <1>10, <1>12, <2>1, <3>3 DEF NoRivals
    <3> QED BY <3>1, <3>2, <3>3
  <2>2. ASSUME NEW v \in Active' PROVE told'[wpm'[v].pkg] = "unknown"
    <3>1. CASE v = w BY <1>5, <1>7, <1>9, <3>1
    <3>2. CASE v # w
      <4>1. told[wpm[v].pkg] = "unknown"
        BY <1>1, <1>12, <3>2 DEF NoRivals
      <4> QED BY <1>9, <1>12, <3>2, <4>1
    <3> QED BY <3>1, <3>2
  <2> QED BY <2>1, <2>2 DEF NoRivals
<1>14. ToldIsSo'
  <2>1. \A q \in DOMAIN Packages : told'[q] # "unknown" => told'[q] = told[q]
    BY <1>9
  <2> QED BY <1>1, <1>3, <2>1 DEF ToldIsSo
<1>15. ASSUME clean'
       PROVE  /\ \A v, u \in Active' : v = u
              /\ (\A v \in Active' : wpm'[v].pc # "saving") =>
                   aliases'.whole /\ Agrees(aliases.names)'
              /\ \A v \in Active' : /\ Agrees(wpm[v].names)'
                                    /\ ~Saving(wpm'[v]) => wpm'[v].names = aliases'.names
  <2>1. clean /\ Active = {} BY <1>3, <1>15
  <2>2. \A v \in Active' : v = w BY <1>8, <2>1
  <2>3. aliases.whole /\ Agrees(aliases.names)
    BY <1>1, <2>1 DEF AliasesAgree
  <2>4. Agrees(aliases.names)'
    <3>1. ASSUME NEW q \in DOMAIN Packages, told'[q] # "unknown"
          PROVE  q \in aliases.names <=> Renamed(q) /\ told'[q] = "installed"
      BY <1>9, <2>3, <3>1 DEF Agrees
    <3> QED BY <1>3, <3>1 DEF Agrees
  <2>5. wpm'[w].names = aliases'.names BY <1>3, <1>4, <1>5, <1>7, <2>3
  <2>6. Agrees(wpm[w].names)' BY <2>4, <2>5 DEF Agrees
  <2> QED BY <1>3, <2>2, <2>3, <2>4, <2>5, <2>6
<1>16. AliasesAgree' BY <1>15 DEF AliasesAgree
<1>17. ASSUME NEW v \in Active'
       PROVE  InPlace(wpm'[v]) /\ (alone'[v] => DoneSoFar(wpm'[v], bin', downloads'))
  <2>1. CASE v = w
    <3>1. Count(p) \in Nat \ {0} BY FilesOf
    <3>2. InPlace(r) BY <1>4, <1>5, <3>1 DEF InPlace, Fetching, Saving
    <3>3. \A i \in 1..r.at - 1 : FALSE BY <1>5
    <3>4. DoneSoFar(r, bin', downloads')
      BY <1>4, <1>5, <3>3 DEF DoneSoFar, Fetching, Saving
    <3> QED BY <1>7, <2>1, <3>2, <3>4
  <2>2. CASE v # w
    <3>1. v \in Active /\ wpm'[v] = wpm[v] /\ (alone'[v] => alone[v])
      BY <1>10, <1>12, <2>2
    <3>2. InPlace(wpm[v]) /\ (alone[v] => DoneSoFar(wpm[v], bin, downloads))
      BY <3>1 DEF WpmInv
    <3> QED BY <1>3, <3>1, <3>2
  <2> QED BY <2>1, <2>2
<1> QED BY <1>11, <1>13, <1>14, <1>16, <1>17 DEF WpmInv

-----------------------------------------------------------------------------
LEMMA WpmBegins == WpmInit => WpmInv
<1> SUFFICES ASSUME WpmInit PROVE WpmInv OBVIOUS
<1>1. Active = {} BY DEF WpmInit, Active, WpmIdle
<1>2. WpmTypes BY IdleIsState DEF WpmInit, WpmTypes
<1>3. NoRivals BY <1>1 DEF NoRivals
<1>4. \A p \in DOMAIN Packages : told[p] = "unknown" BY DEF WpmInit
<1>5. ToldIsSo BY <1>4 DEF ToldIsSo
<1>6. AliasesAgree BY <1>1, <1>4 DEF AliasesAgree, Agrees, WpmInit
<1> QED BY <1>1, <1>2, <1>3, <1>5, <1>6 DEF WpmInv

LEMMA WpmKeeps == WpmInv /\ [WpmNext]_wpmVars => WpmInv'
<1> SUFFICES ASSUME WpmInv, [WpmNext]_wpmVars PROVE WpmInv' OBVIOUS
<1>1. CASE UNCHANGED wpmVars
  BY <1>1 DEF wpmVars, WpmInv, WpmTypes, NoRivals, ToldIsSo, AliasesAgree, Agrees, Active
<1>2. CASE WpmNext
  <2> SUFFICES ASSUME NEW w \in WpmRuns,
                      \/ Start(w) \/ DownloadFails(w) \/ DownloadStarts(w) \/ DownloadEnds(w)
                      \/ CopyFails(w) \/ CopyStarts(w) \/ CopyEnds(w)
                      \/ RemoveFile(w) \/ RemoveAlias(w) \/ SaveStarts(w) \/ SaveEnds(w) \/ Kill(w)
               PROVE  WpmInv'
    BY <1>2 DEF WpmNext
  <2>1. clean \in BOOLEAN BY DEF WpmInv, WpmTypes
  <2>2. CASE DownloadFails(w) \/ CopyFails(w)
    <3>1. /\ w \in Active /\ wpm[w].pc # "saving" /\ Ends(w) /\ clean' = clean
          /\ UNCHANGED <<bin, downloads, aliases, told>>
      BY <2>2 DEF DownloadFails, CopyFails, Active, Here
    <3> QED BY <2>1, <3>1, StopKeeps
  <2>3. CASE Kill(w)
    <3>1. /\ w \in Active /\ Ends(w) /\ clean' = (clean /\ wpm[w].pc # "saving")
          /\ UNCHANGED <<bin, downloads, aliases, told>>
      BY <2>3 DEF Kill, Here
    <3> QED BY <2>1, <3>1, StopKeeps
  <2> QED
    BY <2>2, <2>3, WpmStartKeeps, DownloadStartsKeeps, DownloadEndsKeeps, CopyStartsKeeps,
       CopyEndsKeeps, RemoveFileKeeps, RemoveAliasKeeps, SaveStartsKeeps, SaveEndsKeeps
<1> QED BY <1>1, <1>2

\* The invariant says what the packages promise.
LEMMA PackagesAreAsTold == WpmInv => PackagesAsTold
<1> SUFFICES ASSUME WpmInv, NEW p \in DOMAIN Packages
             PROVE  /\ told[p] = "installed" =>
                         \A i \in 1..Len(Files(p)) :
                           (Renamed(p) => i = Len(Files(p))) => bin[Dest(p, i)] = Files(p)[i]
                    /\ told[p] = "removed" => \A i \in 1..Len(Files(p)) : bin[Dest(p, i)] = Absent
                    /\ clean /\ told[p] # "unknown" /\ Active = {} =>
                         aliases.whole /\ (p \in aliases.names <=> Renamed(p) /\ told[p] = "installed")
  BY DEF PackagesAsTold
<1>1. ToldIsSo /\ AliasesAgree BY DEF WpmInv
<1>2. /\ told[p] = "installed" => Installed(p, bin)
      /\ told[p] = "removed" => Removed(p, bin)
  BY <1>1 DEF ToldIsSo
<1>3. clean /\ told[p] # "unknown" /\ Active = {} =>
        aliases.whole /\ (p \in aliases.names <=> Renamed(p) /\ told[p] = "installed")
  BY <1>1 DEF AliasesAgree, Agrees
<1> QED BY <1>2, <1>3 DEF Installed, Removed, Count

-----------------------------------------------------------------------------
(***************************************************************************)
(* The composition.  A step of one machine leaves the others as they are.  *)
(***************************************************************************)
PartsInv ==
  VecInv /\ TimeoutInv /\ TeeInv /\ CaptureInv /\ CacheInv /\ LineInv /\ WpmInv

LEMMA PartsBegins ==
  ASSUME PartsInit
  PROVE  PartsInv /\ VecInit
<1>1. VecInit /\ CaptureInit /\ CacheInit /\ LineInit /\ WpmInit /\ TimeoutInit /\ TeeInit
  BY DEF PartsInit
<1> QED
  BY <1>1, InitRefines, TimeoutBegins, TeeBegins, CaptureBegins, CacheBegins, LineBegins,
     WpmBegins DEF PartsInv

LEMMA OneMoves ==
  ASSUME [PartsNext]_partsVars
  PROVE  /\ [VecNext]_vecVars /\ [TimeoutNext]_timeoutVars /\ [TeeNext]_teeVars
         /\ [CaptureNext]_captureVars /\ [CacheNext]_cacheVars /\ [LineNext]_lineVars
         /\ [WpmNext]_wpmVars
BY DEF PartsNext, partsVars

LEMMA PartsKeeps ==
  ASSUME PartsInv, [PartsNext]_partsVars
  PROVE  PartsInv'
<1>1. /\ [VecNext]_vecVars /\ [TimeoutNext]_timeoutVars /\ [TeeNext]_teeVars
      /\ [CaptureNext]_captureVars /\ [CacheNext]_cacheVars /\ [LineNext]_lineVars
      /\ [WpmNext]_wpmVars
  BY OneMoves
<1>2. VecInv /\ TimeoutInv /\ TeeInv /\ CaptureInv /\ CacheInv /\ LineInv /\ WpmInv
  BY DEF PartsInv
<1> QED
  BY <1>1, <1>2, StepRefines, TimeoutKeeps, TeeKeeps, CaptureKeeps, CacheKeeps, LineKeeps,
     WpmKeeps DEF PartsInv

\* Every machine keeps its invariant, whichever one runs.
THEOREM PartsInvariant == PartsSpec => []PartsInv
<1>1. PartsInit => PartsInv BY PartsBegins
<1>2. PartsInv /\ [PartsNext]_partsVars => PartsInv' BY PartsKeeps
<1> QED BY <1>1, <1>2, PTL DEF PartsSpec

\* No block is leaked, freed twice or shared, and no element is written outside
\* the storage, for any number of vectors, any inline size and any sequence of
\* constructions, moves, assignments and growths (SmallVector.h).
THEOREM StorageAlwaysSound == PartsSpec => []StorageSound
<1>1. PartsInv => StorageSound BY DEF PartsInv, VecInv, StorageSound
<1> QED BY <1>1, PartsInvariant, PTL

\* SmallVector implements the vectors of Vectors, operation by operation.
THEOREM VectorsImplemented == PartsSpec => ImplementsVectors
<1>1. PartsInit => Abs!VectorsInit BY InitRefines, PartsBegins
<1>2. PartsInv /\ [PartsNext]_partsVars => [Contents' # Contents => Abs!VectorsNext]_Contents
  BY StepRefines, OneMoves DEF PartsInv
<1>3. PartsInv /\ [PartsNext]_partsVars => [vecVars' # vecVars => OperationsRefine]_vecVars
  BY EachRefines DEF PartsInv
<1> QED
  BY <1>1, <1>2, <1>3, PartsInvariant, PTL DEF PartsSpec, ImplementsVectors, Abs!VectorsSpec

\* timeout's status tells how its command ended, for any duration, and a status
\* 0 of tee says that every file has all the input, for any operands and any
\* failures to open or to write (timeout.cpp, tee.cpp).
THEOREM StatusesTrue == PartsSpec => []StatusesAreTrue
<1>1. PartsInv => StatusesAreTrue
  BY DEF PartsInv, TimeoutInv, TeeInv, StatusesAreTrue
<1> QED BY <1>1, PartsInvariant, PTL

\* A call of the library that no other one overlapped returns all its command
\* printed and nothing else, also after calls that did overlap, for any number
\* of callers, outputs and pipe sizes (ffi.cpp: winux_execute).
THEOREM CapturesOwnOutput == PartsSpec => []CapturedIsOwn
<1>1. PartsInv => CapturedIsOwn BY CaptureIsOwn DEF PartsInv
<1> QED BY <1>1, PartsInvariant, PTL

\* The completions a shell ends up with are of one version of the source, no
\* older than it found, for any number of shells that load and write the one
\* cache, are killed and come again, and see the source edited; unless two of
\* them wrote different data together (native_completion.h).
THEOREM CompletionsAlwaysCurrent == PartsSpec => []CompletionsCurrent
<1>1. PartsInv => CompletionsCurrent BY CacheIsCurrent DEF PartsInv
<1> QED BY <1>1, PartsInvariant, PTL

\* No key tears a character or loses the line that was being typed, for any
\* characters, pastes and lengths of line and history (readline.h).
THEOREM LineAlwaysIntact == PartsSpec => []LineIntact
<1>1. PartsInv => LineIntact BY LineStaysIntact DEF PartsInv
<1> QED BY <1>1, PartsInvariant, PTL

\* What wpm said of a package is so, for any packages that share no name, any
\* number of runs at once, and whatever fails or is killed (wpm.cpp).
THEOREM PackagesAlwaysAsTold == PartsSpec => []PackagesAsTold
<1>1. PartsInv => PackagesAsTold BY PackagesAreAsTold DEF PartsInv
<1> QED BY <1>1, PartsInvariant, PTL

-----------------------------------------------------------------------------
(***************************************************************************)
(* TailFollow, for every number of writes and every setting: following one *)
(* file by name prints what is appended once and in order; and, for any    *)
(* files followed and whatever happens to them, tail measures and reads    *)
(* open streams only and every state keeps its type.                       *)
(***************************************************************************)
\* The case the theorem is about: one operand, by name, and a file that only grows.
Simple == opts.byName /\ Len(operands) = 1 /\ churn = 0

Operand == operands[1]

\* Nothing beyond position k has been printed.
Fresh(k) == \A c \in Chunks : c > k => timesOut[c] = 0

Settled == opts \in Options /\ operands \in Operands /\ churn \in Nat

\* There is one file at most, and it holds the chunks in the order of their numbers.
OneFile ==
    /\ files \in [Paths -> Nat]
    /\ writes \in Nat
    /\ data \in Seq(Seq(Nat))
    /\ files[Operand] = Len(data)
    /\ Len(data) = 0 => writes = 0
    /\ Len(data) # 0 =>
         /\ Len(data) = 1 /\ Len(data[1]) = writes
         /\ \A k \in 1..writes : data[1][k] = k

State == [valid : BOOLEAN, id : Nat, fs : Nat, pos : Nat, unchanged : Nat]

FollowPlaces == {"show", "start", "check", "poll", "open", "restat", "read", "done"}

FollowPlace ==
    /\ pc \in FollowPlaces /\ fileNo = 1
    /\ follow = IF pc = "show" THEN <<>> ELSE operands
    /\ st \in [Paths -> State]
    /\ timesOut \in [Chunks -> 0..Twice]

\* What was printed lies before the read position, and the file is the one that
\* was found; one that has not been found was not read.
Position ==
    /\ pc = "show" => Fresh(0)
    /\ pc = "start" => Fresh(writes)
    /\ pc \in {"check", "poll", "open", "restat"} =>
         /\ st[Operand].pos <= writes
         /\ Fresh(st[Operand].pos)
    /\ pc \in {"check", "poll", "open", "restat", "read"} =>
         /\ st[Operand].id <= Len(data)
         /\ st[Operand].id = 0 => st[Operand].pos = 0 /\ pc \notin {"open", "read"}
    /\ pc = "read" => inRead.id = 1 /\ inRead.at \in 0..writes /\ Fresh(inRead.at)

FInv == Settled /\ (Simple => OneFile /\ FollowPlace /\ Position)

LEMMA SettledInit == TailInit => Settled
BY DEF TailInit, Settled

LEMMA SettledStep ==
    ASSUME Settled, [TailNext]_tailVars
    PROVE  Settled' /\ churn' >= churn /\ UNCHANGED <<opts, operands>>
<1> USE DEF Settled
<1>1. Poller => UNCHANGED <<opts, operands, churn>>
  BY DEF Poller, world, Local, ShowFile, ShowMissing, ShownOne, StartByName,
     StartByDescriptor, StartMissing, StartFile, StartWithout, StartLater, Wait, Check,
     StatGone, StatOther, StatResized, StatUnchanged, Restat, OpenByName, CannotOpen,
     Reacquire, StillMissing, Shrunk, Reappears, PassOver, StatEach, Reopen, ReopenFails,
     Measure, Read, EndOfFile
<1>2. World => UNCHANGED <<opts, operands>> /\ churn' \in {churn, churn + 1}
  BY DEF World, tail, Write, CutShort, Create, Replace, Unlink, Die, NewFile
<1>3. UNCHANGED tailVars => UNCHANGED <<opts, operands, churn>>
  BY DEF tailVars
<1> QED BY <1>1, <1>2, <1>3 DEF TailNext

LEMMA OperandIsPath ==
    ASSUME Settled, Simple
    PROVE  Operand \in Paths /\ Range(operands) = {Operand}
<1>1. operands \in Seq(Paths) /\ Len(operands) = 1
  BY TailAssumption DEF Settled, Simple
<1>2. DOMAIN operands = {1} BY <1>1, LenProperties
<1>3. Operand \in Paths
  <2>1. 1 \in 1..Len(operands) BY <1>1
  <2> QED BY <1>1, <2>1, ElementOfSeq DEF Operand
<1> QED BY <1>2, <1>3 DEF Operand, Range

LEMMA FInvInit == TailInit => FInv
<1> SUFFICES ASSUME TailInit, Simple PROVE OneFile /\ FollowPlace /\ Position
  BY SettledInit DEF FInv
<1>1. Operand \in Paths BY SettledInit, OperandIsPath
<1>2. OneFile BY <1>1 DEF TailInit, OneFile, None
<1>3. FollowPlace
  BY DEF TailInit, FollowPlace, FollowPlaces, State, NoState, None, Twice
<1>4. Position BY DEF TailInit, Position, Fresh
<1> QED BY <1>2, <1>3, <1>4

\* What a Printed step does to what has not been printed.
LEMMA PrintedFacts ==
    ASSUME NEW chunks, timesOut \in [Chunks -> 0..Twice], Printed(chunks)
    PROVE  /\ timesOut' \in [Chunks -> 0..Twice]
           /\ \A c \in Chunks : c \notin chunks => timesOut'[c] = timesOut[c]
BY DEF Printed, Twice

\* The steps of tail that one file followed by name can take.
LEMMA OnlyThese ==
    ASSUME Settled, Simple, FollowPlace, Poller
    PROVE  \/ ShowFile \/ ShowMissing \/ StartByName \/ Check
           \/ StatGone \/ StatOther \/ StatResized \/ StatUnchanged \/ Restat
           \/ OpenByName \/ CannotOpen \/ Read \/ EndOfFile
<1>1. ~Multi
  <2>1. CASE pc = "show" BY <2>1 DEF FollowPlace, Multi
  <2>2. CASE pc # "show"
    <3>1. follow = operands /\ Len(operands) = 1
      BY <2>2 DEF FollowPlace, Simple
    <3> QED BY <3>1 DEF Multi
  <2> QED BY <2>1, <2>2
<1>2. opts.byName BY DEF Simple
<1>3. pc \notin {"wait", "reopen", "measure"}
  BY DEF FollowPlace, FollowPlaces
<1> QED
  BY <1>1, <1>2, <1>3
     DEF Poller, StartByDescriptor, StartMissing, StartFile, StartWithout, StartLater,
         Wait, Reacquire, StillMissing, Shrunk, ByDescriptor, Reappears, PassOver,
         StatEach, Reopen, ReopenFails, Measure

\* One file: after its turn comes the next iteration.
LEMMA NextTurn ==
    ASSUME Settled, Simple, FollowPlace, pc # "show"
    PROVE  /\ Path = Operand /\ Operand \in Paths /\ Mine = st[Operand] /\ Mine \in State
           /\ There = files[Operand]
           /\ Onward => fileNo' = 1 /\ pc' = "check"
<1>1. follow = operands /\ fileNo = 1 /\ Len(follow) = 1
  BY DEF FollowPlace, Simple
<1>2. Path = Operand /\ Operand \in Paths
  BY <1>1, OperandIsPath DEF Path, Operand
<1>3. Mine = st[Operand] /\ Mine \in State /\ There = files[Operand]
  BY <1>2 DEF Mine, There, get_file_state, FollowPlace
<1>4. Onward => fileNo' = 1 /\ pc' = "check" BY <1>1 DEF Onward, GoOn
<1> QED BY <1>2, <1>3, <1>4

\* tail changes neither what it was told nor the files.
LEMMA TailKeepsFiles ==
    ASSUME Settled, Simple, FollowPlace, Poller
    PROVE  UNCHANGED <<opts, operands, files, data, writes>>
BY OnlyThese
   DEF world, Local, ShowFile, ShowMissing, ShownOne, StartByName, Check, StatGone,
       StatOther, StatResized, StatUnchanged, Restat, OpenByName, CannotOpen, Read, EndOfFile

\* A read prints the chunk at the read position, which is the one of that number.
LEMMA ReadPrints ==
    ASSUME Settled, Simple, OneFile, FollowPlace, Position, Read
    PROVE  /\ inRead.at \in 0..writes /\ Fresh(inRead.at) /\ inRead.at + 1 \in 1..writes
           /\ Printed({inRead.at + 1})
           /\ \A c \in Chunks : timesOut'[c] # timesOut[c] => c = inRead.at + 1
<1>1. /\ inRead.id = 1 /\ inRead.at \in 0..writes /\ Fresh(inRead.at) /\ inRead.at < Size(1)
      /\ st[Operand].id <= Len(data) /\ st[Operand].id # 0 /\ Printed({data[1][inRead.at + 1]})
  BY DEF Read, Position
<1>2. Len(data) # 0
  <2>1. st[Operand] \in State /\ Len(data) \in Nat
    BY OperandIsPath DEF FollowPlace, OneFile
  <2> QED BY <1>1, <2>1 DEF State
<1>3. Size(1) = writes /\ writes \in Nat BY <1>2 DEF OneFile, Size
<1>4. inRead.at + 1 \in 1..writes BY <1>1, <1>3
<1>5. data[1][inRead.at + 1] = inRead.at + 1 BY <1>2, <1>4 DEF OneFile
<1> QED BY <1>1, <1>4, <1>5, PrintedFacts DEF FollowPlace

LEMMA TailSteps ==
    ASSUME Settled, Simple, OneFile, FollowPlace, Position, Poller
    PROVE  FollowPlace' /\ Position'
<1>1. UNCHANGED <<opts, operands, files, data, writes>> /\ Operand' = Operand
  BY TailKeepsFiles DEF Operand
<1>2. /\ Operand \in Paths /\ files[Operand] = Len(data) /\ Len(data) \in {0, 1}
      /\ fileNo = 1 /\ pc \in FollowPlaces /\ st \in [Paths -> State] /\ writes \in Nat
      /\ timesOut \in [Chunks -> 0..Twice] /\ st[Operand] \in State
  BY OperandIsPath DEF OneFile, FollowPlace
<1>3. Len(data) = 1 => Size(1) = writes BY DEF OneFile, Size
<1>4. CASE ShowFile \/ ShowMissing
  <2>1. pc = "show" /\ follow = <<>> /\ operands[fileNo] = Operand /\ Len(operands) = 1
    BY <1>2, <1>4 DEF ShowFile, ShowMissing, FollowPlace, Simple, Operand
  <2>2. follow' = operands
    <3>1. follow' = Append(<<>>, operands[1])
      BY <1>2, <1>4, <2>1 DEF ShowFile, ShowMissing, ShownOne
    <3>2. operands = <<operands[1]>> BY <2>1, TailAssumption DEF Settled
    <3> QED BY <3>1, <3>2
  <2>3. pc' = "start" /\ fileNo' = 1 /\ st' = st
    BY <1>2, <1>4, <2>1 DEF ShowFile, ShowMissing, ShownOne, GoOn
  <2>4. timesOut' \in [Chunks -> 0..Twice]
    BY <1>2, <1>4, PrintedFacts DEF ShowFile, ShowMissing
  <2>5. Fresh(writes)'
    <3>1. CASE ShowMissing
      BY <1>1, <1>2, <2>1, <3>1 DEF ShowMissing, Fresh, Position, Chunks
    <3>2. CASE ShowFile
      <4>1. Len(data) = 1 /\ Printed(output_tail(1))
        BY <1>2, <2>1, <3>2 DEF ShowFile, get_file_state, None
      <4>2. \A c \in output_tail(1) : c <= writes
        BY <1>3, <4>1 DEF output_tail, OneFile
      <4>3. \A c \in Chunks : c > writes => c \notin output_tail(1)
        BY <1>2, <4>2 DEF Chunks
      <4> QED
        BY <1>1, <1>2, <2>1, <4>1, <4>3, PrintedFacts DEF Fresh, Position, Chunks
    <3> QED BY <1>4, <3>1, <3>2
  <2>6. FollowPlace'
    BY <1>1, <1>2, <2>2, <2>3, <2>4 DEF FollowPlace, FollowPlaces
  <2> QED BY <2>3, <2>5, <2>6 DEF Position
<1>5. CASE pc # "show"
  <2>1. /\ Path = Operand /\ Mine = st[Operand] /\ Mine \in State
        /\ There = Len(data)
        /\ Onward => fileNo' = 1 /\ pc' = "check"
    BY <1>2, <1>5, NextTurn
  <2>2. \A s \in State : Set(s) => st' \in [Paths -> State] /\ st'[Operand] = s
    BY <1>2, <2>1 DEF Set
  <2>3. ASSUME NEW s \in State, NEW l \in {"check", "poll", "open", "restat"},
               st' \in [Paths -> State], st'[Operand] = s, pc' = l, fileNo' = fileNo,
               follow' = follow, timesOut' = timesOut,
               s.pos <= writes, Fresh(s.pos), s.id <= Len(data),
               s.id = 0 => s.pos = 0 /\ l # "open"
        PROVE  FollowPlace' /\ Position'
    <3>1. FollowPlace'
      BY <1>1, <1>2, <1>5, <2>3 DEF FollowPlace, FollowPlaces
    <3>2. Fresh(s.pos)' BY <2>3 DEF Fresh
    <3> QED BY <1>1, <2>3, <3>1, <3>2 DEF Position
  <2>4. CASE StartByName
    <3>1. /\ pc = "start" /\ pc' = "check" /\ fileNo' = fileNo /\ follow' = follow
          /\ timesOut' = timesOut /\ Fresh(writes)
      BY <2>4 DEF StartByName, GoOn, Position
    <3>2. CASE There = None
      <4>1. NoState \in State /\ NoState.pos = 0 /\ NoState.id = 0
        BY DEF NoState, State, None
      <4>2. st' \in [Paths -> State] /\ st'[Operand] = NoState
        BY <2>2, <2>4, <3>2, <4>1 DEF StartByName
      <4>3. Fresh(0) BY <1>2, <2>1, <3>1, <3>2 DEF OneFile, None
      <4> QED BY <1>2, <2>3, <3>1, <4>1, <4>2, <4>3
    <3>3. CASE There # None
      <4>1. PICK s : s = [NoState EXCEPT !.id = There, !.pos = Size(There)]
        OBVIOUS
      <4>2. There = 1 /\ Size(There) = writes
        BY <1>2, <1>3, <2>1, <3>3 DEF None
      <4>3. s \in State /\ s.id = 1 /\ s.pos = writes
        BY <1>2, <4>1, <4>2 DEF NoState, State, None
      <4>4. Set(s) BY <2>4, <3>3, <4>1 DEF StartByName
      <4> QED BY <1>2, <2>1, <2>2, <2>3, <3>1, <4>2, <4>3, <4>4
    <3> QED BY <3>2, <3>3
  <2>5. ASSUME pc' = "done", fileNo' = fileNo, follow' = follow, timesOut' = timesOut, st' = st
        PROVE  FollowPlace' /\ Position'
    BY <1>1, <1>2, <1>5, <2>5 DEF FollowPlace, FollowPlaces, Position
  <2>6. pc \in {"check", "poll", "open", "restat"} =>
          /\ Mine.pos <= writes /\ Fresh(Mine.pos) /\ Mine.id <= Len(data)
          /\ Mine.id = 0 => Mine.pos = 0 /\ pc # "open"
          /\ Mine.id \in Nat /\ Mine.pos \in Nat
    BY <2>1 DEF Position, State
  <2>7. CASE Check \/ StatGone \/ CannotOpen
    <3>1. /\ fileNo' = fileNo /\ follow' = follow /\ timesOut' = timesOut /\ st' = st
          /\ pc \in {"check", "poll", "open"} /\ pc' \in {"check", "poll", "done"}
      BY <2>7 DEF Check, StatGone, CannotOpen, Local, GoOn
    <3>2. CASE pc' = "done" BY <2>5, <3>1, <3>2
    <3>3. CASE pc' \in {"check", "poll"}
      <4>1. st' \in [Paths -> State] /\ st'[Operand] = Mine
        BY <1>2, <2>1, <3>1
      <4> QED BY <2>1, <2>3, <2>6, <3>1, <3>3, <4>1
    <3> QED BY <3>1, <3>2, <3>3
  <2>8. CASE StatOther \/ (Restat /\ There # Mine.id)
    <3>1. /\ fileNo' = fileNo /\ follow' = follow /\ timesOut' = timesOut
          /\ pc \in {"poll", "restat"} /\ pc' = "open" /\ There # Mine.id
          /\ Set(Afresh)
      BY <2>8 DEF StatOther, Restat, Local, GoOn
    <3>2. PICK s : s = [Mine EXCEPT !.id = 1, !.pos = 0, !.unchanged = 0]
      OBVIOUS
    <3>3. Mine.id = 0 /\ There = 1
      BY <1>2, <2>1, <2>6, <3>1, <2>8 DEF StatOther, Restat, None
    <3>4. s \in State /\ s.pos = 0 /\ s.id = 1 BY <2>1, <3>2 DEF State
    <3>5. Fresh(0) BY <2>6, <3>1, <3>3
    <3>6. Set(s) BY <3>1, <3>2, <3>3 DEF Afresh
    <3> QED BY <1>2, <2>1, <2>2, <2>3, <3>1, <3>3, <3>4, <3>5, <3>6
  <2>9. CASE StatResized \/ StatUnchanged \/ (Restat /\ There = Mine.id)
    <3>1. /\ fileNo' = fileNo /\ follow' = follow /\ timesOut' = timesOut
          /\ pc \in {"poll", "restat"} /\ pc' \in {"open", "check", "restat"}
          /\ pc' = "open" => There # None /\ There = Mine.id
          /\ Set([Mine EXCEPT !.unchanged = 0]) \/ Set(Counted)
      BY <2>9 DEF StatResized, StatUnchanged, Restat, Local, GoOn
    <3>2. PICK s : Set(s) /\ (s = [Mine EXCEPT !.unchanged = 0] \/ s = Counted)
      BY <3>1
    <3>3. s \in State /\ s.pos = Mine.pos /\ s.id = Mine.id
      BY <2>1, <3>2 DEF Counted, State
    <3> QED BY <2>2, <2>3, <2>6, <3>1, <3>2, <3>3 DEF None
  <2>10. CASE OpenByName
    <3>1. /\ pc = "open" /\ There = 1 /\ Len(data) = 1 /\ Size(1) = writes
          /\ fileNo' = fileNo /\ follow' = follow /\ timesOut' = timesOut
          /\ Mine.id = 1
      BY <1>2, <1>3, <2>1, <2>6, <2>10 DEF OpenByName, None
    <3>2. CASE Size(There) > Mine.pos
      <4>1. /\ inRead' = [id |-> 1, at |-> Mine.pos, end |-> writes]
            /\ pc' = "read" /\ st' = st
        BY <2>10, <3>1, <3>2 DEF OpenByName, Reading, GoOn
      <4>2. FollowPlace'
        BY <1>1, <1>2, <1>5, <3>1, <4>1 DEF FollowPlace, FollowPlaces
      <4>3. inRead'.id = 1 /\ inRead'.at = Mine.pos BY <4>1
      <4>4. Fresh(inRead.at)' BY <2>6, <3>1, <4>3 DEF Fresh
      <4> QED
        BY <1>1, <1>2, <2>1, <2>6, <3>1, <4>1, <4>2, <4>3, <4>4 DEF Position
    <3>3. CASE ~(Size(There) > Mine.pos)
      <4>1. PICK s : s = [Mine EXCEPT !.pos = Checked(There)] OBVIOUS
      <4>2. Set(s) /\ pc' = "check"
        BY <2>10, <3>3, <4>1 DEF OpenByName, GoOn
      <4>3. Checked(There) = Mine.pos BY <1>2, <2>6, <3>1 DEF Checked
      <4>4. s \in State /\ s.pos = Mine.pos /\ s.id = Mine.id
        BY <2>1, <4>1, <4>3 DEF State
      <4> QED BY <2>2, <2>3, <2>6, <3>1, <4>2, <4>4
    <3> QED BY <3>2, <3>3
  <2>11. CASE Read
    <3>1. /\ pc = "read" /\ pc' = "read" /\ fileNo' = fileNo /\ follow' = follow /\ st' = st
          /\ inRead.id = 1 /\ inRead.at \in 0..writes /\ Fresh(inRead.at) /\ inRead.at < Size(1)
          /\ inRead'.at = inRead.at + 1 /\ inRead'.id = 1
          /\ st[Operand].id <= Len(data) /\ st[Operand].id # 0
      BY <2>11 DEF Read, Position
    <3>3. inRead.at + 1 \in 1..writes /\ Printed({inRead.at + 1})
      BY <2>11, ReadPrints
    <3>4. timesOut' \in [Chunks -> 0..Twice] /\ Fresh(inRead.at)'
      BY <1>2, <3>1, <3>3, PrintedFacts DEF Fresh, Chunks
    <3>5. FollowPlace'
      BY <1>1, <1>2, <1>5, <3>1, <3>4 DEF FollowPlace, FollowPlaces
    <3> QED BY <1>1, <1>2, <3>1, <3>3, <3>4, <3>5 DEF Position
  <2>12. CASE EndOfFile
    <3>1. /\ pc = "read" /\ fileNo = 1 /\ fileNo' = 1 /\ pc' = "check" /\ follow' = follow
          /\ timesOut' = timesOut /\ inRead.at \in 0..writes /\ Fresh(inRead.at)
          /\ st[Operand].id <= Len(data) /\ st[Operand].id # 0
          /\ Set([Mine EXCEPT !.pos = EndPos])
      BY <1>2, <2>1, <2>12 DEF EndOfFile, Position
    <3>2. EndPos = inRead.at
      <4>1. ByName
        <5>1. follow = operands /\ Len(operands) = 1 /\ opts.byName
          BY <1>5 DEF FollowPlace, Simple
        <5> QED BY <5>1 DEF ByName, Multi
      <4> QED BY <4>1 DEF EndPos
    <3>3. PICK s, at : at = inRead.at /\ s = [Mine EXCEPT !.pos = at]
      OBVIOUS
    <3>4. at \in Nat BY <1>2, <3>1, <3>3
    <3>5. s \in State /\ s.pos = at /\ s.id = Mine.id
      BY <2>1, <3>3, <3>4 DEF State
    <3>6. Set(s) BY <3>1, <3>2, <3>3
    <3>7. st' \in [Paths -> State] /\ st'[Operand] = s
      BY <2>2, <3>5, <3>6
    <3>8. s.pos <= writes /\ Fresh(s.pos) /\ s.id <= Len(data) /\ s.id # 0
      BY <1>2, <2>1, <3>1, <3>3, <3>5
    <3>9. fileNo' = fileNo BY <3>1
    <3> QED BY <2>3, <3>1, <3>5, <3>7, <3>8, <3>9
  <2> QED
    BY <1>5, <2>4, <2>7, <2>8, <2>9, <2>10, <2>11, <2>12, OnlyThese
       DEF ShowFile, ShowMissing
<1>6. pc = "show" => ShowFile \/ ShowMissing
  BY OnlyThese
     DEF StartByName, Check, StatGone, StatOther, StatResized, StatUnchanged, Restat,
         OpenByName, CannotOpen, Read, EndOfFile
<1> QED BY <1>4, <1>5, <1>6

LEMMA WorldSteps ==
    ASSUME Settled, Simple, Simple', OneFile, FollowPlace, Position, World
    PROVE  OneFile' /\ FollowPlace' /\ Position'
<1>1. /\ UNCHANGED <<opts, operands, pc, fileNo, follow, st, inRead, timesOut>>
      /\ Operand' = Operand
  BY DEF World, tail, Write, CutShort, Create, Replace, Unlink, Die, NewFile, Operand
<1>2. FollowPlace' BY <1>1 DEF FollowPlace
<1>3. /\ Operand \in Paths /\ files \in [Paths -> Nat] /\ files[Operand] = Len(data)
      /\ data \in Seq(Seq(Nat)) /\ Len(data) \in {0, 1} /\ writes \in Nat
  BY OperandIsPath DEF OneFile
<1>4. Write \/ Create \/ Die
  BY DEF World, CutShort, Replace, Unlink, Simple
<1>5. CASE Die
  <2>1. UNCHANGED <<files, data, writes>> BY <1>5 DEF Die
  <2> QED BY <1>1, <1>2, <2>1 DEF OneFile, Position, Fresh
<1>6. CASE Write
  <2>1. /\ data' = [data EXCEPT ![1] = Append(data[1], writes + 1)]
        /\ Len(data) = 1 /\ writes' = writes + 1 /\ files' = files
    <3>1. PICK id \in DOMAIN data : data' = [data EXCEPT ![id] = Append(@, writes + 1)]
      BY <1>6 DEF Write
    <3>2. id = 1 /\ Len(data) = 1 BY <1>3, <3>1, LenProperties
    <3> QED BY <1>6, <3>1, <3>2 DEF Write
  <2>2. /\ data[1] \in Seq(Nat) /\ Len(data[1]) = writes
        /\ \A k \in 1..writes : data[1][k] = k
    <3>1. 1 \in 1..Len(data) BY <2>1
    <3>2. data[1] \in Seq(Nat) BY <1>3, <3>1, ElementOfSeq
    <3> QED BY <2>1, <3>2 DEF OneFile
  <2>3. PICK t : t = Append(data[1], writes + 1) OBVIOUS
  <2>4. /\ t \in Seq(Nat) /\ Len(t) = writes + 1
        /\ \A k \in 1..writes + 1 : t[k] = k
    <3>1. writes + 1 \in Nat BY <1>3
    <3>2. /\ t \in Seq(Nat) /\ Len(t) = writes + 1
          /\ \A k \in 1..writes : t[k] = k
          /\ t[writes + 1] = writes + 1
      BY <2>2, <2>3, <3>1, AppendFacts
    <3> QED BY <1>3, <3>2
  <2>5. data' \in Seq(Seq(Nat)) /\ Len(data') = 1 /\ data'[1] = t
    <3>1. 1 \in 1..Len(data) /\ data' = [data EXCEPT ![1] = t]
      BY <2>1, <2>3
    <3>2. data' \in Seq(Seq(Nat)) /\ Len(data') = Len(data)
      BY <1>3, <2>4, <3>1, ExceptSeq
    <3>3. data'[1] = t BY <1>3, <3>1, LenProperties
    <3> QED BY <2>1, <3>2, <3>3
  <2>6. OneFile' BY <1>1, <1>3, <2>1, <2>4, <2>5 DEF OneFile
  <2>7. Position'
    <3>2. st[Operand].pos \in Nat /\ st[Operand] \in State
      BY <1>3 DEF FollowPlace, State
    <3>3. Fresh(writes) => Fresh(writes)'
      <4>1. \A c \in Chunks : c \in Nat BY TailAssumption DEF Chunks
      <4> QED BY <1>1, <1>3, <2>1, <4>1 DEF Fresh
    <3>4. pc \in {"check", "poll", "open", "restat"} =>
            st[Operand].pos \in 0..writes /\ Fresh(st[Operand].pos)'
      BY <1>1, <1>3, <3>2 DEF Position, Fresh
    <3>5. pc = "read" => inRead.at \in 0..writes' /\ Fresh(inRead.at)'
      BY <1>1, <1>3, <2>1 DEF Position, Fresh
    <3>6. pc = "show" => Fresh(0)' BY <1>1 DEF Position, Fresh
    <3>7. writes <= writes' /\ Len(data') = Len(data)
      BY <1>3, <2>1, <2>5
    <3>8. pc = "start" => Fresh(writes)' BY <3>3 DEF Position
    <3>9. pc \in {"check", "poll", "open", "restat"} => st[Operand].pos <= writes'
      BY <1>3, <2>1, <3>2, <3>4
    <3>10. UNCHANGED st[Operand] BY <1>1
    <3> QED BY <1>1, <3>4, <3>5, <3>6, <3>7, <3>8, <3>9, <3>10 DEF Position
  <2> QED BY <1>2, <2>6, <2>7
<1>7. CASE Create
  <2>1. files[Operand] = 0 /\ NewFile(Operand)
    BY <1>7, OperandIsPath DEF Create, None
  <2>2. /\ files' = [files EXCEPT ![Operand] = 1] /\ data' = Append(data, <<>>)
        /\ writes' = writes /\ writes = 0 /\ Len(data) = 0
    <3>1. Len(data) = 0 /\ writes = 0 BY <1>3, <2>1 DEF OneFile
    <3> QED BY <2>1, <3>1 DEF NewFile
  <2>3. /\ data' \in Seq(Seq(Nat)) /\ Len(data') = 1 /\ data'[1] = <<>>
    BY <1>3, <2>2, AppendFacts, EmptySeq
  <2>4. OneFile' BY <1>1, <1>3, <2>2, <2>3 DEF OneFile
  <2>5. Position'
    BY <1>1, <1>3, <2>2, <2>3 DEF Position, Fresh, FollowPlace, State
  <2> QED BY <1>2, <2>4, <2>5
<1> QED BY <1>4, <1>5, <1>6, <1>7

LEMMA FInvStep == FInv /\ [TailNext]_tailVars => FInv'
<1> SUFFICES ASSUME FInv, [TailNext]_tailVars PROVE FInv' OBVIOUS
<1>1. Settled /\ Settled' /\ churn' >= churn BY SettledStep DEF FInv
<1>2. CASE ~Simple' BY <1>1, <1>2 DEF FInv
<1>3. CASE Simple'
  <2>1. UNCHANGED <<opts, operands>> BY SettledStep DEF FInv
  <2>2. Simple /\ OneFile /\ FollowPlace /\ Position
    BY <1>1, <1>3, <2>1 DEF Simple, Settled, FInv
  <2>3. CASE Poller
    <3>1. UNCHANGED <<operands, files, data, writes>>
      BY <1>1, <2>2, <2>3, TailKeepsFiles
    <3>2. OneFile' BY <2>2, <3>1 DEF OneFile, Operand
    <3> QED BY <1>1, <2>2, <2>3, <3>2, TailSteps DEF FInv
  <2>4. CASE World BY <1>1, <1>3, <2>2, <2>4, WorldSteps DEF FInv
  <2>5. CASE UNCHANGED tailVars
    BY <1>1, <2>2, <2>5 DEF FInv, tailVars, OneFile, FollowPlace, Position, Fresh, Operand
  <2> QED BY <2>3, <2>4, <2>5 DEF TailNext
<1> QED BY <1>2, <1>3

\* What one file followed by name gets appended is printed once and in order, for
\* every number of writes and all settings: follow_single_file remembers how far
\* it read, not the size it was told (read_file_data_win32).
THEOREM PrintsOnceInOrder == TailSpec => OnceInOrder
<1> DEFINE A == \A c \in Chunks :
                  /\ opts.byName /\ Len(operands) = 1 /\ churn' = 0
                  /\ timesOut'[c] # timesOut[c]
                  => \A d \in c..MaxWrites : timesOut[d] = 0
<1>1. FInv /\ [TailNext]_tailVars => [A]_tailVars
  <2> SUFFICES ASSUME FInv, TailNext, NEW c \in Chunks,
                      opts.byName, Len(operands) = 1, churn' = 0,
                      timesOut'[c] # timesOut[c], NEW d \in c..MaxWrites
               PROVE  timesOut[d] = 0
    OBVIOUS
  <2>1. Simple BY SettledStep DEF FInv, Settled, Simple
  <2>2. Settled /\ OneFile /\ FollowPlace /\ Position BY <2>1 DEF FInv
  <2>3. d \in Chunks /\ c <= d /\ c \in Nat \ {0}
    BY TailAssumption DEF Chunks
  <2>4. CASE World
    BY <2>4 DEF World, tail, Write, CutShort, Create, Replace, Unlink, Die, NewFile
  <2>5. CASE Poller
    <3>1. \/ pc = "show"
          \/ Read
      BY <2>1, <2>2, <2>5, OnlyThese
         DEF ShowFile, ShowMissing, StartByName, Check, StatGone, StatOther, StatResized,
             StatUnchanged, Restat, OpenByName, CannotOpen, EndOfFile, Local
    <3>2. CASE pc = "show" BY <2>2, <2>3, <3>2 DEF Position, Fresh
    <3>3. CASE Read
      <4>1. inRead.at \in 0..writes /\ Fresh(inRead.at) /\ c = inRead.at + 1
        BY <2>1, <2>2, <3>3, ReadPrints
      <4> QED BY <2>2, <2>3, <4>1 DEF Fresh, OneFile
    <3> QED BY <3>1, <3>2, <3>3
  <2> QED BY <2>4, <2>5 DEF TailNext
<1> QED BY FInvInit, FInvStep, <1>1, PTL DEF TailSpec, OnceInOrder

(***************************************************************************)
(* Type correctness.  A stream is measured and read only while it is open: *)
(* every file that is followed with others has one, but for the one that   *)
(* is being reopened.                                                      *)
(***************************************************************************)
Labels == {"show", "start", "wait", "check", "poll", "open", "restat", "measure",
           "reopen", "read", "done"}

Fixed == opts \in Options /\ operands \in Operands

Turn ==
    /\ pc \in Labels /\ fileNo \in 1..Len(operands)
    /\ follow = IF pc = "show" THEN SubSeq(operands, 1, fileNo - 1) ELSE operands

StateUpTo(k) == [valid : BOOLEAN, id : 0..k, fs : 0..k, pos : Nat, unchanged : Nat]

Open(p) == st[p].valid => st[p].fs # None

FollowStreams ==
    /\ st \in [Paths -> StateUpTo(Len(data))]
    /\ \A p \in Paths : (pc = "reopen" => p # operands[fileNo]) => Open(p)
    /\ pc = "measure" => st[operands[fileNo]].fs # None

OneRead ==
    /\ inRead \in [id : 0..Len(data), at : Nat, end : Nat]
    /\ IF pc = "read" THEN inRead.id # None ELSE inRead = NoRead

Disk ==
    /\ files \in [Paths -> 0..Len(data)]
    /\ data \in Seq(Seq(Chunks)) /\ Len(data) <= MaxFiles
    /\ cut \subseteq DOMAIN data
    /\ writes \in 0..MaxWrites /\ churn \in 0..MaxChurn[Len(operands)]
    /\ pidAlive \in BOOLEAN

Output == error \in BOOLEAN /\ timesOut \in [Chunks -> 0..Twice]

WInv == Fixed /\ Turn /\ FollowStreams /\ OneRead /\ Disk /\ Output

LEMMA OperandFacts ==
    ASSUME Fixed
    PROVE  /\ operands \in Seq(Paths) /\ Len(operands) \in Nat \ {0}
           /\ \A i \in 1..Len(operands) : operands[i] \in Paths
           /\ MaxChurn[Len(operands)] \in Nat
<1>1. operands \in Seq(Paths) /\ operands # <<>> /\ Len(operands) <= Len(MaxChurn)
  BY TailAssumption DEF Fixed
<1>2. Len(operands) \in Nat \ {0} /\ \A i \in 1..Len(operands) : operands[i] \in Paths
  BY <1>1, EmptySeq
<1>3. MaxChurn \in Seq(Nat) /\ Len(operands) \in 1..Len(MaxChurn)
  BY <1>1, <1>2, TailAssumption
<1> QED BY <1>1, <1>2, <1>3, ElementOfSeq

LEMMA WInvInit == TailInit => WInv
<1> SUFFICES ASSUME TailInit PROVE WInv OBVIOUS
<1>1. Fixed BY DEF TailInit, Fixed
<1>2. Turn
  <2>1. SubSeq(operands, 1, 0) = <<>> BY SubSeqEmpty
  <2> QED BY <1>1, <2>1, OperandFacts DEF TailInit, Turn, Labels
<1>3. data = <<>> /\ Len(data) = 0 /\ DOMAIN data = {} BY DEF TailInit
<1>4. FollowStreams /\ OneRead
  BY <1>1, <1>3 DEF TailInit, FollowStreams, OneRead, StateUpTo, Open, NoState, NoRead, None
<1>5. Disk
  <2>1. /\ files \in [Paths -> 0..0] /\ cut = {} /\ pidAlive \in BOOLEAN
        /\ writes \in 0..MaxWrites /\ churn \in 0..MaxChurn[Len(operands)] /\ 0 <= MaxFiles
    BY <1>1, OperandFacts, TailAssumption DEF TailInit, None
  <2>2. data \in Seq(Seq(Chunks)) BY <1>3, EmptySeq
  <2> QED BY <1>3, <2>1, <2>2 DEF Disk
<1>6. Output
  <2>1. error \in BOOLEAN BY Zenon DEF TailInit
  <2>2. timesOut \in [Chunks -> 0..Twice] BY DEF TailInit, Twice
  <2> QED BY <2>1, <2>2 DEF Output
<1> QED BY <1>1, <1>2, <1>4, <1>5, <1>6 DEF WInv

\* The file at hand, and one that is found.
LEMMA AtHand ==
    ASSUME WInv, pc # "show"
    PROVE  /\ Path = operands[fileNo] /\ Path \in Paths /\ Mine = st[Path] /\ follow = operands
           /\ Mine \in StateUpTo(Len(data))
           /\ There = files[Path] /\ There \in 0..Len(data)
           /\ \A id \in 1..Len(data) : Size(id) \in Nat
           /\ Len(data) \in Nat
<1>1. Path = operands[fileNo] /\ follow = operands
  BY DEF WInv, Turn, Path
<1>2. Path \in Paths BY <1>1, OperandFacts DEF WInv, Turn
<1>3. \A id \in 1..Len(data) : Size(id) \in Nat BY DEF WInv, Disk, Size
<1>4. Len(data) \in Nat BY DEF WInv, Disk
<1> QED
  BY <1>1, <1>2, <1>3, <1>4 DEF Mine, There, get_file_state, WInv, FollowStreams, Disk

LEMMA SetKeeps ==
    ASSUME WInv, pc # "show", NEW s \in StateUpTo(Len(data)), Set(s),
           UNCHANGED <<operands, data>>, pc' \in Labels,
           pc' \in {"reopen", "measure"} => fileNo' = fileNo,
           pc' = "reopen" \/ (s.valid => s.fs # None),
           pc' = "measure" => s.fs # None
    PROVE  FollowStreams'
<1>1. /\ Path = operands[fileNo] /\ Path \in Paths
      /\ st \in [Paths -> StateUpTo(Len(data))] /\ st' = [st EXCEPT ![Path] = s]
  BY AtHand DEF WInv, FollowStreams, Set
<1>2. st' \in [Paths -> StateUpTo(Len(data))] /\ st'[Path] = s
      /\ \A p \in Paths : p # Path => st'[p] = st[p]
  BY <1>1
<1>3. ASSUME NEW p \in Paths, pc' = "reopen" => p # operands[fileNo']  PROVE st'[p].valid => st'[p].fs # None
  <2>1. CASE p = Path BY <1>1, <1>2, <1>3, <2>1
  <2>2. CASE p # Path BY <1>1, <1>2, <2>2 DEF WInv, FollowStreams, Open
  <2> QED BY <2>1, <2>2
<1>4. pc' = "measure" => st'[operands[fileNo']].fs # None BY <1>1, <1>2
<1> QED BY <1>2, <1>3, <1>4 DEF FollowStreams, Open

\* A step that leaves the streams alone.
LEMMA SameStreams ==
    ASSUME WInv, pc \notin {"reopen"}, pc' \in Labels \ {"reopen", "measure"},
           UNCHANGED <<st, operands, data>>
    PROVE  FollowStreams'
BY DEF WInv, FollowStreams, Open

LEMMA OnwardFacts ==
    ASSUME WInv, pc # "show", Onward
    PROVE  fileNo' \in 1..Len(operands) /\ pc' \in {"poll", "check"}
BY AtHand, OperandFacts DEF Onward, WInv, Turn, GoOn

LEMMA StartedFacts ==
    ASSUME WInv, pc # "show", Started
    PROVE  fileNo' \in 1..Len(operands) /\ pc' \in {"start", "check"}
BY AtHand, OperandFacts DEF Started, WInv, Turn, GoOn

LEMMA PollerWorld == Poller => UNCHANGED <<opts, operands, files, data, cut, writes, churn, pidAlive>>
BY DEF Poller, world, Local, ShowFile, ShowMissing, ShownOne, StartByName,
     StartByDescriptor, StartMissing, StartFile, StartWithout, StartLater, Wait, Check,
     StatGone, StatOther, StatResized, StatUnchanged, Restat, OpenByName, CannotOpen,
     Reacquire, StillMissing, Shrunk, Reappears, PassOver, StatEach, Reopen, ReopenFails,
     Measure, Read, EndOfFile

\* What is left of the invariant for a step of tail once the turn, the streams,
\* the read in progress and the output are seen to.
LEMMA PollerRest ==
    ASSUME WInv, Poller, Turn', FollowStreams', OneRead', Output'
    PROVE  WInv'
BY PollerWorld DEF WInv, Fixed, Disk

\* The usual step: the turn moves, no read begins or ends, nothing is printed.
LEMMA QuietTail ==
    ASSUME WInv, Poller, pc \notin {"show", "read"}, pc' \in Labels \ {"show", "read"},
           fileNo' \in 1..Len(operands), UNCHANGED <<follow, inRead, timesOut>>, error' \in BOOLEAN,
           FollowStreams'
    PROVE  WInv'
<1>1. UNCHANGED <<operands, data>> BY PollerWorld
<1>2. Turn' BY <1>1 DEF WInv, Turn
<1>3. OneRead' /\ Output' BY <1>1 DEF WInv, OneRead, Output
<1> QED BY <1>2, <1>3, PollerRest

ClosedUpTo(k) == {s \in StateUpTo(k) : ~s.valid}

LEMMA ClosedParts ==
    ASSUME NEW k \in Nat, NEW s \in ClosedUpTo(k), NEW a \in 0..k, NEW b \in Nat
    PROVE  /\ [s EXCEPT !.id = a, !.pos = b] \in ClosedUpTo(k)
           /\ [s EXCEPT !.fs = a, !.pos = b] \in ClosedUpTo(k)
BY DEF StateUpTo, ClosedUpTo

\* Where following one file begins.
LEMMA FirstState ==
    ASSUME NEW k \in Nat, NEW a \in 0..k, NEW b \in Nat
    PROVE  /\ NoState \in ClosedUpTo(k)
           /\ [NoState EXCEPT !.id = a, !.pos = b] \in ClosedUpTo(k)
           /\ [NoState EXCEPT !.fs = a, !.pos = b] \in ClosedUpTo(k)
<1>1. NoState \in ClosedUpTo(k)
  BY DEF NoState, None, StateUpTo, ClosedUpTo
<1>2. [NoState EXCEPT !.id = a, !.pos = b] \in ClosedUpTo(k)
  BY <1>1, ClosedParts, Zenon
<1>3. [NoState EXCEPT !.fs = a, !.pos = b] \in ClosedUpTo(k)
  BY <1>1, ClosedParts, Zenon
<1> QED BY <1>1, <1>2, <1>3

LEMMA StartSteps ==
    ASSUME WInv, StartByName \/ StartByDescriptor \/ StartMissing \/ StartFile \/ StartWithout
                 \/ StartLater \/ Wait \/ Check
    PROVE  WInv'
<1>1. /\ pc \notin {"show", "read", "reopen"} /\ fileNo \in 1..Len(operands)
      /\ UNCHANGED <<operands, data, follow, inRead, timesOut>>
      /\ Poller /\ error \in BOOLEAN
  BY DEF WInv, Turn, Output, Poller, world, StartByName, StartByDescriptor, StartMissing, StartFile,
     StartWithout, StartLater, Wait, Check
<1>2. /\ Path = operands[fileNo] /\ Path \in Paths /\ Mine = st[Path]
      /\ Mine \in StateUpTo(Len(data)) /\ Len(data) \in Nat
      /\ There = files[Path] /\ There \in 0..Len(data)
      /\ \A id \in 1..Len(data) : Size(id) \in Nat
      /\ There # None => There \in 1..Len(data) /\ Size(There) \in Nat
  BY <1>1, AtHand DEF None
<1>3. CASE StartByName
  <2>1. PICK s : /\ Set(s)
                 /\ s = IF There = None THEN NoState
                        ELSE [NoState EXCEPT !.id = There, !.pos = Size(There)]
    BY <1>3 DEF StartByName
  <2>2. s \in StateUpTo(Len(data)) /\ ~s.valid
    <3>1. s \in ClosedUpTo(Len(data)) BY <1>2, <2>1, FirstState
    <3> QED BY <3>1 DEF ClosedUpTo
  <2>3. pc' = "check" /\ fileNo' = fileNo /\ error' = error
    BY <1>3 DEF StartByName, GoOn
  <2>4. FollowStreams' BY <1>1, <2>1, <2>2, <2>3, SetKeeps DEF Labels
  <2> QED BY <1>1, <2>3, <2>4, QuietTail DEF Labels
<1>4. CASE StartByDescriptor
  <2>1. PICK s : Set(s) /\ s = [NoState EXCEPT !.fs = There, !.pos = Size(There)] /\ There # None
    BY <1>4 DEF StartByDescriptor
  <2>2. s \in StateUpTo(Len(data)) /\ ~s.valid
    <3>1. s \in ClosedUpTo(Len(data)) BY <1>2, <2>1, FirstState
    <3> QED BY <3>1 DEF ClosedUpTo
  <2>3. pc' = "check" /\ fileNo' = fileNo /\ error' = error
    BY <1>4 DEF StartByDescriptor, GoOn
  <2>4. FollowStreams' BY <1>1, <2>1, <2>2, <2>3, SetKeeps DEF Labels
  <2> QED BY <1>1, <2>3, <2>4, QuietTail DEF Labels
<1>5. CASE StartFile
  <2>1. Set(Following(There)) /\ There # None /\ Started /\ error' = error
    BY <1>5 DEF StartFile
  <2>2. Following(There) \in StateUpTo(Len(data)) /\ Following(There).fs # None
    BY <1>2, <2>1 DEF Following, StateUpTo
  <2>3. pc' \in {"start", "check"} /\ fileNo' \in 1..Len(operands)
    BY <1>1, <2>1, StartedFacts
  <2>4. FollowStreams' BY <1>1, <2>1, <2>2, <2>3, SetKeeps DEF Labels
  <2> QED BY <1>1, <2>1, <2>3, <2>4, QuietTail DEF Labels
<1>6. CASE StartMissing \/ StartWithout \/ StartLater \/ Wait \/ Check
  <2>1. st' = st /\ error' \in BOOLEAN
    BY <1>1, <1>6 DEF StartMissing, StartWithout, StartLater, Wait, Check
  <2>2. /\ pc' \in {"start", "wait", "check", "poll", "done"}
        /\ fileNo' \in 1..Len(operands)
    BY <1>1, <1>6, StartedFacts DEF StartMissing, StartWithout, StartLater, Wait, Check, GoOn
  <2>3. FollowStreams' BY <1>1, <2>1, <2>2, SameStreams DEF Labels
  <2> QED BY <1>1, <2>1, <2>2, <2>3, QuietTail DEF Labels
<1> QED BY <1>3, <1>4, <1>5, <1>6

LEMMA NameSteps ==
    ASSUME WInv, StatGone \/ StatOther \/ StatResized \/ StatUnchanged \/ Restat
                 \/ Reacquire \/ StillMissing \/ Shrunk
                 \/ Reappears \/ PassOver \/ StatEach \/ Reopen \/ ReopenFails \/ CannotOpen
    PROVE  WInv'
<1>1. /\ pc \notin {"show", "read"} /\ fileNo \in 1..Len(operands) /\ pc \in Labels
      /\ UNCHANGED <<operands, data, follow, inRead, timesOut, error>>
      /\ Poller /\ error \in BOOLEAN
  BY DEF WInv, Turn, Output, Poller, world, Local, StatGone, StatOther, StatResized, StatUnchanged,
     Restat, Reacquire, StillMissing, Shrunk, Reappears, PassOver, StatEach, Reopen, ReopenFails,
     CannotOpen
<1>2. /\ Path = operands[fileNo] /\ Path \in Paths /\ Mine = st[Path]
      /\ Mine \in StateUpTo(Len(data)) /\ Len(data) \in Nat
      /\ There = files[Path] /\ There \in 0..Len(data)
      /\ \A id \in 1..Len(data) : Size(id) \in Nat
      /\ There # None => There \in 1..Len(data) /\ Size(There) \in Nat
      /\ pc # "reopen" => (Mine.valid => Mine.fs # None)
  BY <1>1, AtHand DEF None, WInv, FollowStreams, Open
<1>3. PICK m \in StateUpTo(Len(data)) : m = Mine BY <1>2
<1>4. ASSUME NEW s \in StateUpTo(Len(data)), Set(s),
             pc' \in Labels \ {"show", "read"}, fileNo' \in 1..Len(operands),
             pc' \in {"reopen", "measure"} => fileNo' = fileNo,
             pc' = "reopen" \/ (s.valid => s.fs # None),
             pc' = "measure" => s.fs # None
      PROVE  WInv'
  <2>1. FollowStreams' BY <1>1, <1>4, SetKeeps
  <2> QED BY <1>1, <1>4, <2>1, QuietTail
<1>5. ASSUME st' = st, pc # "reopen", pc' \in Labels \ {"show", "read", "reopen", "measure"},
             fileNo' \in 1..Len(operands)
      PROVE  WInv'
  <2>1. FollowStreams' BY <1>1, <1>5, SameStreams
  <2> QED BY <1>1, <1>5, <2>1, QuietTail
<1>6. CASE StatGone \/ CannotOpen \/ StillMissing \/ PassOver
  <2>1. st' = st /\ pc # "reopen"
    BY <1>6 DEF StatGone, CannotOpen, StillMissing, PassOver
  <2>2. pc' \in {"check", "done", "poll"} /\ fileNo' \in 1..Len(operands)
    BY <1>1, <1>6, OnwardFacts DEF StatGone, CannotOpen, StillMissing, PassOver, GoOn, Local
  <2> QED BY <2>1, <2>2, <1>5 DEF Labels
<1>7. Afresh \in StateUpTo(Len(data)) /\ (Afresh.valid <=> Mine.valid) /\ Afresh.fs = Mine.fs
  BY <1>2, <1>3 DEF Afresh, StateUpTo
<1>8. /\ Counted \in StateUpTo(Len(data)) /\ (Counted.valid <=> Mine.valid) /\ Counted.fs = Mine.fs
  <2> DEFINE c == IF Counts THEN m.unchanged + 1 ELSE m.unchanged
  <2>1. Counted = [m EXCEPT !.unchanged = c] BY <1>3 DEF Counted
  <2>2. c \in Nat BY DEF StateUpTo
  <2> HIDE DEF c
  <2>3. [m EXCEPT !.unchanged = c] \in StateUpTo(Len(data))
    BY ONLY m \in StateUpTo(Len(data)), <2>2 DEF StateUpTo
  <2> QED BY <1>3, <2>1, <2>3 DEF StateUpTo
<1>9. LET s == [Mine EXCEPT !.unchanged = 0] IN
      s \in StateUpTo(Len(data)) /\ (s.valid <=> Mine.valid) /\ s.fs = Mine.fs
  BY <1>2, <1>3 DEF StateUpTo
<1>10. CASE StatOther
  <2>1. Set(Afresh) /\ pc' = "open" /\ fileNo' = fileNo /\ pc = "poll"
    BY <1>10 DEF StatOther, GoOn, Local
  <2> QED BY <1>1, <1>2, <1>4, <1>7, <2>1 DEF Labels
<1>11. CASE StatResized
  <2>1. Set([Mine EXCEPT !.unchanged = 0]) /\ pc' = "open" /\ fileNo' = fileNo /\ pc = "poll"
    BY <1>11 DEF StatResized, GoOn, Local
  <2> QED BY <1>1, <1>2, <1>4, <1>9, <2>1 DEF Labels
<1>12. CASE StatUnchanged
  <2>1. Set(Counted) /\ pc' \in {"restat", "check"} /\ fileNo' = fileNo /\ pc = "poll"
    BY <1>12 DEF StatUnchanged, GoOn, Local
  <2> QED BY <1>1, <1>2, <1>4, <1>8, <2>1 DEF Labels
<1>13. CASE Restat
  <2>1. CASE There # Mine.id
    <3>1. Set(Afresh) /\ pc' = "open" /\ fileNo' = fileNo /\ pc = "restat"
      BY <1>13, <2>1 DEF Restat, GoOn, Local
    <3> QED BY <1>1, <1>2, <1>4, <1>7, <3>1 DEF Labels
  <2>2. CASE There = Mine.id
    <3>1. Set([Mine EXCEPT !.unchanged = 0]) /\ pc' = "check" /\ fileNo' = fileNo /\ pc = "restat"
      BY <1>13, <2>2 DEF Restat, GoOn, Local
    <3> QED BY <1>1, <1>2, <1>4, <1>9, <3>1 DEF Labels
  <2> QED BY <2>1, <2>2
<1>14. CASE Reacquire
  <2>1. /\ Set([Mine EXCEPT !.fs = There, !.pos = 0]) /\ pc' = "poll" /\ fileNo' = fileNo /\ pc = "poll"
        /\ There # None
    BY <1>14 DEF Reacquire, Local
  <2>2. LET s == [Mine EXCEPT !.fs = There, !.pos = 0] IN
        s \in StateUpTo(Len(data)) /\ s.fs = There
    BY <1>2, <1>3 DEF StateUpTo
  <2> QED BY <1>1, <1>2, <1>4, <2>1, <2>2 DEF Labels
<1>15. CASE Shrunk
  <2>1. /\ Set([Mine EXCEPT !.pos = Checked(Mine.fs)]) /\ pc' = "measure" /\ fileNo' = fileNo
        /\ Mine.fs # None
    BY <1>15 DEF Shrunk, GoOn, Local
  <2>2. Checked(Mine.fs) \in Nat BY <1>2, <1>3 DEF Checked, StateUpTo
  <2>3. LET s == [Mine EXCEPT !.pos = Checked(Mine.fs)] IN
        s \in StateUpTo(Len(data)) /\ s.fs = Mine.fs
    BY <1>2, <1>3, <2>2 DEF StateUpTo
  <2> QED BY <1>1, <1>2, <1>4, <2>1, <2>3 DEF Labels
<1>16. CASE Reappears
  <2>1. Set(Following(There)) /\ There # None /\ Onward
    BY <1>16 DEF Reappears
  <2>2. Following(There) \in StateUpTo(Len(data)) /\ Following(There).fs # None
    BY <1>2, <2>1 DEF Following, StateUpTo
  <2>3. pc' \in {"poll", "check"} /\ fileNo' \in 1..Len(operands)
    BY <1>1, <2>1, OnwardFacts
  <2> QED BY <1>4, <2>1, <2>2, <2>3 DEF Labels
<1>17. CASE StatEach
  <2>1. /\ pc = "poll" /\ Mine.valid /\ fileNo' = fileNo
        /\ \/ st' = st /\ pc' = "measure"
           \/ Set([Mine EXCEPT !.fs = None]) /\ pc' = "reopen"
           \/ Set(Counted) /\ pc' = "measure"
           \/ Set([Mine EXCEPT !.unchanged = 0]) /\ pc' = "measure"
    BY <1>17 DEF StatEach, GoOn, Local
  <2>2. CASE st' = st /\ pc' = "measure"
    <3>1. st' = [st EXCEPT ![Path] = Mine]
      BY <1>2, <2>2 DEF WInv, FollowStreams
    <3>2. Set(Mine) BY <3>1 DEF Set
    <3> QED BY <1>1, <1>2, <1>4, <2>1, <2>2, <3>2 DEF Labels
  <2>3. CASE Set([Mine EXCEPT !.fs = None]) /\ pc' = "reopen"
    <3>1. [Mine EXCEPT !.fs = None] \in StateUpTo(Len(data))
      BY <1>2, <1>3 DEF StateUpTo, None
    <3> QED BY <1>1, <1>4, <2>1, <2>3, <3>1 DEF Labels
  <2>4. CASE Set(Counted) /\ pc' = "measure"
    BY <1>1, <1>2, <1>4, <1>8, <2>1, <2>4 DEF Labels
  <2>5. CASE Set([Mine EXCEPT !.unchanged = 0]) /\ pc' = "measure"
    BY <1>1, <1>2, <1>4, <1>9, <2>1, <2>5 DEF Labels
  <2> QED BY <2>1, <2>2, <2>3, <2>4, <2>5
<1>18. CASE Reopen
  <2>1. /\ Set([Following(There) EXCEPT !.pos = 0]) /\ There # None /\ pc' = "measure" /\ fileNo' = fileNo
    BY <1>18 DEF Reopen, GoOn, Local
  <2>2. LET s == [Following(There) EXCEPT !.pos = 0] IN
        s \in StateUpTo(Len(data)) /\ s.fs # None
    BY <1>2, <2>1 DEF Following, StateUpTo
  <2> QED BY <1>1, <1>4, <2>1, <2>2 DEF Labels
<1>19. CASE ReopenFails
  <2>1. Set([Mine EXCEPT !.valid = FALSE]) /\ Onward
    BY <1>19 DEF ReopenFails
  <2>2. LET s == [Mine EXCEPT !.valid = FALSE] IN
        s \in StateUpTo(Len(data)) /\ ~s.valid
    BY <1>2, <1>3 DEF StateUpTo
  <2>3. pc' \in {"poll", "check"} /\ fileNo' \in 1..Len(operands)
    BY <1>1, <2>1, OnwardFacts
  <2> QED BY <1>4, <2>1, <2>2, <2>3 DEF Labels
<1> QED
  BY <1>6, <1>10, <1>11, <1>12, <1>13, <1>14, <1>15, <1>16, <1>17, <1>18, <1>19

LEMMA ShowSteps ==
    ASSUME WInv, ShowFile \/ ShowMissing
    PROVE  WInv'
<1>1. /\ pc = "show" /\ ShownOne /\ Poller /\ UNCHANGED <<operands, data, st, inRead>>
      /\ follow = SubSeq(operands, 1, fileNo - 1) /\ fileNo \in 1..Len(operands)
      /\ operands \in Seq(Paths) /\ Len(operands) \in Nat \ {0}
  BY PollerWorld, OperandFacts DEF WInv, Turn, ShowFile, ShowMissing, ShownOne, Poller
<1>2. follow' = SubSeq(operands, 1, fileNo)
  <2>1. PICK k \in 1..Len(operands) : k = fileNo BY <1>1
  <2>2. SubSeq(operands, 1, k) = Append(SubSeq(operands, 1, k - 1), operands[k])
    <3> DEFINE m == k - 1
               s == SubSeq(operands, 1, m)
               t == SubSeq(operands, 1, k)
    <3>1. m \in Nat /\ k = m + 1 /\ k \in Nat OBVIOUS
    <3>2. s \in Seq(Paths) /\ Len(s) = m /\ \A i \in 1..m : s[i] = operands[i]
      BY <1>1
    <3>3. t \in Seq(Paths) /\ Len(t) = k /\ \A i \in 1..k : t[i] = operands[i]
      BY <1>1
    <3> HIDE DEF s, t, m
    <3>4. operands[k] \in Paths BY <1>1
    <3>5. /\ Append(s, operands[k]) \in Seq(Paths) /\ Len(Append(s, operands[k])) = m + 1
          /\ \A i \in 1..m : Append(s, operands[k])[i] = s[i]
          /\ Append(s, operands[k])[m + 1] = operands[k]
      BY <3>2, <3>4, AppendFacts
    <3> DEFINE u == Append(s, operands[k])
    <3>6. u \in Seq(Paths) /\ Len(u) = k /\ (\A i \in 1..m : u[i] = s[i]) /\ u[k] = operands[k]
      BY <3>1, <3>5
    <3> HIDE DEF u
    <3>7. \A i \in 1..k : t[i] = u[i] BY <3>1, <3>2, <3>3, <3>6
    <3>8. t = u BY <3>3, <3>6, <3>7, SeqEqual
    <3> QED BY <3>8 DEF t, u, s, m
  <2>3. follow' = Append(follow, operands[fileNo]) BY <1>1 DEF ShownOne
  <2> QED BY <1>1, <2>1, <2>2, <2>3
<1>3. Turn' /\ pc' \in {"show", "start"}
  <2>1. CASE fileNo < Len(operands)
    <3>1. pc' = "show" /\ fileNo' = fileNo + 1 /\ operands' = operands
      BY <1>1, <2>1 DEF ShownOne, GoOn
    <3>2. fileNo' \in 1..Len(operands) /\ fileNo' - 1 = fileNo
      BY <1>1, <2>1, <3>1
    <3> QED BY <1>2, <3>1, <3>2 DEF Turn, Labels
  <2>2. CASE ~(fileNo < Len(operands))
    <3>1. pc' = "start" /\ fileNo' = 1 /\ fileNo = Len(operands) /\ operands' = operands
      BY <1>1, <2>2 DEF ShownOne, GoOn
    <3>2. follow' = operands BY <1>1, <1>2, <3>1, SubSeqFull
    <3> QED BY <1>1, <3>1, <3>2 DEF Turn, Labels
  <2> QED BY <2>1, <2>2
<1>4. FollowStreams' BY <1>1, <1>3, SameStreams DEF Labels
<1>5. OneRead' BY <1>1, <1>3 DEF WInv, OneRead
<1>6. Output'
  <2>1. error' \in BOOLEAN BY DEF ShowFile, ShowMissing, WInv, Output
  <2>2. timesOut' \in [Chunks -> 0..Twice]
    BY PrintedFacts DEF ShowFile, ShowMissing, WInv, Output
  <2> QED BY <2>1, <2>2 DEF Output
<1> QED BY <1>1, <1>3, <1>4, <1>5, <1>6, PollerRest

LEMMA ReadSteps ==
    ASSUME WInv, OpenByName \/ Measure \/ Read \/ EndOfFile
    PROVE  WInv'
<1>1. /\ pc \in {"open", "measure", "read"} /\ fileNo \in 1..Len(operands)
      /\ UNCHANGED <<operands, data, follow, error>> /\ Poller /\ error \in BOOLEAN
  BY DEF WInv, Turn, Output, Poller, world, OpenByName, Measure, Read, EndOfFile
<1>2. /\ Path = operands[fileNo] /\ Path \in Paths /\ Mine = st[Path] /\ follow = operands
      /\ Mine \in StateUpTo(Len(data)) /\ Len(data) \in Nat
      /\ There = files[Path] /\ There \in 0..Len(data)
      /\ \A id \in 1..Len(data) : Size(id) \in Nat
      /\ Mine.valid => Mine.fs # None
      /\ pc = "measure" => Mine.fs # None
      /\ Mine.pos \in Nat /\ Mine.fs \in 0..Len(data)
  BY <1>1, AtHand DEF None, WInv, FollowStreams, Open, StateUpTo
<1>3. PICK m \in StateUpTo(Len(data)) : m = Mine BY <1>2
<1>4. \A a \in Nat : LET s == [Mine EXCEPT !.pos = a] IN
        s \in StateUpTo(Len(data)) /\ (s.valid <=> Mine.valid) /\ s.fs = Mine.fs
  BY <1>2, <1>3 DEF StateUpTo
<1>5. ASSUME NEW a \in Nat, Set([Mine EXCEPT !.pos = a]),
             pc' \in Labels \ {"show", "reopen", "measure"}, fileNo' \in 1..Len(operands)
      PROVE  FollowStreams' /\ Turn'
  <2>1. PICK s : s = [Mine EXCEPT !.pos = a] OBVIOUS
  <2>2. s \in StateUpTo(Len(data)) /\ (s.valid => s.fs # None) /\ Set(s)
    BY <1>2, <1>4, <1>5, <2>1
  <2>3. FollowStreams' BY <1>1, <1>5, <2>2, SetKeeps
  <2>4. Turn' BY <1>1, <1>2, <1>5 DEF Turn, Labels
  <2> QED BY <2>3, <2>4
<1>6. ASSUME NEW id \in 1..Len(data), NEW at \in Nat, NEW end \in Nat, Reading(id, at, end),
             pc' = "read", fileNo' = fileNo, st' = st, pc # "read", timesOut' = timesOut
      PROVE  WInv'
  <2>1. OneRead' BY <1>1, <1>6 DEF Reading, OneRead, None
  <2>2. Turn' BY <1>1, <1>2, <1>6 DEF Turn, Labels
  <2>3. FollowStreams' BY <1>1, <1>6, SameStreams DEF Labels
  <2>4. Output' BY <1>1, <1>6 DEF WInv, Output
  <2> QED BY <1>1, <2>1, <2>2, <2>3, <2>4, PollerRest
<1>7. ASSUME NEW a \in Nat, Set([Mine EXCEPT !.pos = a]),
             pc' \in Labels \ {"show", "reopen", "measure", "read"}, fileNo' \in 1..Len(operands),
             inRead' = NoRead, timesOut' = timesOut
      PROVE  WInv'
  <2>1. OneRead' BY <1>1, <1>2, <1>7 DEF OneRead, NoRead, None
  <2>2. Output' BY <1>1, <1>7 DEF WInv, Output
  <2>3. FollowStreams' /\ Turn' BY <1>5, <1>7
  <2> QED BY <1>1, <2>1, <2>2, <2>3, PollerRest
<1>8. \A id \in 1..Len(data) : Checked(id) \in Nat BY <1>2 DEF Checked
<1>9. CASE OpenByName
  <2>1. /\ There \in 1..Len(data) /\ inRead = NoRead /\ pc = "open" /\ timesOut' = timesOut
    BY <1>2, <1>9 DEF OpenByName, None, WInv, OneRead
  <2>2. CASE Size(There) > Mine.pos
    <3>1. Reading(There, Mine.pos, Size(There)) /\ pc' = "read" /\ st' = st /\ fileNo' = fileNo
      BY <1>9, <2>2 DEF OpenByName, GoOn
    <3> QED BY <1>2, <1>6, <2>1, <3>1
  <2>3. CASE ~(Size(There) > Mine.pos)
    <3>1. Set([Mine EXCEPT !.pos = Checked(There)]) /\ pc' = "check" /\ fileNo' = fileNo /\ inRead' = inRead
      BY <1>9, <2>3 DEF OpenByName, GoOn
    <3> QED BY <1>1, <1>7, <1>8, <2>1, <3>1 DEF Labels
  <2> QED BY <2>2, <2>3
<1>10. CASE Measure
  <2>1. /\ Mine.fs \in 1..Len(data) /\ inRead = NoRead /\ pc = "measure" /\ timesOut' = timesOut
    BY <1>2, <1>10 DEF Measure, None, WInv, OneRead
  <2>2. CASE Size(Mine.fs) > Mine.pos
    <3>1. Reading(Mine.fs, Mine.pos, Size(Mine.fs)) /\ pc' = "read" /\ st' = st /\ fileNo' = fileNo
      BY <1>10, <2>2 DEF Measure, GoOn
    <3> QED BY <1>2, <1>6, <2>1, <3>1
  <2>3. CASE ~(Size(Mine.fs) > Mine.pos)
    <3>1. Set([Mine EXCEPT !.pos = Checked(Mine.fs)]) /\ Onward /\ inRead' = inRead
      BY <1>10, <2>3 DEF Measure
    <3>2. pc' \in {"poll", "check"} /\ fileNo' \in 1..Len(operands)
      BY <1>1, <3>1, OnwardFacts
    <3> QED BY <1>7, <1>8, <2>1, <3>1, <3>2 DEF Labels
  <2> QED BY <2>2, <2>3
<1>11. CASE Read
  <2>1. /\ inRead \in [id : 0..Len(data), at : Nat, end : Nat] /\ inRead.id # None /\ pc = "read"
        /\ inRead' = [inRead EXCEPT !.at = @ + 1] /\ UNCHANGED <<pc, fileNo, st>>
        /\ Printed({data[inRead.id][inRead.at + 1]})
    BY <1>11 DEF Read, WInv, OneRead
  <2>2. OneRead' BY <1>1, <2>1 DEF OneRead
  <2>3. Turn' BY <1>1, <1>2, <2>1 DEF Turn, Labels
  <2>4. FollowStreams' BY <1>1, <2>1, SameStreams DEF Labels
  <2>5. Output' BY <1>1, <2>1, PrintedFacts DEF WInv, Output
  <2> QED BY <1>1, <2>2, <2>3, <2>4, <2>5, PollerRest
<1>12. CASE EndOfFile
  <2>1. /\ Set([Mine EXCEPT !.pos = EndPos]) /\ inRead' = NoRead /\ Onward /\ timesOut' = timesOut
    BY <1>12 DEF EndOfFile
  <2>2. EndPos \in Nat BY DEF EndPos, WInv, OneRead
  <2>3. pc' \in {"poll", "check"} /\ fileNo' \in 1..Len(operands)
    BY <1>1, <2>1, OnwardFacts
  <2> QED BY <1>7, <2>1, <2>2, <2>3 DEF Labels
<1> QED BY <1>9, <1>10, <1>11, <1>12

\* A world that only grows, as far as names and streams can tell.
LEMMA WorldKeeps ==
    ASSUME WInv, UNCHANGED tail, Disk', Len(data) <= Len(data')
    PROVE  WInv'
<1>1. UNCHANGED <<opts, operands, pc, fileNo, follow, st, inRead, error, timesOut>>
  BY DEF tail
<1>2. Len(data) \in Nat /\ Len(data') \in Nat
  BY LenProperties DEF WInv, Disk
<1>3. \A a \in 0..Len(data) : a \in 0..Len(data') BY <1>2
<1>4. StateUpTo(Len(data)) \subseteq StateUpTo(Len(data'))
  BY <1>3 DEF StateUpTo
<1>5. FollowStreams'
  <2>1. st' \in [Paths -> StateUpTo(Len(data'))]
    BY <1>1, <1>4 DEF WInv, FollowStreams
  <2> QED BY <1>1, <2>1 DEF WInv, FollowStreams, Open
<1>6. OneRead' BY <1>1, <1>3 DEF WInv, OneRead
<1> QED BY <1>1, <1>5, <1>6 DEF WInv, Fixed, Turn, Output

LEMMA NewFileKeeps ==
    ASSUME WInv, NEW p, NewFile(p), churn' \in 0..MaxChurn[Len(operands)]
    PROVE  WInv'
<1>1. /\ data \in Seq(Seq(Chunks)) /\ Len(data) \in Nat /\ data' = Append(data, <<>>)
      /\ files \in [Paths -> 0..Len(data)] /\ cut \subseteq 1..Len(data)
      /\ Len(data) < MaxFiles /\ UNCHANGED <<tail, cut, writes, pidAlive>>
      /\ files' = [files EXCEPT ![p] = Len(data) + 1]
  BY LenProperties DEF WInv, Disk, NewFile
<1>2. data' \in Seq(Seq(Chunks)) /\ Len(data') = Len(data) + 1 /\ DOMAIN data' = 1..Len(data) + 1
  <2>1. <<>> \in Seq(Chunks) BY EmptySeq
  <2> QED BY <1>1, <2>1, AppendFacts
<1>3. files' \in [Paths -> 0..Len(data')]
  <2>1. PICK k \in Nat : k = Len(data) /\ k + 1 = Len(data')
    BY <1>1, <1>2
  <2>2. files \in [Paths -> 0..k] /\ files' = [files EXCEPT ![p] = k + 1]
    BY <1>1, <2>1
  <2>3. files' \in [Paths -> 0..k + 1]
    <3>1. files' = [q \in Paths |-> IF q = p THEN k + 1 ELSE files[q]]
      BY <2>2
    <3>2. \A q \in Paths : files[q] \in 0..k + 1 BY <2>2
    <3>3. k + 1 \in 0..k + 1 OBVIOUS
    <3> QED BY <3>1, <3>2, <3>3
  <2> QED BY <2>1, <2>3
<1>4. cut' \subseteq DOMAIN data' BY <1>1, <1>2
<1>5. Len(data') <= MaxFiles BY <1>1, <1>2, TailAssumption
<1>6. operands' = operands BY <1>1 DEF tail
<1>7. Disk' BY <1>1, <1>2, <1>3, <1>4, <1>5, <1>6 DEF WInv, Disk
<1> QED BY <1>1, <1>2, <1>7, WorldKeeps

LEMMA WorldTypes == ASSUME WInv, World PROVE WInv'
<1>1. /\ data \in Seq(Seq(Chunks)) /\ Len(data) \in Nat /\ DOMAIN data = 1..Len(data)
      /\ churn \in Nat /\ MaxChurn[Len(operands)] \in Nat /\ churn \in 0..MaxChurn[Len(operands)]
      /\ \A id \in DOMAIN data : data[id] \in Seq(Chunks)
  BY OperandFacts, LenProperties, ElementOfSeq DEF WInv, Disk
<1>2. CASE Write
  <2>1. PICK id \in DOMAIN data : data' = [data EXCEPT ![id] = Append(@, writes + 1)]
    BY <1>2 DEF Write
  <2>2. writes + 1 \in Chunks /\ writes' = writes + 1 /\ writes + 1 \in 0..MaxWrites
        /\ UNCHANGED <<tail, files, cut, churn, pidAlive>>
    <3>1. writes \in 0..MaxWrites /\ MaxWrites \in Nat /\ writes < MaxWrites
      BY <1>2, TailAssumption DEF Write, WInv, Disk
    <3>2. writes + 1 \in Chunks /\ writes + 1 \in 0..MaxWrites
      BY <3>1 DEF Chunks
    <3>3. writes' = writes + 1 /\ UNCHANGED <<tail, files, cut, churn, pidAlive>>
      BY <1>2 DEF Write
    <3> QED BY <3>2, <3>3
  <2>3. Append(data[id], writes + 1) \in Seq(Chunks)
    BY <1>1, <2>2, AppendFacts
  <2>4. data' \in Seq(Seq(Chunks)) /\ Len(data') = Len(data) /\ DOMAIN data' = DOMAIN data
    BY <1>1, <2>1, <2>3, ExceptSeq
  <2>5. operands' = operands BY <2>2 DEF tail
  <2>6. Disk' BY <2>2, <2>4, <2>5 DEF WInv, Disk
  <2> QED BY <1>1, <2>2, <2>4, <2>6, WorldKeeps
<1>3. CASE CutShort
  <2>1. PICK id \in DOMAIN data : data' = [data EXCEPT ![id] = <<>>] /\ cut' = cut \cup {id}
    BY <1>3 DEF CutShort
  <2>2. UNCHANGED <<tail, files, writes, pidAlive>> /\ churn' \in 0..MaxChurn[Len(operands)]
    BY <1>1, <1>3 DEF CutShort
  <2>3. <<>> \in Seq(Chunks) BY EmptySeq
  <2>4. data' \in Seq(Seq(Chunks)) /\ Len(data') = Len(data) /\ DOMAIN data' = DOMAIN data
    BY <1>1, <2>1, <2>3, ExceptSeq
  <2>5. operands' = operands BY <2>2 DEF tail
  <2>6. Disk' BY <2>1, <2>2, <2>4, <2>5 DEF WInv, Disk
  <2> QED BY <1>1, <2>2, <2>4, <2>6, WorldKeeps
<1>4. CASE Create BY <1>1, <1>4, NewFileKeeps DEF Create
<1>5. CASE Replace BY <1>1, <1>5, NewFileKeeps DEF Replace
<1>6. CASE Unlink
  <2>1. PICK p \in Range(operands) : files' = [files EXCEPT ![p] = None]
    BY <1>6 DEF Unlink
  <2>2. UNCHANGED <<tail, data, cut, writes, pidAlive>> /\ churn' \in 0..MaxChurn[Len(operands)]
    BY <1>1, <1>6 DEF Unlink
  <2>3. files' \in [Paths -> 0..Len(data)]
    <3>1. files \in [Paths -> 0..Len(data)] /\ None \in 0..Len(data)
      BY <1>1 DEF WInv, Disk, None
    <3>2. files' = [q \in Paths |-> IF q = p THEN None ELSE files[q]]
      BY <2>1, <3>1
    <3>3. \A q \in Paths : files[q] \in 0..Len(data) BY <3>1
    <3> QED BY <3>1, <3>2, <3>3
  <2>4. operands' = operands BY <2>2 DEF tail
  <2>5. Disk' BY <2>2, <2>3, <2>4 DEF WInv, Disk
  <2> QED BY <1>1, <2>2, <2>5, WorldKeeps
<1>7. CASE Die
  <2>1. pidAlive' \in BOOLEAN /\ UNCHANGED <<tail, files, data, cut, writes, churn>>
    BY <1>7 DEF Die
  <2>2. operands' = operands BY <2>1 DEF tail
  <2>3. Disk' BY <2>1, <2>2 DEF WInv, Disk
  <2> QED BY <1>1, <2>1, <2>3, WorldKeeps
<1> QED BY <1>2, <1>3, <1>4, <1>5, <1>6, <1>7 DEF World

LEMMA WInvStep == WInv /\ [TailNext]_tailVars => WInv'
<1> SUFFICES ASSUME WInv, [TailNext]_tailVars PROVE WInv' OBVIOUS
<1>1. CASE Poller
  BY <1>1, StartSteps, NameSteps, ShowSteps, ReadSteps DEF Poller
<1>2. CASE World BY <1>2, WorldTypes
<1>3. CASE UNCHANGED tailVars
  BY <1>3 DEF tailVars, WInv, Fixed, Turn, FollowStreams, Open, OneRead, Disk, Output
<1> QED BY <1>1, <1>2, <1>3 DEF TailNext

\* For any files, settings and number of writes, and whatever other processes do
\* in between: what tail reads, measures and reopens exists, and a stream is read
\* only while it is open (follow_single_file and the loop over several files).
THEOREM TailTypeCorrect == TailSpec => []TailTypeOK
<1>1. WInv => TailTypeOK
  <2> SUFFICES ASSUME WInv PROVE TailTypeOK OBVIOUS
  <2>1. IsPrefix(follow, operands)
    <3>1. operands \in Seq(Paths) /\ fileNo \in 1..Len(operands) /\ Len(operands) \in Nat
      BY OperandFacts DEF WInv, Turn
    <3>2. PICK k \in 0..Len(operands) : follow = SubSeq(operands, 1, k)
      <4>1. CASE pc = "show"
        <5>1. fileNo - 1 \in 0..Len(operands) BY <3>1
        <5> QED BY <4>1, <5>1 DEF WInv, Turn
      <4>2. CASE pc # "show"
        <5>1. Len(operands) \in 0..Len(operands) /\ SubSeq(operands, 1, Len(operands)) = operands
          BY <3>1, SubSeqFull
        <5> QED BY <4>2, <5>1 DEF WInv, Turn
      <4> QED BY <4>1, <4>2
    <3>3. follow \in Seq(Paths) /\ Len(follow) = k BY <3>1, <3>2
    <3>4. SubSeq(follow, 1, Len(follow)) = follow BY <3>3, SubSeqFull
    <3> QED BY <3>1, <3>2, <3>3, <3>4 DEF IsPrefix
  <2>2. pc = "measure" => Mine.fs # None
    BY DEF WInv, Turn, FollowStreams, Mine, Path
  <2>3. pc = "read" <=> inRead # NoRead
    BY DEF WInv, OneRead, NoRead, None
  <2> QED
    BY <2>1, <2>2, <2>3 DEF WInv, Fixed, Turn, FollowStreams, StateUpTo, OneRead, Disk, Output, TailTypeOK,
       Labels
<1> QED BY WInvInit, WInvStep, <1>1, PTL DEF TailSpec
=============================================================================
