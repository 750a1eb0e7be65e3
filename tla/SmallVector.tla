----------------------------- MODULE SmallVector -----------------------------
(***************************************************************************)
(* container/small_vector.h: a vector whose first elements live inside the *)
(* object and move to a malloc'ed block when they no longer fit.  What     *)
(* needs care is the storage: who owns which block, when it is freed, and  *)
(* that a vector that was moved from has NO capacity, although its inline  *)
(* storage is there (resetToSmall).                                        *)
(*                                                                         *)
(* A place is a block or a vector, which stands for its inline storage.    *)
(* The elements are kept per place, so that two vectors that point at one  *)
(* block see each other's changes, as in the code.  Size is the number of  *)
(* elements at the place a vector points at.                               *)
(***************************************************************************)
EXTENDS Integers, Sequences

CONSTANTS
  Vecs,        \* SmallVector objects
  Blocks,      \* what malloc can return
  Values,      \* what an element can be
  Default,     \* T()
  Dead,        \* the content of an object outside its lifetime
  InlineSize,  \* N: the elements the inline storage holds
  MaxSize      \* bound on the elements the instance stores in one vector

ASSUME SmallVectorAssumption ==
  /\ InlineSize \in Nat
  /\ MaxSize \in Nat
  /\ Default \in Values
  /\ Vecs \cap Blocks = {}
  /\ Dead \notin Seq(Values)

VARIABLES
  alive,   \* the objects that are constructed and not destroyed
  begin,   \* BeginX: [Vecs -> place]
  capac,   \* Capacity: [Vecs -> Nat]
  mem,     \* [place -> the elements constructed there]
  heap     \* the blocks that are allocated

vecVars == <<alive, begin, capac, mem, heap>>

Places == Vecs \cup Blocks

Elts(v) == mem[begin[v]]

isSmall(v) == begin[v] = v

Contents == [v \in Vecs |-> IF v \in alive THEN Elts(v) ELSE Dead]

VecInit ==
  /\ alive = {}
  /\ begin = [v \in Vecs |-> v]
  /\ capac = [v \in Vecs |-> InlineSize]
  /\ mem = [p \in Places |-> <<>>]
  /\ heap = {}

\* n elements of value x.
Copies(n, x) == [i \in 1..n |-> x]

\* What the operations below are given to construct or append.
Runs == {Copies(n, x) : n \in 0..MaxSize, x \in Values}

Abs == INSTANCE Vectors WITH content <- Contents, Elements <- Runs

\* The capacity of a new block: twice the old one and one, or what is needed.
MallocForGrow(cur, n) == IF 2 * cur + 1 < n THEN n ELSE 2 * cur + 1

\* reserve(n) or grow(), then construct: v keeps the elements kept, which are
\* the first ones it has, and gets new after them.  Growing moves them to a new
\* block and frees the old one; the inline storage is not freed.
Fill(v, kept, new) ==
  LET n == Len(kept) + Len(new) IN
  IF n <= capac[v]
  THEN /\ mem' = [mem EXCEPT ![begin[v]] = kept \o new]
       /\ UNCHANGED <<begin, capac, heap>>
  ELSE \E b \in Blocks \ heap :
         /\ begin' = [begin EXCEPT ![v] = b]
         /\ capac' = [capac EXCEPT ![v] = MallocForGrow(capac[v], n)]
         /\ mem' = [mem EXCEPT ![begin[v]] = <<>>, ![b] = kept \o new]
         /\ heap' = (heap \ {begin[v]}) \cup {b}

-----------------------------------------------------------------------------
\* Constructors: the inline storage, then what the argument asks for.
ConstructVec(v, s) ==
  /\ v \notin alive
  /\ alive' = alive \cup {v}
  /\ Fill(v, <<>>, s)

ConstructCopy(v, r) == r \in alive /\ ConstructVec(v, Elts(r))

\* ~SmallVectorImpl: the block is freed.
DestroyVec(v) ==
  /\ v \in alive
  /\ alive' = alive \ {v}
  /\ begin' = [begin EXCEPT ![v] = v]
  /\ capac' = [capac EXCEPT ![v] = InlineSize]
  /\ mem' = [mem EXCEPT ![begin[v]] = <<>>]
  /\ heap' = heap \ {begin[v]}

Mut_Steal(v, r) ==
  /\ begin' = [begin EXCEPT ![v] = begin[r], ![r] = r]
  /\ capac' = [capac EXCEPT ![v] = capac[r]]
  /\ mem' = [mem EXCEPT ![begin[v]] = <<>>]
  /\ heap' = heap \ {begin[v]}

\* v takes the block of r, and frees the one it had; r is reset: it is empty,
\* points at its inline storage and has no capacity there.
Steal(v, r) ==
  /\ begin' = [begin EXCEPT ![v] = begin[r], ![r] = r]
  /\ capac' = [capac EXCEPT ![v] = capac[r], ![r] = 0]
  /\ mem' = [mem EXCEPT ![begin[v]] = <<>>]
  /\ heap' = heap \ {begin[v]}

\* The move constructor.  An empty source keeps its block.
ConstructMove(v, r) ==
  /\ v \notin alive /\ r \in alive
  /\ alive' = alive \cup {v}
  /\ \/ /\ Elts(r) = <<>>
        /\ UNCHANGED <<begin, capac, mem, heap>>
     \/ /\ Elts(r) # <<>> /\ isSmall(r)
        /\ mem' = [mem EXCEPT ![v] = Elts(r), ![r] = <<>>]
        /\ UNCHANGED <<begin, capac, heap>>
     \/ Elts(r) # <<>> /\ ~isSmall(r) /\ Steal(v, r)

Mut_MoveAssign(v, r) ==
  /\ v \in alive /\ r \in alive /\ v # r
  /\ UNCHANGED alive
  /\ \/ isSmall(r) /\ Fill(v, <<>>, Elts(r))
     \/ ~isSmall(r) /\ Steal(v, r)

\* The move assignment frees the block of v in any case.  Elements in inline
\* storage are moved one by one to a NEW block, because v has been reset.
MoveAssign(v, r) ==
  /\ v \in alive /\ r \in alive /\ v # r
  /\ UNCHANGED alive
  /\ \/ /\ isSmall(r) /\ Elts(r) = <<>>
        /\ begin' = [begin EXCEPT ![v] = v]
        /\ capac' = [capac EXCEPT ![v] = 0]
        /\ mem' = [mem EXCEPT ![begin[v]] = <<>>]
        /\ heap' = heap \ {begin[v]}
     \/ /\ isSmall(r) /\ Elts(r) # <<>>
        /\ \E b \in Blocks \ (heap \ {begin[v]}) :
             /\ begin' = [begin EXCEPT ![v] = b]
             /\ capac' = [capac EXCEPT ![v] = MallocForGrow(0, Len(Elts(r)))]
             /\ mem' = [mem EXCEPT ![begin[v]] = <<>>, ![r] = <<>>, ![b] = Elts(r)]
             /\ heap' = (heap \ {begin[v]}) \cup {b}
     \/ ~isSmall(r) /\ Steal(v, r)

CopyAssign(v, r) ==
  /\ v \in alive /\ r \in alive /\ v # r
  /\ UNCHANGED alive
  /\ Fill(v, <<>>, Elts(r))

-----------------------------------------------------------------------------
\* push_back and emplace_back (one element that is not in v), append.
AppendTo(v, s) ==
  /\ v \in alive /\ Len(Elts(v)) + Len(s) <= MaxSize
  /\ UNCHANGED alive
  /\ Fill(v, Elts(v), s)

\* assign: clear, then append.
AssignTo(v, s) ==
  /\ v \in alive
  /\ UNCHANGED alive
  /\ Fill(v, <<>>, s)

\* pop_back (n = Size - 1), clear (n = 0) and a resize downwards keep the
\* first n elements and the storage.
Truncate(v, n) ==
  /\ v \in alive /\ n < Len(Elts(v))
  /\ mem' = [mem EXCEPT ![begin[v]] = SubSeq(@, 1, n)]
  /\ UNCHANGED <<alive, begin, capac, heap>>

ResizeUp(v, n) ==
  /\ v \in alive /\ Len(Elts(v)) < n
  /\ UNCHANGED alive
  /\ Fill(v, Elts(v), Copies(n - Len(Elts(v)), Default))

\* reserve(n) of more than the capacity.
Reserve(v, n) ==
  /\ v \in alive /\ capac[v] < n
  /\ \E b \in Blocks \ heap :
       /\ begin' = [begin EXCEPT ![v] = b]
       /\ capac' = [capac EXCEPT ![v] = MallocForGrow(capac[v], n)]
       /\ mem' = [mem EXCEPT ![begin[v]] = <<>>, ![b] = Elts(v)]
       /\ heap' = (heap \ {begin[v]}) \cup {b}
  /\ UNCHANGED alive

VecNext ==
  \/ \E v \in Vecs, s \in Runs : ConstructVec(v, s) \/ AppendTo(v, s) \/ AssignTo(v, s)
  \/ \E v, r \in Vecs : \/ ConstructCopy(v, r) \/ ConstructMove(v, r)
                        \/ CopyAssign(v, r) \/ MoveAssign(v, r)
  \/ \E v \in Vecs : DestroyVec(v)
  \/ \E v \in Vecs, n \in 0..MaxSize : Truncate(v, n) \/ ResizeUp(v, n) \/ Reserve(v, n)

VecSpec == VecInit /\ [][VecNext]_vecVars

-----------------------------------------------------------------------------
VecTypeOK ==
  /\ alive \subseteq Vecs
  /\ begin \in [Vecs -> Places]
  /\ capac \in [Vecs -> Nat]
  /\ mem \in [Places -> Seq(Values)]
  /\ heap \subseteq Blocks

\* Memory: every allocated block belongs to exactly one object and every block
\* an object points at is allocated, so nothing is leaked, freed twice or used
\* after it was freed, whatever was moved, grown or assigned to what
\* (small_vector.h: grow, the moves, the destructor).
BlocksOwned ==
  /\ \A v \in Vecs : begin[v] = v \/ (v \in alive /\ begin[v] \in heap)
  /\ \A v, r \in Vecs : begin[v] = begin[r] => v = r
  /\ \A b \in heap : \E v \in alive : begin[v] = b

\* No element is written outside the storage: the elements fit the capacity,
\* and the capacity of a vector that points inside itself is at most the N
\* elements there (small_vector.h: resetToSmall, reserve before every write).
InBounds ==
  \A v \in Vecs : /\ Len(Elts(v)) <= capac[v]
                  /\ isSmall(v) => capac[v] <= InlineSize

\* The two together: a vector's memory is its own and large enough, after any
\* sequence of moves, growths and assignments (small_vector.h).
StorageSound == BlocksOwned /\ InBounds

\* A SmallVector behaves as a vector: each operation changes the sequences of
\* elements as the one of Vectors it stands for, whether they are inline, in a
\* block or change places, and no other vector with them; the source of a move
\* is left empty and reserve changes nothing (small_vector.h, all of it).
OperationsRefine ==
  /\ \A v \in Vecs, s \in Runs : /\ ConstructVec(v, s) => Abs!Construct(v, s)
                                 /\ AppendTo(v, s) => Abs!Extend(v, s)
                                 /\ AssignTo(v, s) => Abs!Assign(v, s)
  /\ \A v, r \in Vecs : /\ ConstructCopy(v, r) \/ CopyAssign(v, r) => Abs!CopyTo(v, r)
                        /\ ConstructMove(v, r) \/ MoveAssign(v, r) => Abs!MoveTo(v, r)
  /\ \A v \in Vecs : DestroyVec(v) => Abs!Destroy(v)
  /\ \A v \in Vecs, n \in 0..MaxSize :
       /\ Truncate(v, n) => Abs!Shorten(v, n)
       /\ ResizeUp(v, n) => Abs!Extend(v, Copies(n - Len(Elts(v)), Default))
       /\ Reserve(v, n) => UNCHANGED Contents

ImplementsVectors == Abs!VectorsSpec /\ [][vecVars' # vecVars => OperationsRefine]_vecVars
=============================================================================
