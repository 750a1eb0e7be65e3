------------------------------ MODULE Vectors ------------------------------
(***************************************************************************)
(* What a growable vector promises, and nothing of how it stores its       *)
(* elements: a few variables, each alive or not, and the sequence each one *)
(* holds.  SmallVector implements it (SmallVector!ImplementsVectors).      *)
(***************************************************************************)
EXTENDS Integers, Sequences

CONSTANTS
  Vecs,      \* the vector variables of a program
  Elements,  \* the sequences of elements an operation is given
  Dead       \* the content of a variable that is not alive

VARIABLE content   \* [Vecs -> the sequence of its elements, or Dead]

LiveVecs == {v \in Vecs : content[v] # Dead}

VectorsInit == content = [v \in Vecs |-> Dead]

Becomes(v, s) == content' = [content EXCEPT ![v] = s]

Construct(v, s) == v \notin LiveVecs /\ Becomes(v, s)

Destroy(v) == v \in LiveVecs /\ Becomes(v, Dead)

\* push_back, emplace_back, append, and a resize upwards.
Extend(v, s) == v \in LiveVecs /\ Becomes(v, content[v] \o s)

\* pop_back, clear, and a resize downwards.
Shorten(v, n) == v \in LiveVecs /\ Becomes(v, SubSeq(content[v], 1, n))

Assign(v, s) == v \in LiveVecs /\ Becomes(v, s)

\* The copy constructor and the copy assignment.
CopyTo(v, r) == r \in LiveVecs /\ Becomes(v, content[r])

\* The source of a move is left empty.
MoveTo(v, r) ==
  r \in LiveVecs /\ content' = [content EXCEPT ![v] = content[r], ![r] = <<>>]

\* Which elements an operation adds or assigns is the program's choice.
VectorsNext ==
  \/ \E v \in Vecs, s \in Elements : Construct(v, s) \/ Extend(v, s) \/ Assign(v, s)
  \/ \E v \in LiveVecs : Destroy(v) \/ \E n \in 0..Len(content[v]) : Shorten(v, n)
  \/ \E v, r \in Vecs : v # r /\ (CopyTo(v, r) \/ MoveTo(v, r))

VectorsSpec == VectorsInit /\ [][content' # content => VectorsNext]_content
=============================================================================
