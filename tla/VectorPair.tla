------------------------------ MODULE VectorPair ------------------------------
(***************************************************************************)
(* What two std::vectors a and b of the same type do: InlinedVector is to  *)
(* behave like them (gtl/inlined_vector.h:2).                              *)
(***************************************************************************)
EXTENDS Integers, Sequences

CONSTANTS Names, Values, MaxSize

VARIABLE seq  \* the elements of each vector

Copies(n, x) == [i \in 1..n |-> x]

Init == seq \in [Names -> UNION {[1..n -> Values] : n \in 0..MaxSize}]

Becomes(v, s) == seq' = [seq EXCEPT ![v] = s]

PushBack(v, x) == Becomes(v, Append(seq[v], x))

PopBack(v) == seq[v] # <<>> /\ Becomes(v, SubSeq(seq[v], 1, Len(seq[v]) - 1))

\* In front of the element at position p (from 1).
Insert(v, p, x) ==
  Becomes(v, SubSeq(seq[v], 1, p - 1) \o <<x>> \o SubSeq(seq[v], p, Len(seq[v])))

\* The elements at positions p..q - 1.
Erase(v, p, q) ==
  Becomes(v, SubSeq(seq[v], 1, p - 1) \o SubSeq(seq[v], q, Len(seq[v])))

Resize(v, n, x) ==
  Becomes(v, IF n <= Len(seq[v]) THEN SubSeq(seq[v], 1, n)
             ELSE seq[v] \o Copies(n - Len(seq[v]), x))

Assign(v, w) == Becomes(v, seq[w])

AssignCopies(v, n, x) == Becomes(v, Copies(n, x))

Swap(v, w) == seq' = [seq EXCEPT ![v] = seq[w], ![w] = seq[v]]

Clear(v) == Becomes(v, <<>>)

Next ==
  \E v \in Names :
    \/ PopBack(v)
    \/ Clear(v)
    \/ \E x \in Values : PushBack(v, x)
    \/ \E x \in Values, p \in 1..Len(seq[v]) : Insert(v, p, x)
    \/ \E p, q \in 1..Len(seq[v]) + 1 : p <= q /\ Erase(v, p, q)
    \/ \E x \in Values, n \in 0..MaxSize : Resize(v, n, x) \/ AssignCopies(v, n, x)
    \/ \E w \in Names : Assign(v, w) \/ Swap(v, w)

Spec == Init /\ [][Next]_seq
=============================================================================
