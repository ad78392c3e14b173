---------------------------- MODULE InlinedVector ----------------------------
(***************************************************************************)
(* gtl/inlined_vector.h: two InlinedVectors and every operation that       *)
(* changes them.  A vector is a piece of storage, inside the object or on  *)
(* the heap, of which a prefix holds constructed elements.  An operation   *)
(* that is given one of the vector's own elements by reference reads it    *)
(* where the code does: after a move it may be another one, and after a    *)
(* reallocation it is freed memory.                                        *)
(***************************************************************************)
EXTENDS Integers, Sequences, FiniteSetsExt

CONSTANTS
  Names,    \* the vectors
  Values,   \* what elements hold
  Raw,      \* storage without an element in it
  Freed,    \* what is read from freed storage
  Fit,      \* kFit, the elements that fit into the object
  MaxSize,  \* bound on size()
  Aliasing  \* whether insert and resize are given elements of the vector itself

\* What the constants must be; whoever instantiates the module assumes it.
InlinedVectorAssumption ==
  Fit \in Nat /\ MaxSize \in Nat /\ Fit < MaxSize /\ Raw \notin Values

VARIABLE vec  \* [heap, size, cells] of each vector

Storage(n) == [i \in 1..n |-> Raw]

Empty == [heap |-> FALSE, size |-> 0, cells |-> Storage(Fit)]

Capacity(v) == Len(v.cells)

\* The cells lo + 1..hi hold nothing any more.
Destroy(v, lo, hi) ==
  [v EXCEPT !.cells = [i \in 1..Len(@) |-> IF lo < i /\ i <= hi THEN Raw ELSE @[i]]]

\* Capacities double until they are enough.
GrownCapacity(n) ==
  LET doubled[k \in 0..MaxSize + Fit] == IF k = 0 THEN 1 ELSE 2 * doubled[k - 1]
  IN CHOOSE c \in {doubled[k] : k \in 0..MaxSize + Fit} :
       /\ c >= Fit /\ c >= n
       /\ c = 1 \/ c \div 2 < Fit \/ c \div 2 < n

\* Fault: the last element is left behind in the old storage.
GrowDropsLast(v, n) ==
  [heap |-> TRUE, size |-> v.size,
   cells |-> [i \in 1..GrownCapacity(n) |-> IF i < v.size THEN v.cells[i] ELSE Raw]]

\* Grow: the elements are moved to new storage.
Grow(v, n) ==
  [heap |-> TRUE, size |-> v.size,
   cells |-> [i \in 1..GrownCapacity(n) |->
                IF i <= v.size THEN v.cells[i] ELSE Raw]]

Reserve(v, n) == IF n > Capacity(v) THEN Grow(v, n) ELSE v

Construct(v, x) == [v EXCEPT !.cells[v.size + 1] = x, !.size = @ + 1]

\* x is read before the old storage is given up, whatever it refers to.
EmplaceBack(v, x) ==
  Construct(IF v.size < Capacity(v) THEN v ELSE Grow(v, v.size + 1), x)

PopBack(v) == [Destroy(v, v.size - 1, v.size) EXCEPT !.size = @ - 1]

\* What a reference to the vector's own element i gives after old became new.
Referent(old, new, i) ==
  IF Capacity(old) = Capacity(new) THEN new.cells[i] ELSE Freed

\* The arguments of insert and resize: a value of the caller's, or one of the
\* vector's own elements.
Arguments(v) ==
  [own : {FALSE}, value : Values] \cup
  (IF Aliasing THEN [own : {TRUE}, value : 1..v.size] ELSE {})

\* What the argument is when the operation reads it from new.
Read(arg, v, new) == IF arg.own THEN Referent(v, new, arg.value) ELSE arg.value

\* insert in front of position p, not at the end: the last element is copied
\* one further, those before it are shifted, and the element is assigned.
Insert(v, p, arg) ==
  LET g == IF v.size = Capacity(v) THEN Grow(v, v.size + 1) ELSE v
      shifted == [g EXCEPT !.cells = [i \in 1..Len(@) |->
                    IF p < i /\ i <= v.size + 1 THEN @[i - 1] ELSE @[i]],
                    !.size = @ + 1]
  IN [shifted EXCEPT !.cells[p] = Read(arg, v, shifted)]

Erase(v, p, q) ==
  LET gap == q - p
      moved == [v EXCEPT !.cells = [i \in 1..Len(@) |->
                  IF p <= i /\ i + gap <= v.size THEN @[i + gap] ELSE @[i]]]
  IN [Destroy(moved, v.size - gap, v.size) EXCEPT !.size = @ - gap]

Resize(v, n, arg) ==
  LET r == Reserve(v, n)
  IN IF n <= v.size THEN [Destroy(v, n, v.size) EXCEPT !.size = n]
     ELSE [r EXCEPT !.size = n,
                    !.cells = [i \in 1..Len(@) |->
                      IF v.size < i /\ i <= n THEN Read(arg, v, r) ELSE @[i]]]

\* The elements s are appended in one go: AppendRange of the constructors.
AppendRange(v, s) ==
  LET r == Reserve(v, v.size + Len(s))
  IN [r EXCEPT !.size = @ + Len(s),
               !.cells = [i \in 1..Len(@) |->
                 IF v.size < i /\ i <= v.size + Len(s) THEN s[i - v.size] ELSE @[i]]]

Elements(v) == SubSeq(v.cells, 1, v.size)

\* operator=: what fits is assigned, the rest is appended or erased.
Assign(v, w) ==
  LET s == Elements(w)
      over(u) == [u EXCEPT !.cells = [i \in 1..Len(@) |->
                    IF i <= Min({u.size, Len(s)}) THEN s[i] ELSE @[i]]]
      pushed[n \in v.size..Len(s)] ==
        IF n = v.size THEN over(Reserve(v, Len(s))) ELSE EmplaceBack(pushed[n - 1], s[n])
  IN IF v.size < Len(s) THEN pushed[Len(s)] ELSE over(Erase(v, Len(s) + 1, v.size + 1))

\* swap when one of the two is inline: a is the larger one.
SwapElements(a, b) ==
  LET g == Reserve(b, a.size)
  IN [a |-> [Destroy([a EXCEPT !.cells = [i \in 1..Len(@) |->
                        IF i <= b.size THEN g.cells[i] ELSE @[i]]], b.size, a.size)
               EXCEPT !.size = b.size],
      b |-> [g EXCEPT !.cells = [i \in 1..Len(@) |->
                        IF i <= a.size THEN a.cells[i] ELSE @[i]], !.size = a.size]]

Swapped(v, w) ==
  IF v.heap /\ w.heap THEN [a |-> w, b |-> v]
  ELSE IF v.size < w.size
  THEN LET s == SwapElements(w, v) IN [a |-> s.b, b |-> s.a]
  ELSE SwapElements(v, w)

----------------------------------------------------------------------------

Init == vec \in [Names -> {AppendRange(Empty, s) : s \in UNION {[1..n -> Values] : n \in 0..Fit + 1}}]

Becomes(n, v) == v.size <= MaxSize /\ vec' = [vec EXCEPT ![n] = v]

Modify(n) ==
  LET v == vec[n]
  IN \/ \E x \in Values : Becomes(n, EmplaceBack(v, x))
     \/ v.size > 0 /\ Becomes(n, PopBack(v))
     \/ \E arg \in Arguments(v), p \in 1..v.size :
          Becomes(n, Insert(v, p, arg))
     \/ \E p, q \in 1..v.size + 1 : p <= q /\ Becomes(n, Erase(v, p, q))
     \/ \E k \in 0..MaxSize, arg \in Arguments(v) :
          Becomes(n, Resize(v, k, arg))
     \/ Becomes(n, Empty)  \* clear()

\* InlinedVector(k, x), then move or copy assignment.
AssignNew(n) ==
  \E k \in 0..MaxSize, x \in Values :
    LET fresh == [Reserve(Empty, k) EXCEPT !.size = k,
                    !.cells = [i \in 1..Len(@) |-> IF i <= k THEN x ELSE Raw]]
    IN Becomes(n, Assign(vec[n], fresh))

Both(n, m) ==
  \/ Becomes(n, Assign(vec[n], vec[m]))
  \/ /\ n # m
     /\ LET s == Swapped(vec[n], vec[m]) IN vec' = [vec EXCEPT ![n] = s.a, ![m] = s.b]

Next ==
  \/ \E n \in Names : Modify(n) \/ AssignNew(n)
  \/ \E n, m \in Names : Both(n, m)

Spec == Init /\ [][Next]_vec

----------------------------------------------------------------------------

\* The vectors hold what std::vectors would, through every change between
\* storage in the object and on the heap; every element in the storage is one
\* of them, so nothing is lost, destroyed twice or left behind
\* (inlined_vector.h:397-442 and 542-650).
Vectors == INSTANCE VectorPair WITH
  seq <- [n \in Names |->
            IF \A i \in 1..Capacity(vec[n]) : vec[n].cells[i] = Raw <=> i > vec[n].size
            THEN Elements(vec[n]) ELSE <<Raw>>]

VectorsAreSequences == Vectors!Spec
=============================================================================
