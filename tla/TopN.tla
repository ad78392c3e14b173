--------------------------------- MODULE TopN ---------------------------------
(***************************************************************************)
(* gtl/top_n.h for elements ordered by >: the greatest limit_ elements of  *)
(* those pushed.  The standard heap is external: of its order only the     *)
(* front, the least element, matters.  When state_ is HEAP_SORTED the last *)
(* of the elements is unused.                                              *)
(***************************************************************************)
EXTENDS Integers, Sequences, SequencesExt

CONSTANTS
  Numbers,    \* the elements
  Limits,     \* limit_
  MaxPushed   \* bound on the calls of push

VARIABLES
  limit,     \* limit_
  elements,  \* elements_
  state,     \* state_
  pushed,    \* history: what was pushed since the last Reset
  dropped,   \* history: what push returned in *dropped
  bottom     \* history: what peek_bottom answered, <<>> for nothing

topVars == <<limit, elements, state, pushed, dropped, bottom>>

Init ==
  /\ limit \in Limits
  /\ elements = <<>> /\ state = "UNORDERED"
  /\ pushed = <<>> /\ dropped = <<>> /\ bottom = <<>>

Size == Min({Len(elements), limit})

\* The heap with its least element in front.
Heap(s) == SortSeq(s, <)

Unused == 0

\* Once there is one element too many the least is dropped, for good order
\* of the others, and its place becomes the unused one.
DropLeast(s) == LET h == Heap(s) IN [kept |-> Append(Tail(h), Unused), least |-> h[1]]

SwapFront(s, i) == [s EXCEPT ![1] = s[i], ![i] = s[1]]

\* Fault: a new least element stays at the back.
PushUnsortedKeeps(x) == Append(elements, x)

\* push before the limit is passed: in BOTTOM_KNOWN a new least element goes
\* to the front.
PushUnsorted(x) ==
  LET s == Append(elements, x)
  IN IF state = "UNORDERED" \/ x > s[1] THEN s ELSE SwapFront(s, Len(s))

Drop(x) == dropped' = Append(dropped, x)

push(x) ==
  /\ Len(pushed) < MaxPushed
  /\ pushed' = Append(pushed, x)
  /\ bottom' = <<>>
  /\ UNCHANGED limit
  /\ \/ /\ limit = 0
        /\ Drop(x)
        /\ UNCHANGED <<elements, state>>
     \/ /\ limit > 0 /\ state # "HEAP_SORTED"
        /\ LET s == PushUnsorted(x)
               d == DropLeast(s)
           IN IF Len(s) = limit + 1
              THEN elements' = d.kept /\ Drop(d.least) /\ state' = "HEAP_SORTED"
              ELSE elements' = s /\ UNCHANGED <<state, dropped>>
     \/ /\ limit > 0 /\ state = "HEAP_SORTED"
        /\ IF x > elements[1]
           THEN LET d == DropLeast([elements EXCEPT ![Len(elements)] = x])
                IN elements' = d.kept /\ Drop(d.least)
           ELSE Drop(x) /\ UNCHANGED elements
        /\ UNCHANGED state

\* The first of the least elements goes to the front.
LeastFirst ==
  SwapFront(elements, CHOOSE i \in 1..Len(elements) :
    /\ \A j \in 1..Len(elements) : elements[i] <= elements[j]
    /\ \A j \in 1..i - 1 : elements[i] < elements[j])

peek_bottom ==
  /\ Size > 0
  /\ IF state = "UNORDERED"
     THEN elements' = LeastFirst /\ state' = "BOTTOM_KNOWN"
     ELSE UNCHANGED <<elements, state>>
  /\ bottom' = <<elements'[1]>>
  /\ UNCHANGED <<limit, pushed, dropped>>

\* Extract and the other three give these, in this or another order.
Extracted ==
  LET s == IF state = "HEAP_SORTED" THEN SubSeq(elements, 1, Len(elements) - 1) ELSE elements
  IN Reverse(SortSeq(s, <))

\* Extract leaves nothing but Reset to be called.
Reset ==
  /\ elements' = <<>> /\ state' = "UNORDERED"
  /\ pushed' = <<>> /\ dropped' = <<>> /\ bottom' = <<>>
  /\ UNCHANGED limit

Next == (\E x \in Numbers : push(x)) \/ peek_bottom \/ Reset

Spec == Init /\ [][Next]_topVars

\* In whatever order elements are pushed and the bottom is peeked at, Extract
\* gives the greatest limit_ of them in descending order, peek_bottom the least
\* of those, and every other element was returned in *dropped
\* (top_n.h:195-313).
HoldsTheGreatest ==
  LET sorted == Reverse(SortSeq(pushed, <))
      n == Min({limit, Len(pushed)})
  IN /\ Extracted = SubSeq(sorted, 1, n)
     /\ SortSeq(dropped, <) = Reverse(SubSeq(sorted, n + 1, Len(pushed)))
     /\ bottom # <<>> => bottom[1] = sorted[n]
=============================================================================
