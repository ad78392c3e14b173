---------------------------- MODULE WeightedPicker ----------------------------
(***************************************************************************)
(* base/random/weighted_picker.cc: a binary tree of sums above the weights *)
(* of N_ elements.  Level l has 2^l nodes; its leaves behind the last      *)
(* element are to stay 0, so that resizing need not touch them.            *)
(***************************************************************************)
EXTENDS Integers, Sequences

CONSTANTS
  Weights,      \* the weights callers give
  MaxElements   \* bound on N_

\* What the constants must be; whoever instantiates the module assumes it.
WeightedPickerAssumption == Weights \subseteq Nat /\ MaxElements \in Nat

VARIABLES
  size,     \* N_
  levels,   \* level_, levels[1] being the root
  weights   \* history: the weight each element should have

pickerVars == <<size, levels, weights>>

LevelSize(l) ==  \* of levels[l]
  LET doubled[k \in 1..MaxElements + 1] == IF k = 1 THEN 1 ELSE 2 * doubled[k - 1]
  IN doubled[l]

Sum(s) ==
  LET sum[i \in 0..Len(s)] == IF i = 0 THEN 0 ELSE sum[i - 1] + s[i]
  IN sum[Len(s)]

\* The levels a picker of n elements needs.
NumLevels(n) == CHOOSE k \in 1..n + 1 : LevelSize(k) >= n /\ (k = 1 \/ LevelSize(k - 1) < n)

\* The tree over k levels whose leaves begin with ws: RebuildTreeWeights.
Tree(k, ws) ==
  LET level[l \in 1..k] ==
        IF l = k THEN [i \in 1..LevelSize(l) |-> IF i <= Len(ws) THEN ws[i] ELSE 0]
        ELSE [i \in 1..LevelSize(l) |-> level[l + 1][2 * i - 1] + level[l + 1][2 * i]]
  IN [l \in 1..k |-> level[l]]

Ones(n) == [i \in 1..n |-> 1]

Init ==
  \E n \in 0..MaxElements :
    size = n /\ levels = Tree(NumLevels(n), Ones(n)) /\ weights = Ones(n)

Leaves(t) == t[Len(t)]

\* set_weight: the sums from the leaf of element i (from 1) up to the root.
SetWeight(t, i, w) ==
  LET delta == w - Leaves(t)[i]
      node[l \in 1..Len(t)] == IF l = Len(t) THEN i ELSE (node[l + 1] - 1) \div 2 + 1
  IN [l \in 1..Len(t) |-> [t[l] EXCEPT ![node[l]] = @ + delta]]

\* Fault: the weights that are dropped stay in the tree.
ResizedKeepsWeights(n) == IF n <= LevelSize(Len(levels)) THEN levels ELSE Tree(NumLevels(n), weights)

\* Resize: in the levels at hand, or into those of a new picker.
Resized(n) ==
  LET cleared[i \in n..size] ==  \* the elements behind n and up to i set to 0
        IF i = n THEN levels ELSE SetWeight(cleared[i - 1], i, 0)
  IN IF n > LevelSize(Len(levels))
     THEN Tree(NumLevels(n), SubSeq(Leaves(levels), 1, size))
     ELSE IF n < size THEN cleared[size] ELSE levels

Extended(n) == [i \in 1..n |-> IF i <= size THEN weights[i] ELSE 0]

set_weight(i, w) ==
  /\ levels' = SetWeight(levels, i, w)
  /\ weights' = [weights EXCEPT ![i] = w]
  /\ UNCHANGED size

SetAllWeights(w) ==
  /\ levels' = Tree(Len(levels), [i \in 1..size |-> w])
  /\ weights' = [i \in 1..size |-> w]
  /\ UNCHANGED size

SetWeightsFromArray(ws) ==
  /\ size' = Len(ws)
  /\ levels' = Tree(Len(Resized(Len(ws))), ws)
  /\ weights' = ws

Resize(n) ==
  /\ size' = n
  /\ levels' = Resized(n)
  /\ weights' = Extended(n)

AppendWeight(w) ==
  /\ size < MaxElements
  /\ size' = size + 1
  /\ levels' = SetWeight(Resized(size + 1), size + 1, w)
  /\ weights' = Append(weights, w)

Next ==
  \/ \E i \in 1..size, w \in Weights : set_weight(i, w)
  \/ \E w \in Weights : SetAllWeights(w) \/ AppendWeight(w)
  \/ \E n \in 0..MaxElements : Resize(n) \/ \E ws \in [1..n -> Weights] : SetWeightsFromArray(ws)

Spec == Init /\ [][Next]_pickerVars

total_weight == levels[1][1]

\* PickAt, an element counted from 1, or 0 for its -1.
PickAt(weightIndex) ==
  LET down[l \in 1..Len(levels)] ==  \* the node in level l and what is left
        IF l = 1 THEN [index |-> 1, position |-> weightIndex]
        ELSE LET up == down[l - 1]
                 left == levels[l][2 * up.index - 1]
             IN IF up.position < left
                THEN [index |-> 2 * up.index - 1, position |-> up.position]
                ELSE [index |-> 2 * up.index, position |-> up.position - left]
  IN IF weightIndex < 0 \/ weightIndex >= total_weight THEN 0
     ELSE down[Len(levels)].index

\* Whatever was set, resized and appended, PickAt gives the element whose
\* weight covers the index - never one without weight, one that was dropped or
\* a leaf behind the last one - and nothing outside the total
\* (weighted_picker.cc:94-116, 118-128, 167-200).
PicksWhatIsCovered ==
  /\ total_weight = Sum(weights)
  /\ \A x \in -1..total_weight :
       LET covers == {i \in 1..size : /\ Sum(SubSeq(weights, 1, i - 1)) <= x
                                      /\ x < Sum(SubSeq(weights, 1, i))}
       IN IF PickAt(x) = 0 THEN x < 0 \/ x >= Sum(weights) ELSE covers = {PickAt(x)}
=============================================================================
