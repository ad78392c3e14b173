----------------------------- MODULE EditDistance -----------------------------
(***************************************************************************)
(* gtl/edit_distance.h with std::equal_to: LevenshteinDistance, computed   *)
(* row by row as the code does.                                            *)
(***************************************************************************)
EXTENDS Integers, Sequences, FiniteSetsExt

CONSTANTS Letters, MaxLength

VARIABLES source, target  \* the two sequences

editVars == <<source, target>>

Words == UNION {[1..n -> Letters] : n \in 0..MaxLength}

Init == source \in Words /\ target \in Words

\* Fault: a substitution costs nothing.
RowFreeSubstitution(previous, c, t, i) ==
  LET current[j \in 0..Len(t)] ==
        IF j = 0 THEN i
        ELSE Min({current[j - 1] + 1, previous[j] + 1, previous[j - 1]})
  IN current

\* The row for the first i elements of s, the last of which is c.
Row(previous, c, t, i) ==
  LET current[j \in 0..Len(t)] ==
        IF j = 0 THEN i
        ELSE Min({current[j - 1] + 1,
                  previous[j] + 1,
                  previous[j - 1] + IF c = t[j] THEN 0 ELSE 1})
  IN current

\* The longer sequence is the one whose elements the rows go through.
LevenshteinDistance(s, t) ==
  LET long == IF Len(t) > Len(s) THEN t ELSE s
      short == IF Len(t) > Len(s) THEN s ELSE t
      row[i \in 0..Len(long)] ==
        IF i = 0 THEN [j \in 0..Len(short) |-> j]
        ELSE Row(row[i - 1], long[i], short, i)
  IN IF s = <<>> THEN Len(t)
     ELSE IF t = <<>> THEN Len(s)
     ELSE IF s = t THEN 0
     ELSE row[Len(long)][Len(short)]

\* The order-preserving ways to pair elements of s with elements of t.
Pairings(s, t) ==
  {m \in SUBSET ((1..Len(s)) \X (1..Len(t))) :
     \A p, q \in m : p # q => \/ p[1] < q[1] /\ p[2] < q[2]
                              \/ q[1] < p[1] /\ q[2] < p[2]}

\* The distance is the cost of the cheapest way to turn one sequence into the
\* other: pair elements in order, substitute in unequal pairs, delete and
\* insert the others (edit_distance.h:32-70).
DistanceIsLeast ==
  LET cost(m) == Len(source) + Len(target) - 2 * Cardinality(m)
                   + Cardinality({p \in m : source[p[1]] # target[p[2]]})
  IN LevenshteinDistance(source, target) = Min({cost(m) : m \in Pairings(source, target)})
=============================================================================
