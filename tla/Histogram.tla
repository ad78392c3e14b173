------------------------------ MODULE Histogram ------------------------------
(***************************************************************************)
(* base/histogram.cc with a custom set of bucket limits.  Values and       *)
(* limits are integers; a percentile is an exact fraction, num over a      *)
(* positive den, where the code rounds to a double.                        *)
(***************************************************************************)
EXTENDS Integers, Sequences, FiniteSets

CONSTANTS
  Lowest,      \* -DBL_MAX
  LimitLists,  \* strictly increasing lists of bucket limits
  Samples,     \* the values added
  Percents,    \* the percentiles asked for
  MaxSamples   \* bound on the calls of Add

\* What the constants must be; whoever instantiates the module assumes it.
HistogramAssumption ==
  /\ \A ls \in LimitLists :
       /\ ls \in Seq(Int) /\ ls # <<>>
       /\ \A i, j \in 1..Len(ls) : i < j => ls[i] < ls[j]
  /\ Samples \subseteq Int /\ Lowest \in Int /\ \A v \in Samples : Lowest < v
  /\ Percents \subseteq 0..100

VARIABLES
  limits,   \* bucket_limits_
  buckets,  \* buckets_
  min, max, \* min_ and max_
  num,      \* num_
  samples   \* history: what was added since the last Clear

histogramVars == <<limits, buckets, min, max, num, samples>>

Cleared(ls) ==
  /\ buckets = [i \in 1..Len(ls) |-> 0]
  /\ min = ls[Len(ls)] /\ max = Lowest /\ num = 0
  /\ samples = <<>>

Init == limits \in LimitLists /\ Cleared(limits)

Clear ==
  /\ buckets' = [i \in 1..Len(limits) |-> 0]
  /\ min' = limits[Len(limits)] /\ max' = Lowest /\ num' = 0
  /\ samples' = <<>>
  /\ UNCHANGED limits

\* std::upper_bound: the first bucket whose limit is past the value.
UpperBound(value) == CHOOSE b \in 1..Len(limits) + 1 :
  /\ b <= Len(limits) => limits[b] > value
  /\ \A i \in 1..b - 1 : limits[i] <= value

\* Callers keep to values below the last limit: at or past it the code writes
\* behind buckets_.
Add(value) ==
  /\ Len(samples) < MaxSamples
  /\ value < limits[Len(limits)]
  /\ buckets' = [buckets EXCEPT ![UpperBound(value)] = @ + 1]
  /\ min' = IF min > value THEN value ELSE min
  /\ max' = IF max < value THEN value ELSE max
  /\ num' = num + 1
  /\ samples' = Append(samples, value)
  /\ UNCHANGED limits

Next == Clear \/ \E value \in Samples : Add(value)

Spec == Init /\ [][Next]_histogramVars

Larger(a, b) == IF a < b THEN b ELSE a
Smaller(a, b) == IF a < b THEN a ELSE b

\* Fault: the value before the first one of a bucket counts from its limit.
PercentileLooseBounds(p) ==
  LET sum[i \in 0..Len(limits)] == IF i = 0 THEN 0 ELSE sum[i - 1] + buckets[i]
      hits == {i \in 1..Len(limits) : sum[i] * 100 >= num * p /\ sum[i] # sum[i - 1]}
      b == CHOOSE i \in hits : \A j \in hits : i <= j
      lhs == IF b = 1 THEN min ELSE limits[b - 1]
      rhs == limits[b]
      den == 100 * (sum[b] - sum[b - 1])
  IN IF num = 0 THEN [num |-> 0, den |-> 1]
     ELSE [num |-> lhs * den + (num * p - 100 * sum[b - 1]) * (rhs - lhs), den |-> den]

\* The first non-empty bucket whose cumulative count reaches the threshold,
\* and the place in it, between bounds tightened by min_ and max_.
Percentile(p) ==
  LET sum[i \in 0..Len(limits)] == IF i = 0 THEN 0 ELSE sum[i - 1] + buckets[i]
      hits == {i \in 1..Len(limits) : sum[i] * 100 >= num * p /\ sum[i] # sum[i - 1]}
      b == CHOOSE i \in hits : \A j \in hits : i <= j
      lhs == Larger(IF b = 1 \/ sum[b - 1] = 0 THEN min ELSE limits[b - 1], min)
      rhs == Smaller(limits[b], max)
      den == 100 * (sum[b] - sum[b - 1])
  IN IF num = 0 THEN [num |-> 0, den |-> 1]
     ELSE [num |-> lhs * den + (num * p - 100 * sum[b - 1]) * (rhs - lhs), den |-> den]

AtMost(f, g) == f.num * g.den <= g.num * f.den

\* Every percentile lies between the smallest and the greatest sample, never
\* falls as p grows, and reaches every limit that fewer than p percent of the
\* samples lie under; 0 and 100 give the smallest and the greatest
\* (histogram.cc:63-117).
PercentilesFit ==
  num > 0 =>
    LET rank(x) == Cardinality({i \in 1..Len(samples) : samples[i] <= x})
        at(x) == [num |-> x, den |-> 1]
    IN /\ \E i \in 1..num : samples[i] = min
       /\ \A i \in 1..num : min <= samples[i] /\ samples[i] <= max
       /\ \A p \in Percents :
            /\ AtMost(at(min), Percentile(p)) /\ AtMost(Percentile(p), at(max))
            /\ p = 0 => AtMost(Percentile(p), at(min))
            /\ p = 100 => AtMost(at(max), Percentile(p))
            /\ \A q \in Percents : p <= q => AtMost(Percentile(p), Percentile(q))
            /\ \A i \in 1..Len(limits) :
                 100 * rank(limits[i] - 1) < p * num => AtMost(at(limits[i]), Percentile(p))
=============================================================================
