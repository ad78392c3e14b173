----------------------------- MODULE MCContainers -----------------------------
(***************************************************************************)
(* Instances for TLC of the containers and the algorithms on them.  They   *)
(* do not know each other: `part' is the one that runs, the others stay in *)
(* one initial state.                                                      *)
(***************************************************************************)
EXTENDS Integers, Sequences

CONSTANTS
  Names, Values, Raw, Freed, Fit, MaxSize,                     \* InlinedVector
  Numbers, Limits, MaxPushed,                                  \* TopN
  BlockSizes, Requests, Alignments, DefaultAlignment, MallocAlignment, Residues,
  MaxHanded,                                                   \* Arena
  Weights, MaxElements,                                        \* WeightedPicker
  LimitLists, Samples, Lowest, Percents, MaxSamples,           \* Histogram
  Letters, MaxLength,                                          \* EditDistance
  WordBits, MaxBits                                            \* Bitmap

VARIABLES
  part,
  vec,
  limit, elements, state, pushed, dropped, bottom,
  blockSize, blocks, current, start, remaining, handed,
  size, levels, weights,
  limits, buckets, min, max, num, samples,
  source, target,
  nbits, words, ones

-----------------------------------------------------------------------------
\* insert and resize are given values of the caller's.
IV == INSTANCE InlinedVector WITH Aliasing <- FALSE

TN == INSTANCE TopN

AR == INSTANCE Arena

WP == INSTANCE WeightedPicker

\* Limits with gaps, below and above 0, values on, between and below them.
SmallLimits == {<<0, 2, 4>>, <<-1, 3>>, <<1, 2, 3, 6>>}
SmallSamples == -2..5
Least == -100
HI == INSTANCE Histogram

ED == INSTANCE EditDistance

BM == INSTANCE Bitmap

ASSUME ContainersAssumption ==
  /\ AR!ArenaAssumption /\ BM!BitmapAssumption /\ HI!HistogramAssumption
  /\ IV!InlinedVectorAssumption /\ WP!WeightedPickerAssumption

-----------------------------------------------------------------------------
topVars == <<limit, elements, state, pushed, dropped, bottom>>
arenaVars == <<blockSize, blocks, current, start, remaining, handed>>
pickerVars == <<size, levels, weights>>
histogramVars == <<limits, buckets, min, max, num, samples>>
editVars == <<source, target>>
bitmapVars == <<nbits, words, ones>>

containersVars == <<part, vec, topVars, arenaVars, pickerVars, histogramVars, editVars,
                    bitmapVars>>

Init ==
  /\ part \in {"inlined_vector", "top_n", "arena", "weighted_picker", "histogram",
               "edit_distance", "bitmap"}
  /\ IV!Init /\ (part # "inlined_vector" => vec = [n \in Names |-> IV!Empty])
  /\ TN!Init /\ (part # "top_n" => limit = 0)
  /\ AR!Init /\ (part # "arena" => blockSize = 24 /\ blocks[1].residue = 0)
  /\ WP!Init /\ (part # "weighted_picker" => size = 0)
  /\ HI!Init /\ (part # "histogram" => limits = CHOOSE ls \in LimitLists : TRUE)
  /\ IF part = "edit_distance" THEN ED!Init ELSE source = <<>> /\ target = <<>>
  /\ BM!Init

InlinedVectorRuns ==
  /\ part = "inlined_vector" /\ IV!Next
  /\ UNCHANGED <<part, topVars, arenaVars, pickerVars, histogramVars, editVars, bitmapVars>>

TopNRuns ==
  /\ part = "top_n" /\ TN!Next
  /\ UNCHANGED <<part, vec, arenaVars, pickerVars, histogramVars, editVars, bitmapVars>>

ArenaRuns ==
  /\ part = "arena" /\ AR!Next
  /\ UNCHANGED <<part, vec, topVars, pickerVars, histogramVars, editVars, bitmapVars>>

WeightedPickerRuns ==
  /\ part = "weighted_picker" /\ WP!Next
  /\ UNCHANGED <<part, vec, topVars, arenaVars, histogramVars, editVars, bitmapVars>>

HistogramRuns ==
  /\ part = "histogram" /\ HI!Next
  /\ UNCHANGED <<part, vec, topVars, arenaVars, pickerVars, editVars, bitmapVars>>

BitmapRuns ==
  /\ part = "bitmap" /\ BM!Next
  /\ UNCHANGED <<part, vec, topVars, arenaVars, pickerVars, histogramVars, editVars>>

\* LevenshteinDistance is a function: it is asked in the initial states.
Next ==
  \/ InlinedVectorRuns
  \/ TopNRuns
  \/ ArenaRuns
  \/ WeightedPickerRuns
  \/ HistogramRuns
  \/ BitmapRuns

Spec == Init /\ [][Next]_containersVars

-----------------------------------------------------------------------------
\* Two InlinedVectors are two std::vectors (inlined_vector.h:397-650).
VectorsAreSequences == IV!VectorsAreSequences

\* TopN keeps the greatest elements pushed (top_n.h:195-319).
HoldsTheGreatest == TN!HoldsTheGreatest

\* No two requests share memory (arena.cc:49-211).
HandedOutApart == AR!HandedOutApart

\* PickAt answers by the weights that were set (weighted_picker.cc:94-200).
PicksWhatIsCovered == WP!PicksWhatIsCovered

\* Percentiles fit the samples (histogram.cc:63-117).
PercentilesFit == HI!PercentilesFit

\* The distance is that of the cheapest edit (edit_distance.h:32-70).
DistanceIsLeast == ED!DistanceIsLeast

\* The bitmap holds what was set (bitmap.cc:7-79).
HoldsTheBits == BM!HoldsTheBits
=============================================================================
