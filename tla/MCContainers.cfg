SPECIFICATION Spec
CONSTANTS
  Names = {a, b}
  Values = {x, y}
  Raw = Raw
  Freed = Freed
  Fit = 2
  MaxSize = 4
  Numbers = {1, 2, 3}
  Limits = {0, 1, 2, 3}
  MaxPushed = 5
  BlockSizes = {21, 24}
  Requests = {2, 5, 6}
  Alignments = {1, 2, 8}
  DefaultAlignment = 4
  MallocAlignment = 4
  Residues = {0, 4}
  MaxHanded = 4
  Weights = {0, 1, 2}
  MaxElements = 5
  LimitLists <- SmallLimits
  Samples <- SmallSamples
  Lowest <- Least
  Percents = {0, 10, 25, 50, 75, 100}
  MaxSamples = 4
  Letters = {1, 2, 3}
  MaxLength = 3
  WordBits = 3
  MaxBits = 7
CHECK_DEADLOCK FALSE
INVARIANTS
  HoldsTheGreatest
  HandedOutApart
  PicksWhatIsCovered
  PercentilesFit
  DistanceIsLeast
  HoldsTheBits
PROPERTIES
  VectorsAreSequences
