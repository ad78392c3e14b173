SPECIFICATION Spec
CONSTANTS
  Files <- SmallFiles
  Counts <- SmallCounts
  LF = 11
  CR = 12
  High = {9}
  VarintMax = 2
  BufferSize = 2
  ZFiles <- CheckedFiles
  ReadCounts = {0, 1, 2, 5}
  ZInputSize = 2
  ZOutputSize = 2
  MaxSkip = 2
  FlushModes = {"NO_FLUSH", "SYNC_FLUSH"}
  InputSize = 3
  OutputSize = 3
  MarkerSize = 2
  Lengths = {1, 2, 4}
  MaxBytes = 7
  Failures = 2
  TableKeys <- SmallKeys
  Sizes = {1, 50}
  MaxByte = 2
  BlockSize = 24
  RestartInterval = 2
  MaxEntries = 4
  ReadErrors = {"DATA_LOSS"}
  ha = ha
  hb = hb
  w1 = w1
  w2 = w2
  NoEntry = NoEntry
  Writers = {w1, w2}
  Entries <- Negative
  Indices = {0, 1}
CHECK_DEADLOCK FALSE
INVARIANTS
  StoredUnderOwnKey
