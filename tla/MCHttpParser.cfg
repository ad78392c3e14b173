SPECIFICATION MCSpec
CONSTANTS
  MaxBuffer = 3
  LengthMax = 31
  ShortRun = 1
  LongRun = 2
  MaxUrl = 5
  PortMax = 2
INVARIANTS
  AssertionsHold
  CallbackOrder
  BytesReported
  UrlSplit
PROPERTIES
  ExecuteAdvances
