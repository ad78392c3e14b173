SPECIFICATION FairSpec
CONSTANTS
  NoHandler = NoHandler
  Conns = {c1}
  Paths = {p1}
  Methods = {"HEAD", "GET", "PUT", "POST", "UNKNOWN"}
  Handlers = {h1, h2}
  Threads = 1
  MaxBody = 4
  MaxSend = 2
  Lengths = {0, 4}
  Pieces = {1, 2, 3}
  Added = {0, 1, 3}
CHECK_DEADLOCK FALSE
INVARIANTS
  ChunksInOrder
  ResponseComplete
  HandedOverOnce
PROPERTIES
  DispatchEnds
  ReadingEnds
