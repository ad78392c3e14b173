SPECIFICATION SyncSpec
CONSTANTS
  Nobody = Nobody
  Threads = {n1, n2, n3}
  Waiters = {a1, a2}
  MaxCount = 4
  Caller = Caller
  Workers = {p1, p2}
  Sizes = {0, 1, 2, 5, 7, 12}
  Costs = {1000, 20000, 40000}
  Aligns = {0, 1, 2}
  IntMax = 2147483647
  Null = Null
  NoOne = NoOne
  Handlers = {h1, h2, Null}
  Requests = {r1, r2, r3}
  Notifiers = {n1, n2}
  Forever = {w1}
  Timed = {w2, w3}
  Owners = {t1, t2}
  Pointers = {p, q}
  Objects = {o1, o2}
  Recorders = {c1, c2, c3}
  Labels = {l1, l2}
  Amount = 3
  MaxEvents = 3
  MaxExports = 2
CHECK_DEADLOCK FALSE
INVARIANTS
  BarrierSafe
  ParallelForSafe
  NotifierHasLeft
  DeletedWithTheLast
  SumAndCountAgree
PROPERTIES
  WaitReturns
  ParallelForReturns
  ImplementsHandlerSequence
  ExecuteReturns
