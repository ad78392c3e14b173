SPECIFICATION Spec
CONSTANTS
  Caller = Caller
  Nobody = Nobody
  Workers = {p1, p2}
  Sizes = {0, 1, 2, 5, 6}
  Costs = {1000, 40000, 100000}
  Aligns = {0}
  IntMax = 2147483647
INVARIANTS
  EveryCallRunsF
