SPECIFICATION Spec
CONSTANTS
  w1 = w1
  w2 = w2
  w3 = w3
  t1 = t1
  t2 = t2
  t3 = t3
  t4 = t4
  Client = Client
  NoTask = NoTask
  Workers = {w1, w2}
  Tasks = {t1, t2}
  Parent <- ForkTree
INVARIANTS
  DestroyedMeansAllRun
