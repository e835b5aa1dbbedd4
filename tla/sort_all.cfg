SPECIFICATION Spec
CONSTANTS
  Worker = {w1, w2, w3, w4}
  Sort = {s1}
  NoTask = NoTask
  Calls <- AllSorts
  InitThreads = 4
  Sizes = {2, 4}
  MinLeaf = 1
  MinParallel = 3
  MayThrow = TRUE
SYMMETRY Symmetry
INVARIANTS
  TypeOK
  CountCovers
  ElementsExclusive
  SplitsApart
  SortedOnReturn
  ReturnsClean
  SomeWorkerFree
PROPERTIES
  FuturesStable
CHECK_DEADLOCK FALSE
