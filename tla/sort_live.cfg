SPECIFICATION FairSpec
CONSTANTS
  Worker = {w1, w2, w3, w4}
  Sort = {s1}
  NoTask = NoTask
  Calls <- SomeSorts
  InitThreads = 2
  Sizes = {4}
  MinLeaf = 1
  MinParallel = 3
  MayThrow = FALSE
INVARIANT CountExact
PROPERTIES
  SortsReturn
CHECK_DEADLOCK FALSE
