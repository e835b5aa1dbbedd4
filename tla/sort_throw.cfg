SPECIFICATION Spec
CONSTANTS
  Worker = {w1, w2, w3, w4}
  Sort = {s1}
  NoTask = NoTask
  Calls <- FiveElements
  InitThreads = 4
  Sizes = {}
  MinLeaf = 1
  MinParallel = 3
  MayThrow = TRUE
SYMMETRY Symmetry
INVARIANT NothingLeftBehind
CHECK_DEADLOCK FALSE
