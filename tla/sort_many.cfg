SPECIFICATION SpecInTurn
CONSTANTS
  Worker = {w1, w2, w3, w4}
  s1 = s1
  s2 = s2
  s3 = s3
  s4 = s4
  Sort = {s1, s2, s3, s4}
  NoTask = NoTask
  Calls <- FourElements
  InitThreads = 4
  Sizes = {}
  MinLeaf = 1
  MinParallel = 3
  MayThrow = FALSE
SYMMETRY WorkersAlike
INVARIANT NotAllWaiting
CHECK_DEADLOCK FALSE
