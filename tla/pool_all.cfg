SPECIFICATION Spec
CONSTANTS
  Worker = {w1, w2, w3}
  Task = {t1, t2, t3}
  main = main
  other = other
  Client = {main, other}
  NoTask = NoTask
  NoClient = NoClient
  InitThreads = 2
  HardwareConcurrency = 3
  Sizes = {0, 1}
  Calls <- EveryCall
  TaskCalls = {"submit", "get_num_threads"}
SYMMETRY Symmetry
INVARIANTS
  TypeOK
  Inv
  InflightExact
  WorkConserving
  PoolLifecycle
  ResizeExact
PROPERTY ImplementsService
CHECK_DEADLOCK FALSE
