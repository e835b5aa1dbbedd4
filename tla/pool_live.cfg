SPECIFICATION FairSpec
CONSTANTS
  Worker = {w1, w2}
  Task = {t1, t2}
  main = main
  other = other
  Client = {main, other}
  NoTask = NoTask
  NoClient = NoClient
  InitThreads = 2
  HardwareConcurrency = 2
  Sizes = {0, 1}
  Calls <- OneWaiter
  TaskCalls = {"submit"}
INVARIANT NoStrandedWaiter
PROPERTIES
  NotLeftWaiting
  ResizeReturns
  TasksAreRun
  DestructorRunsQueue
CHECK_DEADLOCK FALSE
