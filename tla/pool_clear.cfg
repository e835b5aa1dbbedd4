SPECIFICATION FairSpec
CONSTANTS
  Worker = {w1, w2}
  Task = {t1, t2}
  main = main
  other = other
  Client = {main, other}
  NoTask = NoTask
  NoClient = NoClient
  InitThreads = 2
  HardwareConcurrency = 2
  Sizes = {1}
  Calls <- WaitAndClear
  TaskCalls = {}
PROPERTY NotLeftWaiting
CHECK_DEADLOCK FALSE
