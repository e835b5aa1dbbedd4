SPECIFICATION Spec
CONSTANTS
  Calls = {"reduce", "transform_reduce_1", "transform_reduce_2"}
  Lengths = {0, 2}
  Threads = {1, 2}
  HardwareConcurrency = 2
  Keys = {1}
  MayThrow = FALSE
INVARIANT InitUsedOnce
CHECK_DEADLOCK FALSE
