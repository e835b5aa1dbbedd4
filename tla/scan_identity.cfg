SPECIFICATION Spec
CONSTANTS
  Calls = {"exclusive_scan"}
  Lengths = {0, 2}
  Threads = {1, 2}
  HardwareConcurrency = 2
  Keys = {1}
  MayThrow = FALSE
INVARIANT ScansExactly
CHECK_DEADLOCK FALSE
