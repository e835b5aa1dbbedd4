SPECIFICATION FairSpec
CONSTANTS
  Calls = {"for_each", "fill", "copy", "transform_1", "transform_2", "reduce", "transform_reduce_1", "transform_reduce_2", "count_if", "exclusive_scan", "mergesort", "stable_mergesort"}
  Lengths = {0, 1, 3, 5}
  Threads = {1, 3, 5}
  HardwareConcurrency = 2
  Keys = {1, 2}
  MayThrow = TRUE
INVARIANTS
  TypeOK
  NoDataRace
  PiecesTile
  EveryElement
  ReducesAll
  ScansPrefixes
  MergesReady
  SortsRange
  LeavesNothing
PROPERTIES
  Ends
CHECK_DEADLOCK FALSE
