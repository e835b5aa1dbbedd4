SPECIFICATION FairSpec
CONSTANTS
  Lengths = {0, 1, 4, 5}
  Threads = {1, 2}
  Policies = {"par", "pure_threads"}
  SplitFactor = 2
INVARIANTS
  TypeOK
  Leftmost
  ChunksTile
  ChunksBounded
  NothingMissed
PROPERTIES
  OnlyImproves
  Returns
CHECK_DEADLOCK FALSE
