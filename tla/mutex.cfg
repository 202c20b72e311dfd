CONSTANTS
  MaxThreads = 4
  NPROCS = 2
  INT_MAX = 1023
  CommandLines <- SomeLines
  Leftovers <- ZeroedOrDirty
  num_values = 5
  Array <- FiveElements
SPECIFICATION FairSpec
INVARIANTS
  TypeOK
  Partition
  SegmentSieved
  TotalAddsUp
  PrintedSum
  PrintedTotal
PROPERTIES
  Termination
CHECK_DEADLOCK FALSE
