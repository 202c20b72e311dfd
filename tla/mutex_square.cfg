CONSTANTS
  MaxThreads = 2
  NPROCS = 1
  INT_MAX = 2147483647
  CommandLines <- SquareLine
  Leftovers <- Zeroed
  num_values = 5
  Array <- FiveElements
SPECIFICATION Spec
INVARIANTS
  PrintedTotal
CHECK_DEADLOCK FALSE
