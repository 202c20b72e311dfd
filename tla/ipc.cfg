CONSTANTS
  Mains = {m1}
  num_values = 5
  Array <- FiveElements
  Numbers = {1, 2, 3}
  MaxId = 1
  MaxKills = 2
SPECIFICATION FairSpec
INVARIANTS
  TypeOK
  MutualExclusion
  WordAddsUp
  PrintedSum
  ReportExact
  IpcFreed
PROPERTIES
  Termination
CHECK_DEADLOCK FALSE
