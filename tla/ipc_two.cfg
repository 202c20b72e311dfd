CONSTANTS
  Mains = {m1, m2}
  num_values = 5
  Array <- FiveElements
  Numbers = {1, 2}
  MaxId = 2
  MaxKills = 0
SPECIFICATION Spec
INVARIANTS
  MutualExclusion
CHECK_DEADLOCK FALSE
