CONSTANTS
  Producers = {p1, p2}
  Consumers = {c1, c2}
  QUEUELEN = 2
  MAX_EXPRS = 3
  NoExpr = NoExpr
  MaxSpurious = 1
SPECIFICATION FairSpec
INVARIANTS
  TypeOK
  NoLostWakeup
PROPERTIES
  ImplementsFifo
  Termination
CHECK_DEADLOCK FALSE
