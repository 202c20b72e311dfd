CONSTANTS
  c1 = c1
  c2 = c2
  c3 = c3
  Clients = {c1, c2, c3}
  MAX_CONNECTIONS = 2
  MAX_MSG_LEN = 1
  Fds <- ThreeFds
  Unit <- MCUnit
  Bye <- MCBye
  NULL = NULL
  NoClient = NoClient
  Names <- OneName
  Lines <- OneLine
  ClientCap = 2
  BacklogLimit = 2
  MaxTyped = 1
SYMMETRY Interchangeable
SPECIFICATION Spec
INVARIANTS
  FailedSendIsAWarning
CHECK_DEADLOCK FALSE
