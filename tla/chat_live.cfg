CONSTANTS
  c1 = c1
  c2 = c2
  c3 = c3
  Clients = {c1, c2}
  MAX_CONNECTIONS = 1
  MAX_MSG_LEN = 1
  Fds <- TwoFds
  Unit <- MCUnit
  Bye <- MCBye
  NULL = NULL
  NoClient = NoClient
  Names <- OneName
  Lines <- OneLine
  ClientCap = 2
  BacklogLimit = 2
  MaxTyped = 2
SPECIFICATION FairSpec
INVARIANTS
  FreeSlotForAccepted
  NobodyForgotten
PROPERTIES
  LeaverFreed
  Answered
  Consumed
  ClientsFollow
CHECK_DEADLOCK FALSE
