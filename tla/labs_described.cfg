CONSTANTS
  MaxPid = 6
  PipeCap = 2
  MaxFails = 0
  MaxSignals = 1
  INT_MAX = 3
  Files <- EightFiles
  Tree <- SmallTree
  FindCommands <- Searches
  PsLines <- SomePsLines
  Wanted <- OneAndThree
  Scripts <- SomeScripts
  Arguments <- SomeArguments
  NapArguments <- OneNap
  MaxSecs = 4
  MaxNodes = 4
  Words <- TwoWords
  SortCommands <- SomeSorts
  Pieces <- SomePieces
  Value <- Orders
  MAX_ELEMENTS = 4
  sz = 3
  EchoClients = {1}
  EchoArguments <- OneLength
  BUFLEN = 4
  LastPort = 1
  Typing <- SomeTyping
SPECIFICATION SideBySide
INVARIANTS
  SomeAsDescribed
CHECK_DEADLOCK FALSE
