CONSTANTS
  MaxPid = 6
  PipeCap = 2
  MaxFails = 1
  MaxSignals = 2
  INT_MAX = 3
  Files <- EightFiles
  Tree <- SmallTree
  FindCommands <- Searches
  PsLines <- SomePsLines
  Wanted <- OneAndThree
  Scripts <- SomeScripts
  Arguments <- SomeArguments
  NapArguments <- SomeNaps
  MaxSecs = 4
  MaxNodes = 4
  Words <- TwoWords
  SortCommands <- SomeSorts
  Pieces <- SomePieces
  Value <- Orders
  MAX_ELEMENTS = 4
  sz = 3
  EchoClients = {1, 2}
  EchoArguments <- SomeLengths
  BUFLEN = 4
  LastPort = 3
  Typing <- SomeTyping
SPECIFICATION FairSpec
INVARIANTS
  TypeOK
  OutputRight
  ForegroundDone
  CommandsOnce
  ChildrenReported
  NapsReported
  ListsLinked
  PivotsInPlace
  LinesIntact
PROPERTIES
  ImplementsList
  Ends
CHECK_DEADLOCK FALSE
