SPECIFICATION FairSpec
CONSTANTS
  init = init
  list = list
  Requests = {init, list}
  Initialize = init
  Inherited = {"stdin", "stdout", "stderr"}
  StdinRoom = 1
  StdoutRoom = 1
  MaxNoise = 1
INVARIANTS
  TypeOK
  OutcomeOnce
  TableDrains
  ClosedIsSettled
PROPERTIES
  WaitEnds
  CloseReturns
