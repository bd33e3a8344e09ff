SPECIFICATION Spec
CONSTANTS
  init = init
  list = list
  Requests = {init, list}
  Initialize = init
  Inherited = {}
  StdinRoom = 1
  StdoutRoom = 1
  MaxNoise = 0
INVARIANT ExitReported
