SPECIFICATION FairSpec
CONSTANTS
  start = start
  a = a
  b = b
  echo = echo
  extra = extra
  Callers = {start, a, b}
  Starter = start
  Tools = {echo, extra}
  Steady = echo
  Catalogue <- TwoVersions
  MaxAttempts = 2
  MaxTurns = 3
  WireRoom = 1
INVARIANTS
  TypeOK
  OutcomeOnce
  TableDrains
  CallsNotRepeated
  SteadyToolFound
PROPERTY StreamEndReleases
