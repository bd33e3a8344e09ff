SPECIFICATION Spec
CONSTANTS
  g1 = g1
  g2 = g2
  s1 = s1
  Calls = {g1, g2, s1}
  Streams = {s1}
  MaxAttempts = 2
  StartTimeout = TRUE
  MaxTokens = 8
  Estimate = 2
  Usages <- Reports
  MaxCost = 20
  InputPrice = 3
  OutputPrice = 1
  RateLimit = 2
  RateInterval = 2
  Threshold = 2
  Cooldown = 2
  MaxTime = 3
INVARIANTS
  TypeOK
  BudgetLedger
  BudgetCapped
  OpenedByModelFailures
  NoOrphanStream
PROPERTY WindowsDoNotOverlap
