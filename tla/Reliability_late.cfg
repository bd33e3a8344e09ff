SPECIFICATION Spec
CONSTANTS
  g1 = g1
  g2 = g2
  s1 = s1
  Calls = {g1, g2}
  Streams = {}
  MaxAttempts = 1
  StartTimeout = TRUE
  MaxTokens = 0
  Estimate = 2
  Usages <- Reports
  MaxCost = 0
  InputPrice = 1
  OutputPrice = 2
  RateLimit = 0
  RateInterval = 2
  Threshold = 1
  Cooldown = 2
  MaxTime = 2
PROPERTY OpenUntilCooldown
