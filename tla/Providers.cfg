CONSTANTS
  MaxCalls = 2
  MaxText = 2
  MaxRounds = 2
  MaxStreams = 1
SPECIFICATION Spec
INVARIANTS StreamEndsWhole CallsPaired
CHECK_DEADLOCK FALSE
