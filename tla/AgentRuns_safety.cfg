SPECIFICATION Spec
CONSTANTS
  r1 = r1
  s1 = s1
  NoRun = NoRun
  Runs = {r1, s1}
  Streams = {s1}
  MaxToolRounds = 1
  MaxCalls = 2
  MaxDeltas = 1
  CompactAt = 4
  KeepLast = 2
  MaxEdits = 2
INVARIANTS
  TypeOK
  SlotExclusion
  TurnsDoNotInterleave
  ToolCallsAnswered
  StreamCommitMatchesDone
  StreamEndsOnce
  CompactionSeesEveryTurn
