SPECIFICATION Spec
CONSTANTS
  r1 = r1
  s1 = s1
  NoRun = NoRun
  Runs = {r1, s1}
  Streams = {s1}
  MaxToolRounds = 1
  MaxCalls = 1
  MaxDeltas = 1
  CompactAt = 4
  KeepLast = 2
  MaxEdits = 1
PROPERTY CompactionKeepsRecent
