SPECIFICATION FairSpec
CONSTANTS
  s1 = s1
  u = u
  v = v
  kid = kid
  note = note
  Unset = Unset
  Workers = {u, v}
  Sessions = {s1}
  EventIDs <- CallersIDs
  Names = {kid}
  Scripts <- ShortScripts
  MaxEvalTurns = 3
  MaxTurns = 5
INVARIANTS
  TypeOK
  FollowersSeeLog
  TranscriptsTell
PROPERTIES
  UpdateFollowsRead
  SpawnKeepsSiblings
  RunsReturn
CHECK_DEADLOCK FALSE
