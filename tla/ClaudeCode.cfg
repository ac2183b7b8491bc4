CONSTANTS
  g1 = g1
  s1 = s1
  s2 = s2
  Calls = {g1, s1, s2}
  Streams = {s1, s2}
  None = None
  k1 = k1
  k2 = k2
  Keys = {k1, k2}
  NoKey = NoKey
  Scenarios <- Several
SPECIFICATION FairSpec
CHECK_DEADLOCK FALSE
INVARIANTS
  TypeOK
  NoOrphan
  OwnAnswer
  SessionSurvives
  PanicIsExplained
PROPERTIES
  CallEnds
