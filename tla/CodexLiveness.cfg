CONSTANTS
  Calls = {g1, s1}
  Streams = {s1}
  None = None
  Keys = {k1, k2}
  NoKey = NoKey
  Cap = 2
  Budget = 2
  Faults = {"cancel", "expire", "break", "crash", "restart", "close", "garbled", "refuse"}
SPECIFICATION FairSpec
CHECK_DEADLOCK FALSE
PROPERTIES
  CallEnds
