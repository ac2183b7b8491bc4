CONSTANTS
  Calls = {g1, s1}
  Streams = {s1}
  None = None
  Keys = {k1}
  NoKey = NoKey
  Cap = 2
  Budget = 3
  Faults = {"break"}
SPECIFICATION Spec
CHECK_DEADLOCK FALSE
INVARIANTS
  OwnTurn
