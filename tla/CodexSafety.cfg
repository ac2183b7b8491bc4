CONSTANTS
  Calls = {g1, s1, s2}
  Streams = {s1, s2}
  None = None
  Keys = {k1, k2}
  NoKey = NoKey
  Cap = 2
  Budget = 2
  Faults = {"cancel", "break", "crash", "restart"}
SPECIFICATION Spec
SYMMETRY CallSymmetry
CHECK_DEADLOCK FALSE
INVARIANTS
  TypeOK
  SingleFlight
  ProcessIsStable
  ConfigUnlessRevived
