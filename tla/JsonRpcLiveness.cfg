CONSTANTS
  Callers = {c1, c2}
  Nobody = Nobody
  NotifCap = 1
  StdinCap = 1
  StdoutCap = 1
  MaxCalls = 2
  MaxNotifs = 0
  Faults = {"close", "cancel", "death", "unreadable"}
SPECIFICATION FairSpec
CHECK_DEADLOCK FALSE
PROPERTIES
  CallReturns
  KeepsPromise
