CONSTANTS
  Callers = {c1, c2}
  Nobody = Nobody
  NotifCap = 1
  StdinCap = 1
  StdoutCap = 2
  MaxCalls = 2
  MaxNotifs = 2
  Faults = {"close", "cancel", "death", "duplicate", "ignored", "unencodable"}
SPECIFICATION Spec
SYMMETRY CallerSymmetry
CHECK_DEADLOCK FALSE
INVARIANTS
  TypeOK
  NoChannelPanic
  NoStalePending
  OwnAnswer
  WaitingIsReachable
  NoOvertaking
