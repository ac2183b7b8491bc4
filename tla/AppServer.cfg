CONSTANTS
  Users = {u1, u2}
  Nobody = Nobody
  MaxStarts = 2
  Crashes = TRUE
SPECIFICATION FairSpec
CHECK_DEADLOCK FALSE
INVARIANTS
  TypeOK
  ProcessIsReal
  HandshakeUnlessCrash
PROPERTIES
  OwnerReturns
