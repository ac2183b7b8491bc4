SPECIFICATION Spec
CONSTANTS
  c1 = c1 c2 = c2 p1 = p1 p2 = p2 p3 = p3 k1 = k1 k2 = k2
  None = None
  Scenes = {"retry", "usage", "manager", "channel"}
  Policies <- ThePolicies
  Errors <- TheErrors
  Usages <- TheUsages
  Thresholds <- TheThresholds
  Budgets = {0, 2, 5}
  WarnAt = 80
  MaxUsages = 4
  Callers = {c1, c2}
  Procs = {p1, p2, p3}
  Keys = {k1, k2}
  Initializes = {TRUE, FALSE}
  Sent <- TheEvents
  MaxSent = 4
  Capacity = 2
  OnFinishes = {TRUE, FALSE}
CHECK_DEADLOCK FALSE
INVARIANTS RetriesAreSound AlertsOnce ManagerOwnsProcess StreamIsFaithful
