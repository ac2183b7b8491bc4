CONSTANTS
  IDs = {1, 2, 3}
  NoID = 0
  Fragments <- SomeFragments
  Reasons <- SomeReasons
  MaxItems = 1
  MaxFragments = 1
  MaxSources = 1
  MaxMessages = 2
  MaxBlocks = 1
  Providers = {"claude"}
SPECIFICATION Spec
CHECK_DEADLOCK FALSE
INVARIANT FinishIsFinal
