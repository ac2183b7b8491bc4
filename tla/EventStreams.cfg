CONSTANTS
  IDs = {1, 2, 3}
  NoID = 0
  Fragments <- SomeFragments
  Reasons <- SomeReasons
  Providers = {"openai", "codex", "claude", "openrouter", "any"}
  MaxItems = 3
  MaxFragments = 2
  MaxSources = 2
  MaxMessages = 2
  MaxBlocks = 3
SPECIFICATION Spec
CHECK_DEADLOCK FALSE
INVARIANTS
  TypeOK
  ToolCallsIndexed
  ContentArrives
  InterleavedIsOwn
  ErrorsSurface
  AgreesWithGenerate
  RejectedAsKnown
PROPERTIES
  ContentGrows
