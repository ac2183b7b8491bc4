SPECIFICATION Spec
CONSTANTS
  Openings <- MCOpenings
  Followers <- MCFollowers
  Extensions <- MCExtensions
  Configurations <- MCConfigurations
  MaxMessages = 3
  MaxBlocks = 3
  MaxReply = 1
INVARIANTS
  NothingLost
  RepliesCanBeSent
  OptionsAccounted
PROPERTIES
  SendIsQuiet
  StoredIsSame
CHECK_DEADLOCK FALSE
