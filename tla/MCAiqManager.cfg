SPECIFICATION FairSpec
CONSTANTS
  normal = normal
  hdr = hdr
  NoMode = NoMode
  Modes <- MCModes
  Politeness <- MCPoliteness
  MaxCalls = 6
  MaxResults = 1
INVARIANTS StateIsTrue NoStaleResult ModesAgree WaitersServed
PROPERTIES StopIsComplete SharedUnused SwitchReturns
CHECK_DEADLOCK FALSE
