SPECIFICATION Spec
CONSTANTS
  normal = normal
  hdr = hdr
  NoMode = NoMode
  Modes <- MCModes
  Politeness = {TRUE}
  MaxCalls = 5
  MaxResults = 1
INVARIANTS StopStops
CHECK_DEADLOCK FALSE
