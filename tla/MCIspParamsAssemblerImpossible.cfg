\* No readback: a forced frame overtakes one that misses a result.
CONSTANTS
  ka = ka
  kb = kb
  Kinds = {ka, kb}
  MaxPending = 10
  Modes <- MCForced
  MaxFrame = 3
  MaxResults = 6
  MaxSessions = 0
SPECIFICATION Spec
SYMMETRY Symmetry
PROPERTIES NoImpossibleCase
\* The system stops when its bounds are used up.
CHECK_DEADLOCK FALSE
