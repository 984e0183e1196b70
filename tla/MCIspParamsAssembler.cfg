\* Every mode, with a restart.
CONSTANTS
  ka = ka
  kb = kb
  Kinds = {ka, kb}
  MaxPending = 2
  Modes <- MCModes
  MaxFrame = 4
  MaxResults = 8
  MaxSessions = 1
SPECIFICATION Spec
SYMMETRY Symmetry
INVARIANTS TypeOK FramesInOrder ResultsKept NewestLast ReadyCounted InStepReadyFirst
PROPERTIES ReadbackImpossibleCase
\* The system stops when its bounds are used up.
CHECK_DEADLOCK FALSE
