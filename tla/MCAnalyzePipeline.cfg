\* Two sessions of a few frames; msgReduction drops frames when more than
\* two wait.
CONSTANTS
  MaxPending = 2
  KeepPending = 1
  MaxSkew = 4
  MaxFrame = 3
  LastFrame <- MCLastFrame
  MaxQueue = 1
  MaxSkipped <- MCMaxSkipped
SPECIFICATION Spec
INVARIANTS ResultsFirst NobodyWaits
PROPERTIES EachGroup FrameFlows
\* The system stops when its bounds are used up.
CHECK_DEADLOCK FALSE
