\* The consumer falls behind: is the first frame the ready one?
CONSTANTS
  ka = ka
  kb = kb
  Kinds = {ka, kb}
  MaxPending = 10
  Modes <- MCStalled
  MaxFrame = 2
  MaxResults = 6
  MaxSessions = 0
SPECIFICATION Spec
SYMMETRY Symmetry
INVARIANTS ReadyFirst
\* The system stops when its bounds are used up.
CHECK_DEADLOCK FALSE
