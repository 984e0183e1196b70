\* Publishers that skip frames and lag at will, or stay close, with a restart.
CONSTANTS
  sof = sof
  aec = aec
  Deps = {sof, aec}
  Delay <- MCDelay
  First <- MCFirst
  MaxPending = 4
  KeepPending = 2
  MaxSkew = 2
  MaxFrame = 6
  MaxQueue = 1
  MaxSessions = 2
SPECIFICATION Spec
INVARIANTS PendingIsNew CompleteIsAnalysed NoStaleMessage NothingLost
PROPERTIES AnalysisInOrder
\* The system stops when its bounds are used up.
CHECK_DEADLOCK FALSE
