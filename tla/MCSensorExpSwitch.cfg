\* A restart in another working mode, with another dcg delay.
CONSTANTS
  Configs <- MCSwitch
  MaxMap = 3
  MaxTable = 1
  LoseSof = FALSE
  MaxExp = 2
  MaxFrame = 2
  MaxSessions = 1
SPECIFICATION Spec
INVARIANTS DcgExcludesGain
CHECK_DEADLOCK FALSE
