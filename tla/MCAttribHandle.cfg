SPECIFICATION FairSpec
CONSTANTS
  s1 = s1
  s2 = s2
  zero = zero
  a1 = a1
  Setters <- MCSetters
  Values <- MCValues
  Zero = zero
  FromCalib = FromCalib
  MaxSets = 4
  MaxSessions = 2
INVARIANTS LastSetWins SyncIsHanded
PROPERTIES InOrder Settles
CHECK_DEADLOCK FALSE
