SPECIFICATION FairSpec
CONSTANTS
  g1 = g1
  g2 = g2
  app = app
  tool = tool
  Groups <- MCGroups
  Handles <- MCHandles
  GroupOf <- MCGroupOf
  Switchable <- MCSwitchable
  Callers <- MCCallers
  Politeness <- MCPoliteness
  MaxDbs = 3
  MaxOverlap = 2
  MaxSessions = 2
INVARIANTS NoUseAfterFree AllAgree
PROPERTIES UpdateReturns
CHECK_DEADLOCK FALSE
