\* Two sessions, start-of-frame events lost at any point or not at all.
CONSTANTS
  Configs <- MCAnyConfigs
  MaxMap = 3
  MaxTable = 2
  LoseSof = TRUE
  MaxExp = 5
  MaxFrame = 5
  MaxSessions = 1
SPECIFICATION Spec
INVARIANTS ReportedIsReal FirstsApplied RegistersSettle
\* The system stops when its bounds are used up.
CHECK_DEADLOCK FALSE
