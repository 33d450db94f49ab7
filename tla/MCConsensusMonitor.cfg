SPECIFICATION Spec
CONSTANTS
  g1 = g1
  g2 = g2
  Monitors <- MCMonitors
  Timeout = 4
  InitialWait = 3
  ResetWait = 2
  StableHeight = 2
  MaxBurst = 2
INVARIANTS TypeOK NobodyBlocks NilMeansAlive
PROPERTIES VerdictIsFirstError CallReturns NilLeavesNoMonitor
CHECK_DEADLOCK FALSE
