SPECIFICATION Spec
CONSTANTS
  RetryCount = 2
  MaxCalls = 6
  MaxFaults = 3
INVARIANTS TypeOK InitLeavesGenesis StraysAreFailures OneFailureStillStops
PROPERTY CallsReturn
CHECK_DEADLOCK FALSE
