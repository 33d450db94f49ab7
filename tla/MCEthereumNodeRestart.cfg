SPECIFICATION Spec
CONSTANTS
  RetryCount = 2
  MaxCalls = 6
  MaxFaults = 3
INVARIANT StartMeansServing
CHECK_DEADLOCK FALSE
