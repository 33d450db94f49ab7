SPECIFICATION Spec
CONSTANTS
  InitialNodes = 4
  AddSizes = {1, 2}
  RemoveSizes = {1, 2}
  MinNodes = 2
  MaxNodes = 6
  MaxOps = 4
  MaxFaults = 1
INVARIANT RemovalKeepsConsensus
CHECK_DEADLOCK FALSE
