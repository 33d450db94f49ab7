SPECIFICATION Spec
CONSTANTS
  InitialNodes = 4
  AddSizes = {1, 2}
  RemoveSizes = {1, 2}
  MinNodes = 1
  MaxNodes = 6
  MaxOps = 4
  MaxFaults = 1
INVARIANTS TypeOK MeshAfterSuccess SettledMembership
INVARIANTS NoStrayContainer ForcedStopReachesAll
PROPERTIES VotesSuffice SuccessKeepsConsensus
CHECK_DEADLOCK FALSE
