SPECIFICATION MCSpec
CONSTANTS
  VaultSizes = {2, 3}
  Kinds <- AllKinds
  Shapes <- MCShapes
  Unset = Unset
  MaxFaults = 2
  MaxCalls = 2
  Excess = 1
  FileSizes = {1, 2, 4, 16}
INVARIANTS TypeOK VaultsKeepKeys StopNilMeansGone
INVARIANTS GenesisKnowsNodes OneGenesis OwnIdentity PanicsAreFailures FlagsMatchMount
INVARIANTS NothingCollides ServicesKnowEachOther
PROPERTIES VaultCallsReturn
CHECK_DEADLOCK FALSE
