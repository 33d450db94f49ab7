SPECIFICATION Spec
CONSTANTS
  p1 = p1
  p2 = p2
  c1 = c1
  c2 = c2
  c3 = c3
  Nobody = Nobody
  Procs <- MCProcs
  Callers <- MCCallers
  ProcOf <- MCProcOf
  Base = 3
  FirstOctet = 1
  SecondOctet = 0
  MaxTryCount = 2
  Nums = {5}
  MaxCalls = 1
INVARIANTS TypeOK NoAddressTwice  SubnetsNeverShared MutexesReleased
PROPERTY CallsReturn
CHECK_DEADLOCK FALSE
