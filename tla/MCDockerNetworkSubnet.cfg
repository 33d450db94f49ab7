SPECIFICATION Spec
CONSTANTS
  p1 = p1
  p2 = p2
  c1 = c1
  c2 = c2
  c3 = c3
  Nobody = Nobody
  Procs <- OneProcs
  Callers <- OneCallers
  ProcOf <- OneProcOf
  Base = 3
  FirstOctet = 1
  SecondOctet = 0
  MaxTryCount = 2
  Nums = {4, 5}
  MaxCalls = 2
INVARIANT GivenInSubnet
CHECK_DEADLOCK FALSE
