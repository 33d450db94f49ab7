SPECIFICATION Spec
CONSTANTS
  n1 = n1
  n2 = n2
  Pollers <- MCPollers
  Calls <- AllCalls
  Nums = {0, 1, 2}
  Duration = 2
  MaxLevel = 2
  Word = 2
INVARIANTS TypeOK ResultMeansReached NilMeansAllFunded
PROPERTIES VerdictIsFirstError CallsReturn
CHECK_DEADLOCK FALSE
