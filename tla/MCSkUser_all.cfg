SPECIFICATION Spec
CONSTANTS
  c = c
  d = d
  n = n
  Calls <- AllCalls
  HasCb <- CbCalls
  NumModules = 2
  MaxVal = 2
  MaxPend = 1
SYMMETRY Symm
INVARIANTS
  IInv
  DataKept
  FaultCause
CHECK_DEADLOCK FALSE
