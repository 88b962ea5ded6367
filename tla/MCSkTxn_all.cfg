SPECIFICATION FairSpec
CONSTANTS
  a = a
  b = b
  c = c
  d = d
  Task <- AllTasks
  HasCb <- WithCb
  PackTask <- InPack
  NumModules = 2
  HasTimeout = TRUE
INVARIANTS
  IInv
  OneDriver
  FaultCause
PROPERTIES
  ModuleBarrier
  EventuallyFreed
CHECK_DEADLOCK FALSE
