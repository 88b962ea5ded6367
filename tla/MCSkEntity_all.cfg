SPECIFICATION FairSpec
CONSTANTS
  t1 = t1
  t2 = t2
  t3 = t3
  Txn <- ThreeTxns
  Kinds <- AllKinds
  Workflows <- AllWorkflows
  PeerCloses = TRUE
INVARIANTS
  IInv
  FaultCause
PROPERTIES
  StallNeedsEnd
  ClosedIsFreed
CHECK_DEADLOCK FALSE
