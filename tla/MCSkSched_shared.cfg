SPECIFICATION Spec
CONSTANTS
  m = m
  w1 = w1
  w2 = w2
  b1 = b1
  none = none
  Master = m
  NoDst = none
  Event <- SharedEvents
  From <- SharedFrom
  To <- SharedTo
  Pri <- SharedPri
  MaxPri = 1
  Workers <- TwoWorkers
  Bios <- OneBio
  PullNum = 2
  BridgeSize = 1
  MaxHop = 3
INVARIANTS
  EvenShares
CHECK_DEADLOCK FALSE
