SPECIFICATION FairSpec
CONSTANTS
  w1 = w1
  w2 = w2
  w3 = w3
  b1 = b1
  m = m
  r1 = r1
  r2 = r2
  x1 = x1
  x2 = x2
  Task <- MCTask
  Elem <- MCElem
  Type <- MCType
  Master = m
  Worker <- MCWorker
  Bio <- MCBio
  Src <- MCSrc
  Bidx <- MCBidx
  Mode = "RW_PR"
  MaxSlots = 1
  MaxPendings = 1
INVARIANTS
  NothingStranded
PROPERTIES
  NoStarvation
