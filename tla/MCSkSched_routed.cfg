SPECIFICATION FairSpec
CONSTANTS
  m = m
  w1 = w1
  w2 = w2
  b1 = b1
  none = none
  Master = m
  NoDst = none
  Event <- RoutedEvents
  From <- RoutedFrom
  To <- RoutedTo
  Pri <- RoutedPri
  MaxPri = 2
  Workers <- OneWorker
  Bios <- OneBio
  PullNum = 1
  BridgeSize = 4
  MaxHop = 3
INVARIANTS
  IInv
  ChannelOrder
  NoLostWakeup
PROPERTIES
  AllHandled
