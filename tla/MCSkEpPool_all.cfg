SPECIFICATION FairSpec
CONSTANTS
  q1 = q1
  q2 = q2
  q3 = q3
  Req <- MixedReqs
  HasTimeout <- Timed
  HasUnpack <- Answered
  MaxEp = 3
  Max = 2
INVARIANTS
  IInv
  CalledBackOnce
  WrongAnswerNeedsGiveUp
  FaultCause
PROPERTIES
  EventuallyCalledBack
CHECK_DEADLOCK FALSE
