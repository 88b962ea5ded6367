SPECIFICATION MonSpec
CONSTANTS
  MonOrder <- MCOrder
  Window = 2
  Room = 2
  Grow = 1
  MaxCount = 1
  MaxRounds = 4
INVARIANTS
  MonInv
  ReportFaithful
PROPERTIES
  FaultCause
