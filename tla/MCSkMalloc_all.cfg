SPECIFICATION Spec
CONSTANTS
  Threads = {t1, t2}
  Blocks = {b1, b2}
  Scopes = {core, mod}
  Sizes = {1, 2}
  MaxAlloc = 3
  MaxDalloc = 2
INVARIANTS
  IInv
  Accounted
PROPERTIES
  PeakMonotone
CHECK_DEADLOCK FALSE
SYMMETRY Symm
