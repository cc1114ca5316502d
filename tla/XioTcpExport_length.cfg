SPECIFICATION Spec
CONSTANTS
  CircSize = 7
  Word = 64
  HdrSize = 1
  MaxData = 3
  Window = 4
  Clients = {c1}
  NoClient = none
  WildClient = wild
  AckExcess = 0
  MaxBytes = 12
  MaxDrops = 0
CHECK_DEADLOCK FALSE
INVARIANT LengthAsDocumented
