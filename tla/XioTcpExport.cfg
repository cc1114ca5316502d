SPECIFICATION FairSpec
CONSTANTS
  CircSize = 7
  Word = 64
  HdrSize = 1
  MaxData = 3
  Window = 4
  Clients = {c1}
  NoClient = none
  WildClient = wild
  AckExcess = 1
  MaxBytes = 10
  MaxDrops = 1
CHECK_DEADLOCK FALSE
INVARIANTS TypeOK BufferSafe OutstandingBounded FifoUntilWrap
INVARIANTS OutstandingAccounts AckIsOwed
PROPERTY QueueDrains
