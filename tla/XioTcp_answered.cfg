SPECIFICATION TcpFairSpec
CONSTANTS
  CircSize = 7
  Word = 64
  HdrSize = 1
  MaxData = 3
  Window = 4
  Clients = {c1, c2}
  NoClient = none
  WildClient = wild
  AckExcess = 0
  MaxBytes = 40
  MaxDrops = 0
  HarvHdr = 2
  MaxPkt = 4
  BufSize = 5
  PktLens = {2, 4}
  Prefixes <- MCNoPrefix
  MaxConns = 1
  MaxPackets = 2
CHECK_DEADLOCK FALSE
PROPERTY EveryPacketIsAnswered
