SPECIFICATION LinkFairSpec
CONSTANTS
  MaxApid = 2
  Apids = {1, 2, 3}
  Size <- MCSize
  Rate <- MCRate
  Lens = {2}
  GarbageLen = 1
  MaxLen = 2
  TimeLen = 1
  HdrSize = 1
  Frame = 0
  Window = 4
  BufSize = 12
  Prefixes <- MCPrefixes
  Fillers = {"aa"}
  MaxPackets = 3
  MaxDrops = 1
  Clients = {c1, c2}
  NoClient = NoClient
  WildClient = WildClient
  File <- MCFile
  MaxEmulated = 2
  MaxHasty = 1
INVARIANTS TypeOK FramingKept DecimationKept WindowKept ForwardsToAnObject
PROPERTIES WindowOpens ServedAgain

