SPECIFICATION FairSpec
CONSTANTS
  Conns = {c1, c2}
  NoConn = NoConn
  MaxSent = 1
  MaxPolls = 2
  MaxPowerOffs = 1
  ByteMax = 3
  Orders = {"E"}
  MaxHasty = 1
PROPERTIES DeadServerNoticed ContactMade
CHECK_DEADLOCK FALSE
