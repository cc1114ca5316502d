SPECIFICATION Spec
CONSTANTS
  Conns = {c1, c2}
  NoConn = NoConn
  MaxSent = 2
  MaxPolls = 1
  MaxPowerOffs = 0
  ByteMax = 3
  Orders = {"B", "E"}
  MaxHasty = 1
INVARIANTS TypeOK StatusSettled
PROPERTY ServiceSpec
SYMMETRY MCSymmetry
CHECK_DEADLOCK FALSE
