SPECIFICATION FairSpec
CONSTANTS
  Conns = {c1, c2}
  NoConn = NoConn
  Commands = {"V", "B", "E", "F", "D", "X"}
  MaxSent = 2
  MaxPolls = 1
  MaxPowerOffs = 1
PROPERTIES HaltIsDeliberate Answered
