SPECIFICATION DataSpec
CONSTANTS
  Stamps = {s1, s2}
  NoStamp = NoStamp
  ByteMax = 4
INVARIANTS StreamRecovers StaleIsAge
