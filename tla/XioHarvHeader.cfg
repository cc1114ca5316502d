SPECIFICATION HdrSpec
CONSTANTS
  Base = 6
  Dollar = 3
  LetterP = 1
  LetterK = 5
  LetterT = 0
  xhpidPacketLimit = 2
  xhpidFireLayer = 4
  xhpidStreamLimit = 5
  xhsrcOnboardLimit = 2
  xhsrcHavardServer = 3
  xhsrcRemoteLimit = 4
  ValidFlags = {0, 1}
  XioHarMaxPayloadLength = 7
  Lengths = {0, 1, 7, 8, 1279, 1280, 1295}
  Blocks = {0, 11, 1295}
CHECK_DEADLOCK FALSE
INVARIANTS FilledIsAccepted AnyByteMatters
