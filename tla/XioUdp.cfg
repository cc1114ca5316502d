SPECIFICATION FairSpec
CONSTANTS
  Byte = 6
  Limit = 2
  MaxFlags = 2
  MaxLost = 1
  MaxSplits = 1
INVARIANTS TypeOK OneAtATime AnswerIsOwed
PROPERTY HeldOffIsReleased
