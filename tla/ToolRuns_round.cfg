SPECIFICATION FairSpec
CONSTANTS
  Ids = {i1, i2}
  NoId = NoId
  None = None
  MaxRounds = 1
  MaxCalls = 2
INVARIANTS TypeOK RightTask QuietAfterEnd
PROPERTIES StartedOnce StopsTakeEffect
CHECK_DEADLOCK FALSE
