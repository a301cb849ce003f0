SPECIFICATION FairSpec
CONSTANTS
  Export = {e1, e2}
  Request = {r1}
  PoolSize = 2
  Items = 1
  MaxTimeouts = 1
INVARIANTS
  TypeOK
  OnlyTriggersStall
  EndedHoldsNothing
  NothingOpenAtSwapOrUpload
  OneConnectionPerJob
PROPERTIES
  JobsEnd
CHECK_DEADLOCK FALSE
