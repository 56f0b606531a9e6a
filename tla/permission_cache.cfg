SPECIFICATION FairSpec
CONSTANTS
  Caller = {c1, c2, c3}
  Empty = Empty
  Dead = Dead
  Failed = Failed
  MaxMoves = 2
  MaxCrashes = 1
CHECK_DEADLOCK FALSE
INVARIANT OneMaker AnswersAreCurrent PermissionCacheInv
PROPERTY CallsEnd
