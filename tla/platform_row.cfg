SPECIFICATION FairSpec
CONSTANTS
  Task = {t1}
  Probe = {q1}
  Patch = {r1}
  Label = {a}
  Gone = Gone
  MaxRetries = 1
  MaxMoves = 2
  MaxFaults = 1
CHECK_DEADLOCK FALSE
INVARIANT TypeOK
PROPERTY UserEditsSurviveSync UnreachableIsReported EverySyncEnds
