SPECIFICATION FairSpec
CONSTANTS
  Job = {j1, j2}
  NSub = 2
  Threads = 2
  MaxRetries = 1
  MaxMoves = 1
  MaxFaults = 2
CHECK_DEADLOCK FALSE
INVARIANT SyncJobsInv
PROPERTY AnnouncesOnce EveryJobIsAnswered EverySubtaskEnds
