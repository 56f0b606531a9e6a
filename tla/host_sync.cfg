SPECIFICATION FairSpec
CONSTANTS
  Platform = {p1, p2}
  Host = {h1, h2}
  Name = {n1}
  Task = {t1, t2}
  Blank = Blank
  MaxRetries = 1
  MaxMoves = 1
  MaxFaults = 1
CHECK_DEADLOCK FALSE
INVARIANT HostSyncInv CleanSyncMirrors
PROPERTY RowsStayWithTheirPlatform EverySyncEnds
