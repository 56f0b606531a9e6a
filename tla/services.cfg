SPECIFICATION FairSpec
CONSTANTS
  gunicorn = gunicorn
  beat = beat
  Service = {gunicorn, beat}
  Lists <- MCLists
  Command = {c1, c2}
  None = None
  MaxRetry = 0
  MaxPid = 6
  MaxFaults = 1
CHECK_DEADLOCK FALSE
INVARIANT OneProcessPerService
PROPERTIES StopEndsAll WatchedComesBack
