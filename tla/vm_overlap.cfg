SPECIFICATION Spec
CONSTANTS
  Vm = {v1, v2}
  Store = {d1, d2}
  Name = {n1, n2}
  Task = {t1, t2}
  Scopes <- MCScopes
  MaxRetries = 1
  MaxMoves = 1
  MaxFaults = 1
CHECK_DEADLOCK FALSE
SYMMETRY Symmetry
INVARIANT VmSyncInv CleanSyncsPartition
PROPERTY ReadMachinesStayActive
