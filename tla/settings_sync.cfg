SPECIFICATION FairSpec
CONSTANTS
  Process = {p1}
  Name = {n1, n2}
  Value = {d, v}
  Default = d
  Garbled = Garbled
  NoRow = NoRow
  Editor = {e1, e2}
  MaxForms = 2
  MaxFaults = 2
CHECK_DEADLOCK FALSE
INVARIANT StaleOnlyIfMissed
PROPERTY EveryProcessConverges
