SPECIFICATION Spec
CONSTANTS
  Host = {h1, h2}
  Vm = {v1, v2}
  Store = {d1, d2}
  Name = {n1, n2}
  StoreName = {s1, s2}
  None = None
  MaxMoves = 6
CHECK_DEADLOCK FALSE
SYMMETRY Symmetry
INVARIANT HostLinksInv RightLinks RightShares
