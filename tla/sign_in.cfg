SPECIFICATION Spec
CONSTANTS
  Request = {r1, r2, r3}
  Mixes <- MCMixes
  Address = {x, y}
  Account = {u1, u2, u3}
  Old = {u1}
  Contact = {c}
  None = None
  Limit = 2
  MaxCodes = 2
  MaxLapses = 1
SYMMETRY Symmetry
CHECK_DEADLOCK FALSE
INVARIANTS BlocksAreEarned LoneFailuresAreCounted PassesServeOnce ContactsStayDistinct
