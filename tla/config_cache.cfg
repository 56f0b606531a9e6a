SPECIFICATION Spec
CONSTANTS
  u1 = u1
  v1 = v1
  User = {u1}
  Request = {r1, r2}
  Template = Template
  Value = {v1, Template}
  Other = {o1, o2}
  Rows <- MCRows
  Default = {Empty, v1}
  Empty = Empty
  System = System
  None = None
SYMMETRY MCSymmetry
INVARIANT EntriesAreCurrent
