SPECIFICATION Spec
CONSTANTS
  Row <- MCRow
  Table <- MCTable
  TableOf <- MCTableOf
  Columns <- AllColumns
  OnDelete <- AllOnDelete
  Filed <- FiledTables
  Inventory <- Infrastructure
  Askable <- MCAskable
  Superuser <- MCSuperuser
  First <- MCFirst
  Late <- MCLate
  Request = {q1, q2}
CHECK_DEADLOCK FALSE
SYMMETRY Symmetry
INVARIANT DeletionInv FilesFollowRows
PROPERTY PlatformsAreWholes MembersKeepTheirDepartment
