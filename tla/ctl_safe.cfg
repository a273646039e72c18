\* Two files that have the path in turn, three versions, two stamps, lists of two, one row listed.
CONSTANTS
  Inode = {i1, i2}
  None = None
  NsecPerSec = 2
  Epoch = 4
  MaxTime = 5
  MaxAdded = 3
  MaxPending = 2
  MaxVersions = 2
  IocMax = 1
SYMMETRY Symmetry
SPECIFICATION Spec
INVARIANTS TypeOK RowExact
CHECK_DEADLOCK FALSE
