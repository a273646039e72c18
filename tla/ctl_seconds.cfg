\* A time in seconds, as README:219-223 gives it to rollback, refuted on the instance of ctl_safe.
CONSTANTS
  Inode = {i1, i2}
  None = None
  NsecPerSec = 2
  Epoch = 4
  MaxTime = 5
  MaxAdded = 3
  MaxPending = 2
  MaxVersions = 2
  IocMax = 1
SYMMETRY Symmetry
SPECIFICATION Spec
INVARIANT SecondsFound
CHECK_DEADLOCK FALSE
