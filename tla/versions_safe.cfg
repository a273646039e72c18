\* Two inodes, a list limit of one, a window that changes and a clock that is set, also back.
CONSTANTS
  Inode = {i1, i2}
  Thread = {t1, t2}
  Name = {a}
  MaxVersions = 1
  ListMax = 1
  Windows = {1, 2}
  NsecPerSec = 1
  Word = 64
  Epoch = 4
  ClockStep = 1
  Faults = {"settime"}
  MaxTime = 7
  MaxOps = 2
  NoVersion = NoVersion
SPECIFICATION Spec
SYMMETRY Symmetry
INVARIANTS TypeOK CountExact OwnedOnce
PROPERTIES WindowKept FileKept
