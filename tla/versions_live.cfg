\* One inode, a list limit of one, three operations and no failures: the files of the versions.
CONSTANTS
  Inode = {i1}
  Thread = {t1, t2}
  Name = {a}
  MaxVersions = 1
  ListMax = 1
  Windows = {1}
  NsecPerSec = 1
  Word = 64
  Epoch = 4
  ClockStep = 1
  Faults = {}
  MaxTime = 7
  MaxOps = 3
  NoVersion = NoVersion
SPECIFICATION FairSpec
INVARIANTS Restorable NoOrphan
PROPERTY ExpiredRemoved
