\* An ioctl holds a version while the collector runs.
CONSTANTS
  Inode = {i1}
  Thread = {t1, t2}
  Name = {a}
  MaxVersions = 1
  ListMax = 1
  Windows = {1}
  NsecPerSec = 1
  Word = 64
  Epoch = 4
  ClockStep = 1
  Faults = {}
  MaxTime = 7
  MaxOps = 2
  NoVersion = NoVersion
SPECIFICATION Spec
INVARIANT HeldLive
