\* One inode with a list limit of two: every failure there is, unmounting and reloading.
CONSTANTS
  Inode = {i1}
  Thread = {t1, t2}
  Name = {a}
  MaxVersions = 2
  ListMax = 1
  Windows = {1}
  NsecPerSec = 1
  Word = 64
  Epoch = 4
  ClockStep = 1
  Faults = {"copy", "short", "nomem", "remove", "umount"}
  MaxTime = 7
  MaxOps = 3
  NoVersion = NoVersion
SPECIFICATION Spec
SYMMETRY Symmetry
INVARIANTS CountExact OwnedOnce HasFile
PROPERTIES WindowKept ImplementsLog
