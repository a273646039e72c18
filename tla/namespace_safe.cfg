\* Everything that users do and that fails, except that no inode number is given out twice.
CONSTANTS
  Inode = {i1, i2, i3, i4}
  Root = Root
  Name = {a, b}
  Bits = {"w"}
  Umask = {"w"}
  Uses = {"replace", "replacedir", "cross", "link", "nosave", "nomem", "lowerfail", "norestore"}
  MaxTime = 2
  None = None
SPECIFICATION Spec
SYMMETRY Symmetry
CHECK_DEADLOCK FALSE
INVARIANTS TypeOK PositiveTruthful KindAgrees 
PROPERTIES NegativeKept ModeFollows
