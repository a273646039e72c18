\* Two threads write through one descriptor.
CONSTANTS
  Thread = {t1, t2}
  Open = {f1}
  MaxBlocks = 2
  MaxOps = 2
  Uses = {"share"}
  NoFile = NoFile
SPECIFICATION Spec
SYMMETRY Symmetry
INVARIANT BaseSaved
CHECK_DEADLOCK FALSE
