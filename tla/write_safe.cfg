\* Every open is used by one thread; opens, failures, short writes, mappings and rollbacks at the same time.
CONSTANTS
  Thread = {t1, t2}
  Open = {f1, f2}
  MaxBlocks = 2
  MaxOps = 3
  Uses = {"mmap", "fail", "short", "rollback"}
  NoFile = NoFile
SPECIFICATION Spec
SYMMETRY Symmetry
INVARIANTS TypeOK BaseSaved UndisturbedExact
CHECK_DEADLOCK FALSE
