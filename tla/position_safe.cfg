\* A file that is read, written and seeked, a directory that changes while it is read.
CONSTANTS
  MaxSize = 2
  Slots = 4
  Name = {".cowfs_shadow", "a", "b"}
  Buffers = {1, 2}
  NoName = NoName
SPECIFICATION Spec
INVARIANTS TypeOK PositionExact ListingExact
