\* Two mounts, three lookups, everything that can fail, and the collector at any time.
CONSTANTS
  Name = {"a", "b"}
  MaxMounts = 2
  MaxLookups = 3
  Faults = {"init", "mount", "shadow", "lookup"}
SPECIFICATION FairSpec
INVARIANTS TypeOK RefsAccounted TableThere
PROPERTY StopEnds
