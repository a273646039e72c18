\* The collector runs while the file system is unmounted.
CONSTANTS
  Name = {"a"}
  MaxMounts = 1
  MaxLookups = 0
  Faults = {}
SPECIFICATION Spec
INVARIANT ShadowHeld
