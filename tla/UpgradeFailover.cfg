CONSTANTS
  Primaries = 2
  ReplicasPerPrimary = 1
  NumSlots = 2
  Storage = {"persistent"}
  MaxFaults = 0
  Fragile = {0}
  MaxFailures = 1
SPECIFICATION Spec
CHECK_DEADLOCK FALSE
PROPERTIES
  OnlyDrainedAreRecycled
