CONSTANTS
  Primaries = 2
  ReplicasPerPrimary = 1
  NumSlots = 3
  Storage = {"ephemeral", "persistent"}
  MaxFaults = 1
  Fragile = {2,3,4,5}
  MaxFailures = 1
SPECIFICATION FairSpec
CHECK_DEADLOCK FALSE
INVARIANTS
  TypeOK
  AlwaysServed
  AlwaysCovered
  IInv
PROPERTIES
  RecycledOnce
  DrainedFirst
  UpgradeCompletes
