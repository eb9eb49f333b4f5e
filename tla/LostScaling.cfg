CONSTANTS
  MaxConfigs = 2
  MaxFaults = 1
  Specs <- GrowSpecs
  Changes <- Grow
SPECIFICATION Spec
INVARIANTS
  TopologyAlreadyApplied
