CONSTANTS
  MaxConfigs = 3
  MaxFaults = 1
  Specs <- MCSpecs
  Changes <- SingleChanges
SPECIFICATION FairSpec
INVARIANTS
  AppliedMeansDeployed
  OneOperationAtATime
  IInv
PROPERTIES
  QueueSpec
  AppliedUnlessStuck
