CONSTANTS
  MaxConfigs = 3
  MaxFaults = 1
  MaxFailures = 1
  Specs <- MCSpecs
  Changes <- LiveChanges
SPECIFICATION FairSpec
INVARIANTS
  AppliedMeansDeployed
  OneOperationAtATime
  IInv
PROPERTIES
  UpToDatePodIsKept
  QueueSpec
  AppliedUnlessHalfWritten
