CONSTANTS
  MaxConfigs = 3
  Specs <- MCSpecs
SPECIFICATION FairSpec
INVARIANTS
  TypeOK
  InOrder
  SupersededIsCovered
  IInv
PROPERTIES
  NoPhaseIsTakenBack
  QueueSpec
  EveryConfigIsResolved
