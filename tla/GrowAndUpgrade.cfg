CONSTANTS
  MaxConfigs = 2
  MaxFaults = 0
  Specs <- GrowAndUpgradeSpecs
  Changes <- GrowAndUpgrade
SPECIFICATION FairSpec
PROPERTIES
  RemainingChangesFollow
