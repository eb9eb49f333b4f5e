CONSTANTS
  Names = {"p0", "p1"}
  Configs <- MCConfigs
  First <- MCFirst
  Labels <- MCLabels
  Secrets = {"s1"}
  NoSecret = "s0"
  Passwords = {"none", "x", "y"}
  NoPassword = "none"
  FirstPassword = "x"
  MaxEvents = 2
SPECIFICATION FairSpec
INVARIANTS
  PoolIsOfOnePassword
  NodesAreOfTheLastReport
  IInv
PROPERTIES
  SeriesFollowLabels
  EveryNodeIsCollected
