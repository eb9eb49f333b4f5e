CONSTANTS
  Nodes = {"x", "y"}
  Secrets = {"s", "t"}
  Passwords = {"none", "a", "b", "b "}
  NoPassword = "none"
  Trim <- PaddedTrim
  MaxEdits = 2
  MaxFaults = 1
  MaxLosses = 1
SPECIFICATION FairSpec
INVARIANTS
  IInv
PROPERTIES
  ConfigMapComesLast
  PasswordReachesTheNodes
