CONSTANTS
  Nodes = {"x", "y"}
  Secrets = {"s"}
  Passwords = {"none", "a", "b"}
  NoPassword = "none"
  Trim <- SameTrim
  MaxEdits = 1
  MaxFaults = 1
  MaxLosses = 0
SPECIFICATION FairSpec
PROPERTIES
  RotationSurvivesRestarts
