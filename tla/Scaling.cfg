CONSTANTS
  MaxPods = 4
  NumSlots = 4
  MaxRestarts = 1
  Storage = {"persistent"}
  Topology <- MCTopology
  Losable = {"rebalance", "restart"}
  MaxLost = 2
  Resizes <- MCResizes
  MaxAttempts = 2
  Fragile = 2
SPECIFICATION FairScaling
INVARIANTS
  ServedThroughout
PROPERTIES
  OnlyEmptyPodsGo
  SlotsGoToPrimaries
  ReadyMeansScaled
  ScalingCompletes
