CONSTANTS
  MaxPods = 4
  NumSlots = 4
  MaxRestarts = 1
  Storage = {"ephemeral", "persistent"}
  Topology <- MCTopology
  Losable = {"forget", "drain", "rebalance"}
  MaxLost = 1
SPECIFICATION FairSpec
PROPERTIES
  Converges
  DataIsKept
