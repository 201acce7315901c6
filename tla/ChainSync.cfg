CONSTANTS
  Blocks <- Partition
  Valid <- Partition
  Producer <- PartitionSigned
  Witnesses = {"w1", "w2"}
  Nested = {1}
  InitialMax = 10
  None = None
SPECIFICATION SyncSpec
INVARIANT BlockLogMatches
PROPERTY CatchesUp

