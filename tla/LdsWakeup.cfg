SPECIFICATION Spec
CONSTANTS
  NLidars = 2
  QueueSize = 1
  IndexRange = 2
  MaxPackets = 2
  MaxRaw = 1
  MaxImu = 1
  Formats = {"PointCloud2"}
INVARIANTS
  NothingLostOrReordered
  NoLostWakeup
PROPERTIES
  FramesTaken
  ExitReturns
CHECK_DEADLOCK FALSE
