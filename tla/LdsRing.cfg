SPECIFICATION Spec
CONSTANTS
  NLidars = 1
  QueueSize = 2
  IndexRange = 4
  MaxPackets = 5
  MaxRaw = 1
  MaxImu = 0
  Formats = {"PointCloud2", "Pcl"}
INVARIANTS
  TypeOK
  SlotExclusion
PROPERTIES
  RingImplementsFifo
CHECK_DEADLOCK FALSE
