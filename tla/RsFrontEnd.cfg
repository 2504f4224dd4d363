SPECIFICATION FrontSpec
CONSTANTS
  LidarTypes = {"RS16", "RS32", "RSBP", "RS48", "RS80", "RS128", "RSP48", "RSP80", "RSP128",
    "RSHELIOS", "RSHELIOS_16P", "RSAIRY", "RSFAIRY", "RSAIRYLITE",
    "RSM1", "RSM1_JUMBO", "RSM2", "RSM3", "RSE1", "RSMX", "RSEMX"}
  CLOUD_POINT_MAX = 700
  SEQ_POINT_MAX = 30000
  MaxMsop = 3
  FrameLen = 21
  MaxFrames = 2
  MaxLag = 10
  MaxTrouble = 1
  Troubled = {"RSM1", "RSM1_JUMBO", "RSM2"}
  MaxSeqTrouble = 2
INVARIANTS FrontTypeOK FixedSplitIsOneTurn StampIsOwn FrameInOneCloud PacedBySplits
CHECK_DEADLOCK FALSE
