SPECIFICATION Spec
CONSTANTS
  Files <- MCFiles
  UserConfigs <- MCUsers
  TypeOf <- MCTypes
  RetryLimit = 1
  MaxPending = 1
  MaxTrouble = 1
  FirmwareLength = 5
  ReadLength = 2
  TryLimit = 3
  ProgressTryLimit = 3
  MaxFaults = 3
  LogFiles = 2
  BagsPerFile = 3
  MaxCacheSize = 3
  MaxFlight = 2
  MaxLogFaults = 1
  MaxStarts = 2
  MaxSecond = 1
  FramesOf <- MCFramesOf
  Columns = 2
  Channels = 2
  CloudQueue = 1
  PktQueue = 2
  MaxPktLoss = 1
INVARIANTS
  TypeOK
  SettingsAgreed
  DataReachable
  ImageComplete
  LogIntact
  CloudsPublished
CHECK_DEADLOCK FALSE
