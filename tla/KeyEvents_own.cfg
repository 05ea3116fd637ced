CONSTANTS
  console = console
  profiler = profiler
  Clients <- TwoListeners
  MaxKeys = 3
  MaxTasks = 1
  MaxQueued = 3
  SyncName <- OwnNames
  Firmware <- AnyFirmware
  WaitsMayFail = TRUE
  MayExit = TRUE
  DriverMayFail = TRUE
SYMMETRY Exchange
SPECIFICATION Spec
CHECK_DEADLOCK FALSE
INVARIANTS
  TypeOK
  PlugFindsDriver
  ReadsNotifiedKey
  SilentOnlyAfterRefusal
  NoGapUnlessRefused
PROPERTY ReadsInOrder
