CONSTANTS
  console = console
  profiler = profiler
  Clients <- TwoListeners
  MaxKeys = 2
  MaxTasks = 2
  MaxQueued = 1
  SyncName <- OneName
  Firmware <- Interrupts
  WaitsMayFail = FALSE
  MayExit = TRUE
  DriverMayFail = FALSE
SPECIFICATION Spec
CHECK_DEADLOCK FALSE
PROPERTY ImplementsFeed
