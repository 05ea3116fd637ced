CONSTANTS
  console = console
  profiler = profiler
  Clients <- TwoListeners
  MaxKeys = 2
  MaxTasks = 1
  MaxQueued = 2
  SyncName <- OwnNames
  Firmware <- Interrupts
  WaitsMayFail = FALSE
  MayExit = TRUE
  DriverMayFail = FALSE
SPECIFICATION Spec
CHECK_DEADLOCK FALSE
INVARIANT WaitingMeansEnabled
