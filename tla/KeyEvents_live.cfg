CONSTANTS
  console = console
  profiler = profiler
  Clients <- OneListener
  MaxKeys = 3
  MaxTasks = 1
  MaxQueued = 3
  SyncName <- OwnNames
  Firmware <- AnyFirmware
  WaitsMayFail = TRUE
  MayExit = FALSE
  DriverMayFail = FALSE
SPECIFICATION FairSpec
CHECK_DEADLOCK FALSE
PROPERTIES
  ListenerStarts
  PressIsDelivered
  WakeupIsNotLost
