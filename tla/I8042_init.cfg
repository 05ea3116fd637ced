CONSTANTS
  Firmwares <- AnyFirmware
  ScanCodes <- AnyCode
  MaxKeys = 2
SPECIFICATION FairSpec
CHECK_DEADLOCK FALSE
INVARIANTS
  SavedIsFirmware
  PortEnabledUnlessClash
  NoPhantom
  HarmNeedsFirmware
PROPERTY EveryPressIsSeen
