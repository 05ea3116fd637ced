CONSTANTS
  Firmwares <- Interrupts
  ScanCodes <- AnyCode
  MaxKeys = 2
SPECIFICATION Spec
CHECK_DEADLOCK FALSE
INVARIANT PortEnabled
