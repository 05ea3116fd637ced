CONSTANTS
  Timeout = 10000
  Size = 65536
  BufferSize = 16
  Keys <- AllKeys
  Often <- FewKeys
  Early <- Marks
  MaxPresses = 3
  MaxMixed = 2
  Buffer = 3
SPECIFICATION AllSpec
CHECK_DEADLOCK FALSE
INVARIANTS
  FlushCounts
  OnlyLastPollFails
  CodesAsTyped
PROPERTIES
  DriverGoesOn
  EverythingIsTold
