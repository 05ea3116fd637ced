CONSTANTS
  Lists <- UpToThreeTypes
  Names <- UpToThreeNames
  Sizes <- SmallSizes
  Processes <- TwoProcesses
  Arguments <- FourLetters
  Arrays <- FiveBytes
  Parts <- TwoParts
  UInts = 256
  Unsigned = 4
  Signed = 5
  Low = 512
  High = 2
SPECIFICATION Spec
CHECK_DEADLOCK FALSE
INVARIANT MeantOrMemory
