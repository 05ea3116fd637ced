CONSTANTS
  N = 3
  MaxRounds = 2
  MaxRuns = 2
SPECIFICATION Spec
CHECK_DEADLOCK FALSE
INVARIANTS
  MutualExclusion
  HolderIsAlive
  NoRoundLost
  SharesAddUp
