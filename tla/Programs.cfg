CONSTANTS
  Chars = {"a", "b"}
  Exit <- ExitLine
  Cap = 4
  MaxLines = 3
  MaxRuns = 3
  Threads = {t1, t2, t3}
  MaxStarts = 6
  MaxTests = 1
  None = None
  Ones = {a1, a2}
  Twos = {b1, b2}
  Procs = {p1, p2, p3}
  Samples = 3
  Keys = {"home", "end", "delete", "other"}
SPECIFICATION AllSpec
CHECK_DEADLOCK FALSE
INVARIANTS
  CursorAtEnd
  EachCountsOnce
  AnswersArrive
  StartedIsProfiling
PROPERTIES
  ImplementsHistory
  OnesEnd
