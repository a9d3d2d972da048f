SPECIFICATION LcdSpec
CONSTANTS
  LcdWords = 2
  LcdBursts = 3
  FifoBursts = 2
  TaskTime = 1
  SyncDelay = 2
  CpuRestarts = TRUE
INVARIANTS RequestIsKept
