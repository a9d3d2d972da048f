SPECIFICATION LcdFairSpec
CONSTANTS
  LcdWords = 2
  LcdBursts = 3
  FifoBursts = 2
  TaskTime = 1
  SyncDelay = 2
  CpuRestarts = FALSE
INVARIANTS DoneIsSent RequestIsKept
PROPERTIES RequestIsDone DisplayGoesOn
