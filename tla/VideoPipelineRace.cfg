SPECIFICATION MCSpec
CONSTANTS
  Burst = 2
  FrameBursts = 2
  FifoDepth = 2
  LastBeatStalls = FALSE
  SoftwareWaits = TRUE
  LcdWords = 1
  LcdBursts = 2
  FifoBursts = 1
  TaskTime = 1
  SyncDelay = 1
  CpuRestarts = FALSE
PROPERTIES StoredThenRead
