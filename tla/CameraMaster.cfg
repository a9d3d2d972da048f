SPECIFICATION CamFairSpec
CONSTANTS
  Burst = 3
  FrameBursts = 2
  FifoDepth = 4
  LastBeatStalls = FALSE
  SoftwareWaits = TRUE
INVARIANTS CamTypeOK WordsInPlace NoUnderflow BurstIsWhole InStep
PROPERTIES FrameIsStored FramesComplete
