SPECIFICATION CamSpec
CONSTANTS
  Burst = 3
  FrameBursts = 2
  FifoDepth = 4
  LastBeatStalls = TRUE
  SoftwareWaits = TRUE
INVARIANTS BurstIsWhole
