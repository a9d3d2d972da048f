SPECIFICATION CamSpec
CONSTANTS
  Burst = 3
  FrameBursts = 2
  FifoDepth = 4
  LastBeatStalls = FALSE
  SoftwareWaits = TRUE
PROPERTIES SavedIsWritten
