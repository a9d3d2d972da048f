SPECIFICATION CaptureSpec
CONSTANTS
  Minimum = 1
  Maximum = 8
  Modulus = 16
  Programs <- MCPrograms
  LineStore = 4
  Blocks <- MCBlocks
  Depth = 3
  SyncDelay = 1
  MaxRatio = 1
  MaxStarts = 2
INVARIANTS ColoursInPlace
