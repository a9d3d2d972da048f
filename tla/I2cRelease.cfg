SPECIFICATION I2cFairSpec
CONSTANTS
  Bits = 3
  Divisor = 1
  AddrW <- AddrWrite
  AddrR <- AddrRead
  Indexes <- OneIndex
  Words <- TwoWords
  WriteSizes = {0, 1, 2}
  ReadSizes = {1, 2}
  CpuRestarts = {"write"}
PROPERTIES
  ErrorFreesBus
