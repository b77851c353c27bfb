SPECIFICATION EndingSpec
CONSTANTS
  M = 256
  W = 31
  FileLength = 256
  Input <- File
  Tails <- Zeros
  MaxPayload = 2
  Stdin = FALSE
  Spurious = FALSE
  MaxInFlight = 1
  Directions = {}
  Faults = {}
PROPERTY
  AckRetires
CHECK_DEADLOCK FALSE
