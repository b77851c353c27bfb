SPECIFICATION EndingSpec
CONSTANTS
  M = 256
  W = 31
  FileLength = 2
  Input <- File
  Tails <- Zeros
  MaxPayload = 2
  Stdin = FALSE
  Spurious = FALSE
  MaxInFlight = 1
  Directions = {"reverse"}
  Faults = {"loss"}
PROPERTY
  OutOfWindowIgnored
CHECK_DEADLOCK FALSE
