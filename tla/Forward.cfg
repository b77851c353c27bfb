SPECIFICATION EndingSpec
CONSTANTS
  M = 256
  W = 31
  FileLength = 287
  Input <- Typed
  Tails <- Zeros
  MaxPayload = 3
  Stdin = TRUE
  Spurious = FALSE
  MaxInFlight = 1
  Directions = {"forward"}
  Faults = {"loss", "cut", "err", "jitter"}
INVARIANTS
  NobodyFails
  LinesReceived
PROPERTIES
  Completes
