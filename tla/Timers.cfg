SPECIFICATION TimedFairSpec
CONSTANTS
  M = 8
  W = 3
  Input <- Blocks
  Tails <- Zeros
  MaxPayload = 1
  Stdin = FALSE
  Spurious = TRUE
  MaxInFlight = 3
  Directions = {"forward", "reverse"}
  Faults = {"loss", "cut", "err", "jitter"}
  Delay = 3
  FirstTimer = 45
  NextTimer = 25
  MaxCuts = 3
INVARIANTS
  TimedTypeOK
  OnTime
  StopAndWait
  StandsStill
PROPERTIES
  RepeatsOnlyLost
  GivesUpOnLostAck
  ImplementsQuiet
CHECK_DEADLOCK FALSE
