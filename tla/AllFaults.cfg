SPECIFICATION Spec
CONSTANTS
  M = 8
  W = 3
  FileLength = 4
  Input <- File
  Tails <- Remains
  MaxPayload = 2
  Stdin = FALSE
  Spurious = TRUE
  MaxInFlight = 3
  Directions = {"forward", "reverse"}
  Faults = {"loss", "cut", "err", "jitter"}
INVARIANTS
  TypeOK
  PrefixWritten
  Lockstep
  EndMeansComplete
  WindowConserved
  SlotsInBounds
  Inductive
  BlocksKept
PROPERTIES
  DiesOnRepetition
  ImplementsPromise
CHECK_DEADLOCK FALSE
