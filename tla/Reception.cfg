SPECIFICATION Spec
CONSTANTS
  M = 8
  W = 3
  MaxPackets = 12
INVARIANTS
  NeverFull
  WindowFollowsFile
  WindowCountsDown
  OrderedPeerServed
PROPERTIES
  WritesFromAwaited
CHECK_DEADLOCK FALSE
