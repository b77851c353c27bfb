SPECIFICATION Spec
CONSTANTS
  MsPerSecond = 2
  UsPerMs = 2
  Cap = 5
  Delays = {1, 3}
  Jitters = {0, 2}
  Datagrams = 5
  Horizon = 7
INVARIANTS
  TypeOK
  HeapOrder
  NeverOversleeps
PROPERTIES
  ImplementsQueue
  InOrder
  EarlyByLessThanASecond
CHECK_DEADLOCK FALSE
