SPECIFICATION Spec
CONSTANTS
  M = 256
  W = 31
INVARIANTS
  WindowIsDistance
  LoopsClosed
