SPECIFICATION FairSpec
CONSTANTS
  Senders = {s1, s2}
  Dest = dest
  Nobody = nobody
  CommandLines <- SomeLines
  MaxArrivals = 4
INVARIANTS
  Paired
  OnceInOrder
PROPERTIES
  NothingForgotten
  RelayedAtLast
CHECK_DEADLOCK FALSE
