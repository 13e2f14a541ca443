\* Eight addresses: enough for every case of both balancing loops, and for a
\* loop of two rounds.
CONSTANTS
  Contents = {1, 2, 3, 4, 5, 6, 7, 8}
  Nil = nil
  Temp = temp
  Requests = {10, 32}
  SizeClass <- TwoSizes
  MaxUnlinked = 1
SPECIFICATION Spec
INVARIANTS
  Balanced
  WalkIsComplete
  AccountKept
PROPERTIES
  TableKept
  RoundsClimb
\* Memory may run out, which leaves the heap locked.
CHECK_DEADLOCK FALSE
