\* Two sockets, a connection that ends, and a second connection with the same number.
CONSTANTS
  s1 = s1
  s2 = s2
  Sockets = {s1, s2}
  NoSocket = none
  Base = 2
  Script <- Packets
  ReaderCloses = TRUE
  MaxConns = 2
  MaxBreaks = 1
SPECIFICATION FairSpec
INVARIANTS
  TypeOK
  PacketsAreSent
  BytesKept
  TakesTurns
PROPERTIES
  EverythingRead
\* When everything is read there is nothing to do.
CHECK_DEADLOCK FALSE
