\* Two threads publish; the number of a closed socket is not used again.
CONSTANTS
  a1 = a1
  a2 = a2
  Apps = {a1, a2}
  QoS <- Either
  NoSocket = none
  Number <- FreshNumbers
  Clean = FALSE
  Length = 2
  Buffer = 2
  MaxSends = 2
  MaxOther = 2
SPECIFICATION FairSpec
INVARIANTS
  TypeOK
  StreamIsPackets
  UnfinishedIsKept
  MemoryLives
PROPERTIES
  PublishReturns
\* Calls are bounded.
CHECK_DEADLOCK FALSE
