\* The messageArrived callback, which may refuse a message, with other threads disconnecting,
\* over a broker of MQTT 3.1 or of MQTT 3.1.1.
CONSTANTS
  MaxMsgId = 2
  Callback = TRUE
  Persistent = TRUE
  CleanSessions = {FALSE}
  Versions = {3, 4}
  Qoss = {0, 1, 2}
  MaxPublish = 3
  Limit <- LimitLossy
SPECIFICATION FairSpec
INVARIANTS
  NeverTwice
  SettledIsHeld
  CalledIsQueued
PROPERTIES
  FlowEnds
  DeliveredInOrder
\* A client with nothing left to receive may stop.
CHECK_DEADLOCK FALSE
