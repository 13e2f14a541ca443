\* MQTTClient_receive with a persistent store and restarts.
CONSTANTS
  MaxMsgId = 2
  Callback = FALSE
  Persistent = TRUE
  CleanSessions = {TRUE, FALSE}
  Versions = {3}
  Qoss = {0, 1, 2}
  MaxPublish = 3
  Limit <- LimitRestarts
SPECIFICATION Spec
INVARIANTS
  StoreMirrorsMemory
  NumberedInOrder
\* A client with nothing left to receive may stop.
CHECK_DEADLOCK FALSE
