\* A kept session over connections that break and a process that restarts, or a
\* retry that comes before the answer; more ids than a behaviour assigns.
CONSTANTS
  MaxMsgId = 5
  MaxInflight = 2
  Persistent = TRUE
  CleanSessions = {FALSE}
  RetryInterval = 20
  Qoss = {0, 1, 2}
  MaxPublish = 3
  Budgets <- EarlyOrRestart
SPECIFICATION FairSpec
INVARIANTS
  SessionInv
  ListHoldsInflight
  WaitedWasDelivered
  DeliveredInOrder
PROPERTIES
  PromiseKept
  InflightEnds
\* An idle client with nothing left to publish may stop.
CHECK_DEADLOCK FALSE
