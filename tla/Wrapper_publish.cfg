\* A program built on the wrapper; its connection breaks once.
CONSTANTS
  MaxMsgId = 3
  MaxInflight = 1
  Persistent = FALSE
  CleanSessions = {TRUE}
  RetryInterval = 20
  Qoss = {0, 1, 2}
  MaxPublish = 2
  Budgets <- OneLoss
  Threaded = FALSE
SPECIFICATION WrapperSpec
INVARIANTS
  PublishedWasDelivered
\* A program with nothing left to publish may stop.
CHECK_DEADLOCK FALSE
