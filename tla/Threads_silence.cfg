\* The broker stops answering pings.
CONSTANTS
  Clients = {c1}
  Apps = {a1}
  LostThreads = {l1, l2}
  Runners = {r1, r2}
  None = none
  Reconnects = FALSE
  Prompt = TRUE
  MaxCalls = 1
  Budgets <- Silence
SPECIFICATION FairSpec
PROPERTIES
  LossNoticed
\* Calls are bounded: an application may make its last one and stop.
CHECK_DEADLOCK FALSE
