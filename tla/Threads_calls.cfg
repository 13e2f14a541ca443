\* One client and one application thread, over refusals, a message, a connection
\* that breaks or goes silent, but no late answer;
\* connectionLost connects again.
CONSTANTS
  Clients = {c1}
  Apps = {a1}
  LostThreads = {l1, l2}
  Runners = {r1, r2}
  None = none
  Reconnects = TRUE
  Prompt = TRUE
  MaxCalls = 3
  Budgets <- Calls
SPECIFICATION FairSpec
INVARIANTS
  TypeOK
  OneRunner
  ConnectedWasAccepted
  RequestGotItsAnswer
PROPERTIES
  BreakNoticed
  CallReturns
\* The application may make its last call and stop; silence leads to a deadlock.
CHECK_DEADLOCK FALSE
