\* Crashes at any point, short writes, a clean session.
CONSTANTS
  MaxMsgId = 2
  Qoss = {1, 2}
  MaxPublish = 2
  Limit <- LimitCrashes
SPECIFICATION Spec
INVARIANTS
  FilesInv
  ResumesWhereItWas
  NothingForgotten
\* A session with nothing in flight may stop.
CHECK_DEADLOCK FALSE
