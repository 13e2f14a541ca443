\* A clean session with a message of an earlier one in the store.
CONSTANTS
  MaxMsgId = 1
  Qoss = {1, 2}
  MaxPublish = 2
  Limit <- LimitClean
SPECIFICATION Spec
PROPERTIES
  ClearEmpties
\* A session with nothing in flight may stop.
CHECK_DEADLOCK FALSE
