SPECIFICATION Spec
CHECK_DEADLOCK FALSE
CONSTANTS
  MaxTs = 3
  Offset = 1
  max_in_flight_ = 2
  Scheduling = Scheduling
  Closing = Closing
INVARIANT NoSendingAfterClose
