SPECIFICATION Spec
CHECK_DEADLOCK FALSE
CONSTANTS
  MaxTimestamp = 3
  Streams = {1, 2, 3}
  Handlers <- MCFixedSize
INVARIANT
  FilledAtAllowed
