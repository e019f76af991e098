SPECIFICATION FairSpec
CHECK_DEADLOCK FALSE
CONSTANTS
  MaxTimestamp = 3
  Streams = {1, 2, 3}
  Handlers <- MCHandlers
INVARIANTS
  TypeOK
  InputSetsSound
PROPERTIES
  InputBoundKept
  DoneStreamsClose
