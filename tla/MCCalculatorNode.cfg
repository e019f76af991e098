SPECIFICATION FairSpec
CHECK_DEADLOCK FALSE
CONSTANTS
  Threads = {t1, t2}
  NoThread = NoThread
  max_in_flight_ = 2
  MaxSets = 3
INVARIANTS
  TypeOK
  SchedulingExact
  NoLostWakeup
PROPERTIES
  EventuallyClosed
