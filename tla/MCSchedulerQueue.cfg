SPECIFICATION FairQueueSpec
CONSTANTS
  Threads = {t1, t2, t3}
  Items = {i1, i2}
  NoThread = NoThread
  MaxStops = 2
INVARIANTS
  QueueTyped
  TasksMatchItems
  IdleCountExact
PROPERTIES
  PendingTaskFinishes
